# TLA+ models and proofs for tech_c_cpp_multithread

The repository is a set of six independent C++ assignments. None of them starts
a thread: the "multithreading" is cooperative, one thread that interleaves
coroutines (05, 06) or connections (04). What makes the programs hard is
therefore the order in which routines, peers and events take turns, and the
state that is left behind between turns.

This directory holds the specifications, their model-checking configurations and
their proofs. All line numbers refer to `src/`.

## 1. Inventory

### 06-chanels: `Coroutine::Engine` with channels (modelled)

*State.* The run list `alive` of contexts, `cur_routine`, `caller` and `callee`
of each context, the table `block_table` (context -> descriptor and mode), the
table of channels and the next descriptor, `StackBottom`, and for each context a
jump buffer and a copy of its stack.

*Operations.* `start`, `run` (with the code a routine runs into when its
function returns), `yield`, `sched`, `get_chanel`, `delete_chanel`,
`chanel_write`, `chanel_read`, blocking or not; `Store` and `Restore`, which
copy stacks; `Chanel::write` and `Chanel::read`, the ring buffer.

*Interaction.* A channel call runs in a loop: it succeeds, and erases all that
wait for the opposite side from the block table; or it puts its routine there
and calls `sched(nullptr)`, which prefers the caller of the routine, then the
first of the run list that is not in the table, then the routine itself, then
ends the program with "Dead lock". Every switch records who made it as the
caller of the routine it enters, and completion goes back to that caller.

*Hard.* Wake-ups, stale entries of the block table, dangling `caller` pointers,
dead-lock detection, a loop that may spin, a ring buffer with three counters,
stack copies whose buffers only grow.

*Correct when.* A routine is in the block table only while it cannot go on and
under the call it is in; a dead lock is reported exactly when there is one;
`start` returns, with nothing left over, once all routines are done; a channel
is a FIFO of bytes; each routine keeps its own stack.

### 05-coroutines: `Coroutine::Engine` without channels (modelled)

The earlier form of the same engine: the same stack copying and the same
scheduling, without a block table, channels or dead locks.

### 04-epoll: a chat server (modelled, apart from its startup)

*State.* The map `clients_sockets` from descriptors to sockets, each with a
queue of write tasks (bytes and an offset); the array of events of the last
`epoll_wait`; in the kernel, what each descriptor is registered for.

*Operations.* The event loop of `main`: accept until `EAGAIN`, write one task,
read until `EAGAIN` and queue what was read for every other client, erase a
socket; `Socket::create`, `write`, `add_writetask`, the destructor; the handler
of `SocketException`.

*Interaction.* The handler of one event changes the sockets that later events of
the same batch are about; peers connect, send, read, leave and fail at any time.

*Hard.* Partial writes, when `EPOLLOUT` is switched on and off, events that are
stale when their turn comes, descriptors that are reused, exceptions in the
middle of an accept or of a broadcast.

*Correct when.* `EPOLLOUT` is on exactly while something is queued; events are
about the sockets they were reported for; the map and the kernel agree; each
client gets all that the others sent, once and in order (the code keeps this
only until an accept throws, section 5); queues drain and incoming data is read.

### 01-allocator: first fit with movable blocks (modelled)

*State.* A region with user blocks from the bottom and block descriptors from
the top; the list of all blocks by address (`child`), the list of free ones
(threaded through their memory), `last_before_sys`, a list of spare descriptors,
and `Pointer`s that share a descriptor with the block they name.

*Operations.* `alloc`, `realloc` (shrink, absorb free neighbours, move), `free`,
`defrag`.

*Interaction.* Clients write to the blocks they were given, and the links of the
free list lie in the blocks: those of blocks that were absorbed lie in somebody
else's, where the client writes and the allocator may put a link of its own.

*Hard.* Lazy removal of absorbed blocks from the free list, the system area
growing into the last block, `last_before_sys` following child pointers, moves
onto overlapping memory. *Correct when* blocks tile the region, each client's
block is its own and as large as promised, what is in it survives every other
call, every free block is in the list once, and searches end.

### 02-skiplist: `SkipList`, its nodes and iterator (modelled)

*State.* A sorted data layer and `MAXHEIGHT` index layers of linked nodes.
*Operations.* `Put`, `PutIfAbsent`, `Get`, `Delete`, `cbegin`, `cfind`.
*Hard.* An index node per level has to be linked and unlinked together with its
data node; keys and values are pointers to the caller's objects. *Correct when*
the layers are sorted, each contains the next, down pointers lead to the same
key, and the whole behaves as a map.

### 03-external-sort (modelled, apart from failing I/O)

*State.* Temporary files, a buffer of `S` bytes shared by the files of a merge.
*Operations.* `split` into sorted runs, `merge` of up to `S/B - 1` at a time,
rounds until one file is left. *Hard.* The boundaries: empty input, a fan-in of
one, refilling a buffer, files that are closed twice. *Correct when* the result
is the sorted permutation of the input and the rounds end.

### Not modelled

* Drivers and tests (`06-chanels/main.cpp`, `old_main.cpp`, the `*_test.cpp`):
  clients of the libraries, read for how they use them. What they do is among
  what the routines of the models may do.
* `06-chanels/r2.cpp`, `r3.cpp`: older copies of `src/engine.cpp`, in no Makefile.
* `thirdparty/gtest`, `cmake-build-debug`, `.idea`, `.dSYM`, binaries: vendored
  or generated. Google Test alone is 29,653 of the 34,764 lines of C and C++
  in the repository, and CMake's compiler probes another 1,100: what is modelled
  is a small part of the lines that are there and most of those that were
  written for it.
* In parts that are modelled: the startup of the chat, an `EPOLL_CTL_MOD` that
  fails and a client on descriptor 0 (section 2, EpollChat); failing input and
  output of the sort and its temporary files' names and descriptors; `dump` of
  the skip list and of the allocator, which only print.

## 2. Modules

| Module | What it is |
|---|---|
| `ByteStream` | abstract: a bounded stream of bytes, the promise of a channel |
| `Chanel` | `Engine::Chanel`, the ring buffer; implements `ByteStream!SizedSpec` |
| `ChanelProofs` | proofs about `Chanel` |
| `CoopSection` | abstract: routines that take turns inside `start`, with blocking calls; no run list, block table or callers |
| `Engine` | the scheduler of 06; implements `CoopSection` |
| `EngineTermination` | `Engine` with finitely many calls and fairness |
| `EngineProofs` | proofs about `Engine`, its refinement of `CoopSection` and `EngineTermination` |
| `PrivateStacks` | abstract: every routine has a stack of its own |
| `StackCopy` | `Store` and `Restore`; implements `PrivateStacks` |
| `StackCopyProofs` | proofs about `StackCopy` |
| `EpollChat` | the chat server and its peers |
| `EpollChatProofs` | proofs about `EpollChat` |
| `MovableHeap` | abstract: every `Pointer` has a block of its own, and only calls on it change what is in it |
| `Allocator` | the allocator, word by word; implements `MovableHeap` |
| `AllocatorProofs` | proofs about `Allocator` |
| `MCAllocator` | `Allocator` for TLC: symmetry of `Pointer`s |
| `OrderedMap` | abstract: a partial map with a cursor that visits its keys in order |
| `SkipList` | the skip list; implements `OrderedMap` |
| `SkipListProofs` | proofs about `SkipList` |
| `ExternalSort` | splitting, rounds of merging, blocks |
| `ExternalSortProofs` | proofs about `ExternalSort` |
| `InductionLemmas` | least and greatest numbers, concatenations: the induction the other proofs use |
| `MCEpollChat` | `EpollChat` for TLC: messages, symmetry of descriptors |

The abstract modules are promises, not translations. `Chanel` and `Engine` meet
in two quantities: `Engine` knows a channel by its capacity and its number of
unread bytes, the guards and effects of `Chanel`'s actions on `cur_size`
(`Grants`, `After`). `StackCopy` and `Engine` meet in the steps that switch:
`Engine`'s `PassTo` is `StackCopy`'s `Sched`.

Operators commented "Mutant:" are plausible mistakes in the definition that
follows them. No specification uses them; they serve to see that a property
fails when the code is changed that way.

### Chanel

Variables are the fields of `Engine::Chanel` (engine.h:55-65) plus `given` and
`taken`, the client's view of the last calls. `WriteContiguous`,
`WriteWrapped`, `WriteRefused` are the branches of `write` (engine.cpp:137-158),
the three `Read...` actions those of `read` (160-181). A `memcpy` is `Copied` or
`Fetched`. `WriteWrapped` copies the tail from the *start* of the data, as line
152 does. Uninitialised buffer contents are arbitrary in `Init`.

### Engine

One action is one library call up to the `longjmp` it ends in. `Picked` is the
choice `sched(nullptr)` makes (engine.cpp:91-114), `PassTo` its last lines
(116-130), `Yield` and `Sched` the calls; `Start`, `Run` and the five
`Complete...` actions are engine.h:157-265, split by where completion goes. A
blocking call is `Perform` when it need not wait, `Wait` when it has to; the
routine is then in `call` until `Retry` or `WaitAgain`, the rounds of the loop
after it is resumed. `Refuse` is the call with `block = false` that returns -1.
`phase` says where the thread is: outside or inside `start`, or stopped for good
by "Dead lock", by reading through a null pointer (`null_deref`) or by going on
with a freed context (`use_after_free`).

Left to the client, since the code checks none of it: no call uses a deleted
channel and none is deleted under a routine in a call on it; no blocking call
and no `run` around `start`; `sched` names a live routine. `callee` is left out:
it is only ever assigned `nullptr`. `idle_ctx`, which is never freed, is left
out, and so are jump buffers; stack copies are in `StackCopy`.

The scheduler of 05 is this one when `block_table` is empty: with
`MaxChanels = 0` there is no `Request`, and `Wait`, `Transfer` and the dead lock
vanish. The theorems hold for that value, too.

### StackCopy

`stack` is what lies below `StackBottom`, `above` what lies on the other side of
it, in the frames of `start` and its callers; `saved` is the size and buffer of
each context. `Stored` keeps the old, larger buffer (05 engine.cpp:21-28),
`Restore` copies *all* of it (31-41), so that the tail lands in `above`.
`Call`, `Return`, `Assign`, `AssignAbove` are what the code of a routine may do
to memory; bytes stand for frames.

### EpollChat

A server action is what the loop does up to and after one accept, read or write,
so that peers act between any two system calls. `batch` holds the events not yet
looked at, `current` the descriptor whose accept or read loop is on. `Accept`
and `AcceptFails` are the two ways of epoll_task.cpp:76, `HandleOut` is
`Socket::write` (Socket.cpp:41-62), `Read` one turn of epoll_task.cpp:89-111
with `add_writetask` for each other client, `Erase` the destructor. In
`AcceptFails` the map may or may not have got a default-constructed socket
(`Moved`): C++11 leaves the order of `operator[]` and `Socket::create` open.
`Throw` is the handler: the constructor of `SocketException` assigns its
parameter `socket_fd` to itself, so the handler reads an indeterminate value;
the program exits unless it is 0.

The kernel is external and modelled as TCP and a level-triggered epoll behave:
a socket that reported `EPOLLOUT` takes at least one byte unless its connection
was reset; unread data is delivered before an end of file or an error; a
descriptor that is closed is no longer registered.

`owed` and `got` are history variables: the messages the others sent since the
client was accepted, and the bytes written to it. A message is owed to *every*
other client as soon as it is read, also to those that the broadcast does not
reach because `add_writetask` throws at a default socket before them
(`ReadFails`; which clients those are depends on the order of the map, and any
subset may be reached). Each message owed records whether such a socket
(`Orphans`) was in the map as it was read: these are the only messages that
`EachGetsItsStream` allows to be missing, and each of them is missing as a whole
or not at all. Not modelled: `create_server_socket` and the startup, an `EPOLL_CTL_MOD`
of a registered descriptor that fails (out of kernel memory), `epoll_wait`
interrupted by a signal (it prints and goes on), and the descriptor 0 after the
handler's `close(0)`.

### Allocator

Addresses and sizes count words of 8 bytes, as `align` makes every size a
multiple of 8 (allocator.cpp:6). A descriptor (`MemListElem`) is two words at
the top of the region and is named by its address; `start`, `isFree` and `child`
are its fields, and the size of a block is the distance to the start of its
child, as in `getSize`. `next` of a free block is what its first word holds.
`word` is the memory blocks lie in: links, and what clients wrote, for which the
name of the `Pointer` stands. A client's word that a search takes for a link is
compared with `avail_tail` like any address: `Large` are the `Pointer`s whose
data is not below it.

A call is one action when it is done at once (`Free`, `Shrink`, `Write`);
otherwise `call` holds what it is at, and an action is one turn of a loop:
`DropAbsorbed`, `TakeAll`, `TakePart`, `Merge` and `Advance` are the branches of
`getAvailElem` (allocator.cpp:41-91), `Join` and `JoinEnds` the loop of
`joinWithFreeChildren` (166-186), `GrowInPlace`, `GrowElsewhere` and `Move` the
rest of `realloc` (200-241), `DefragSkips`, `DefragMoves`, `DefragEnds` the loops
of `defrag` (279-336).

The code checks none of four things, and the model stops where one of them goes
wrong.

* `overrun`, when something is written to words in use that the model cannot tell
  apart any more: the new descriptor lies on a client's words or on a link, or
  the link of a split block on that descriptor (the room is looked for in the last
  block whether a client has it or not, :114, and after the sizes were compared,
  :58-60); or a block of no words, to which `realloc` may shrink one, is freed or
  moved, so that its link goes onto what lies behind it.
* `null_deref`, when the way along `child` from `last_before_sys` starts at a
  block that a realloc has absorbed (:107).
* `wild`, when a search follows a link that a client has written over.
* `astray`, when a search begins in a list that the allocator itself has tangled:
  it has put the link of a block, or the contents of one that moves, onto the
  link of a block that was absorbed and is still in the list (:20-25; a split at
  :60-66, a shrink at :204-207, a free, a move at :234-238). The history variable
  `tangled` records that it did, until `defrag` makes a new list.

A tangled list does not stop the model by itself: splits of blocks in use,
reallocs in place, frees, writes and `defrag` go on as they do in the code, and
`BlocksTile`, `ClientsHaveBlocks`, `KeepsBlocks` and `DefragCompacts` are checked
of them. Only a search is not followed, as it may go in a circle, or leave a
block in the list that it gives to a client. `FreeBlocksAreListed` and
`SearchAdvances` are about lists that are not tangled, and section 5 shows how
the code loses blocks, and itself, in one that is. Everything the properties say
holds up to the stops. Descriptors that `defrag` retires
(`addToFreeList`, :95) are only cleared: `getFreeElem` never looks at their
list, and a way along `child` that gets into it ends at nullptr as one that
starts at an absorbed block does. Left out: calls that throw
`InvalidFree` or return an empty `Pointer`, which change nothing, and copies of
a `Pointer` by its client.

### SkipList

Layer 0 is the data layer, layer `l` the list of `aHeadIdx[l - 1]`. A key is at
most once in a layer, so `<<key, layer>>` serves as the address of its node;
`next` of a node is `Null` when no such node is allocated. `BeforeEqual` is
`getBeforeEqual` with its `update_list`, a walk per layer (`LastBefore`) that
starts below the node where the last one ended. `InsertToList` draws any level,
as `randLevel` may; `Delete` unlinks from the bottom up and stops at the first
layer that has no node of the key (`Indexed`). `Chain` is the set of nodes the
destructor meets on a layer. `pCurrent` is one iterator, used
while the list changes. Clients keep keys and values alive and unchanged, do not
delete the key an iterator is at and do not move it past the end; the list keeps
only pointers and cannot tell.

### ExternalSort

`sort_files` and `out_files` are the contents of the files in the two vectors of
a round; `inputs` are the files of the merge that is on, each with what is still
on disk, what is left of its block, its candidate and whether it has ended;
`out_file` the file written and its block. The input is chosen while `Split`
reads it, and `input` counts its numbers. `ReadNum`, `WriteNum` and `Flushed`
are the buffered branches of `TempFile`: the unbuffered ones are not used by
`merge`. `qsort` is external: `Sorts` is its contract. Descriptors are left out: temporary files are closed once by `merge`
and again by their destructors, which run between rounds, when nothing is open.

## 3. Runs

| Run | Bounds | What it shows |
|---|---|---|
| `chanel` | capacity 3, requests 0-4, two byte values | offsets and size agree; unread bytes stay in place, through every wrap; requests of 0, below, at and above the capacity |
| `engine` | 3 routines, 1 channel of capacity 2, sizes 0-3, 6 calls in a section | block table, dead locks, callers, end of a section, refinement of `CoopSection`; every section ends, woken routines go on |
| `stacks` | 2 routines, depth 3, two values | private stacks |
| `chat` | 3 descriptors, 3 connections, 2 messages of 1 and 2 bytes | safety of the chat |
| `chat_liveness` | the same with 2 descriptors | queues drain, what is sent is read |
| `allocator` | 3 `Pointer`s, 16 words, requests of 0-2 words | blocks tile, clients keep theirs and what is in them, the free list is whole and searches end as long as no link was written over, which only absorbed blocks let the allocator do, defrag compacts |
| `skiplist` | 3 keys, 3 index layers, 2 values, 1 iterator | layers, leaks, refinement of `OrderedMap` |
| `sort` | 2 numbers, buffer of 6, blocks of 2, up to 4 runs | nothing lost, sorted, memory not shared, ends |
| `fifo`, `freed`, `above` | as above | violations, section 5 |
| `wild` | 2 `Pointer`s, 16 words, requests of 0-3 words | violation, section 5 |

*Why these bounds are enough to be interesting.* With capacity 3 and sizes up to
4 both offsets reach every position relative to each other, and a wrapped write
can have one or two bytes on either side. Three routines are needed for one to
wait, one to transfer and one to compete for what was transferred, and for a
caller that has completed in the meantime; sizes 0 and 3 give the calls that
always and that never succeed. Depth 3 gives stacks that grow and shrink between
two suspensions. Three connections on three descriptors give a sender and two
receivers, and a message of two bytes a partial write; with two descriptors and
three connections one descriptor is reused. Three keys give a key before, at and after the one that is changed, with any of
the four heights each. Sixteen words leave the allocator eleven for blocks and
three splits before it runs out: enough for three clients with a block each, a
free one between them and an absorbed one in the list, and for the last block to
be too small; `Large` holds one of the three `Pointer`s, so that a search can
end at a client's word as well as go wrong through it (892,875 states). A list is
tangled there by a split, a shrink and a free, and made anew by `defrag`; a move
that tangles one needs requests of three words, with two `Pointer`s (1,348,972
states, in which all properties hold, too). Three descriptors give the chat a
default socket, a sender and a client that is skipped (843,352 states). Four runs merged two at a time need two rounds with full
groups, three runs a group of a single file; runs of one to six numbers in
blocks of two give last blocks that are full and that are not. `MaxChanels`,
`MaxDepth`, `MaxRequest`, `Budget`, `MaxConnections`, `MaxSends`, `MaxSize`,
`MaxRuns` are bounds of the models and not of the programs (the number of chat
connections that are open is bounded in the code only by the kernel). Symmetry
is used in `chat`, where descriptors are interchangeable, and in `allocator`,
where those `Pointer`s are whose data compares alike; in runs that check liveness
it is not.

*Deadlock.* `chanel` and `engine` check for it: a program that has
stopped is an explicit stuttering step (`Stopped`). In `stacks` the section is
over after `CompleteLast`, in `skiplist` the list is destroyed, in `sort` the
program is done; the chat stops with the program and waits when
nothing is pending; the allocator's model stops at the first call that it does
not follow.

*Properties.* `NoLostWakeup`, `EntriesMatchCalls` relate block table and calls;
`DeadlockIsReal`, `CallerIsAlive`, `NothingIsLeft` the ends of routines and of
sections; `KeepsPromise`, `StacksArePrivate`, `UnreadIsKept`, `IsOrderedMap` are
refinements; `LayersAgree` and `NothingLeaks` relate the layers of the skip list
to each other and to what is allocated; `NothingIsLost` and `FilesAreSorted`
account for every number wherever it is between two steps of the sort;
`ArmedIffQueued`, `EventsAreCurrent`, `RegisteredAreClients`,
`EachGetsItsStream` relate sockets, kernel and history. In the allocator
`BlocksTile` is about all blocks and the words of the region, `ClientsHaveBlocks`
about blocks and `Pointer`s, `FreeBlocksAreListed` about the flags of blocks and
the links in their memory, `OnlyAbsorbedTangle` about what the allocator writes
against the list, `SearchAdvances` about a search against both the list
and the row of blocks, `DefragCompacts` about the two ends of a `defrag`;
`KeepsBlocks`, the refinement of `MovableHeap`, about contents.

`UnreadIsKept` is the part of FIFO that the code does keep: the number of bytes
and their place. What bytes a wrapping write stores is the finding `Fifo`.

## 4. Fairness and liveness

* `EngineTermination` assumes weak fairness of "the thread goes on while it is
  inside a section" (`Unasked \/ Asked`): it is one ordinary thread and nothing
  in the library blocks it. Nothing is assumed about which routine runs; that is
  the scheduler's choice. Routines make finitely many calls (`Budget`): a routine
  that yields for ever is the client's doing. Without the budget starvation is
  possible, since the caller is preferred to the run list (engine.cpp:93).
* `EpollChat` assumes that the server does not stop while an event is pending
  (`WF(ServerStep)`: `epoll_wait` returns, and the other calls do not block) and
  that a peer that is connected reads in the end what it was sent (`WF(Drain)`).
  It assumes nothing about new connections, sends, hang-ups or resets.
  Since the sends are bounded, a read loop that is fed without end is outside
  the model: such a client keeps the server for itself (epoll_task.cpp:89).

* `ExternalSort` assumes that the program goes on (`WF(Next)`). `SortEnds` is
  stated of inputs that are not empty: with an empty input there is no file, and
  the loop of `main` runs for ever (external_sort.cpp:438). It needs a fan-in of
  two or more, an assumption that the constants of the source satisfy.

## 5. What the code does and its comments do not say

* `Fifo` (06 engine.cpp:152): a write that wraps stores the beginning of its
  data twice. A channel of capacity 3, a byte written and read, then three bytes
  written: the third is wrong.
* `FreedIsNeverResumed` (06 engine.h:244): a routine that yielded while it was
  alone becomes its own caller; when it completes its context is freed and then
  passed to `sched`.
* `OthersMemoryIsKept` (05 engine.cpp:38, and the same lines in 06): a routine
  suspended with a shallower stack than before writes old bytes over frames of
  `start` and its callers when it goes on.
* `NeverWild` (01 allocator.cpp:173): a block that a `realloc` absorbed stays in
  the list of free blocks, with its link in the words the client now owns. The
  client writes there, and the next search follows what it wrote (:43-48). The
  test `ReallocSafetyForFreeList` is about just this (allocator_test.cpp:324-325)
  and does not write to the block that grew.

Two more ways lose what the program was given, without a comment to hold against
them.

* A free list that the allocator tangles (01 allocator.cpp:204-207, and the same
  at :60-66 and :234-238). `realloc` grows a block over a free neighbour, which
  stays in the list, and then shrinks it back: the new free block starts where the
  absorbed one did, and `addToAvailList` writes its link onto the other's. Allocate
  `p`, `q`, `r`, `y`, `z` of 136 bytes, free `q` and `y`, let `p` grow to 272 and
  shrink to 136: the head leads to the new block, on to `y`, from `y` to `q`, and
  `q`'s link is now the new block's, so it leads to `y`. The rest of the region
  is lost to the list, and a request larger than `y` goes around for ever
  (:41-91). No client has written anything. The test `ReallocMarkFreeSpace`
  grows and shrinks over freed blocks in this way (allocator_test.cpp:391-399).
  The model has these steps (`tangled`), stops at the first search after them
  (`astray`), and shows that it takes an absorbed block that is still in the list
  (`OnlyAbsorbedTangle`).
* A chat that has once failed in an accept (04 epoll_task.cpp:76, 105-109,
  Socket.cpp:65-67). If `operator[]` came before `Socket::create` threw, a default
  socket stays in the map. From then on every broadcast throws when it comes to
  it: the clients behind it miss the message, and if the uninitialised descriptor
  of the exception is 0 the server goes on as if nothing had happened.
  `EachGetsItsStream` shows that nothing else is lost.

Three more the models run into and stop at, without a comment either. 06 engine.cpp:116 (`null_deref` of `Engine`): a routine without a caller
completes while all the others wait; the loop of `sched` finds nobody, and
`routine->callee` is read through `nullptr` where a dead lock should have been
reported. 01 allocator.cpp:107 (`null_deref` of `Allocator`): `last_before_sys`
was absorbed by a `realloc`, and the way along `child` starts nowhere. 01
allocator.cpp:114 (`overrun`): the room for a descriptor is looked for in the last
block whether that block is free or not, and a last block of no words passes the
test; a block of no words, which a `realloc` to 0 leaves, is also what a free
puts a link onto that has no room there (:243-255).

## 6. Proofs

The theorems hold for every value of the constants that satisfies the named
assumptions: any number of routines, channels, sizes, depths.

* `ChanelProofs`. Assumptions: the capacity is positive, there is a byte.
  `Inv == TypeOK /\ OffsetsAgree` is inductive (`OffsetsTheorem`): without
  `OffsetsAgree` nothing says that a write ends in the buffer. From it every
  step is a step of `ByteStream!SizedSpec` (`UnreadIsKeptTheorem`), by lemmas
  about which cells a `memcpy` leaves alone and how a sequence is read in two
  parts.
* `EngineProofs`. Assumptions: sizes and capacities are natural numbers,
  `nullptr` is none of the things it stands in for. The properties of the run
  are inductive only together with: no context is twice in the run list
  (`AliveOnce`, or completion would leave a freed one in it); the running routine
  is in it (`RunningIsAlive`); only live routines are in calls, on open channels
  (`CallsAreLive`); a new descriptor is unused (`NewDescriptorIsFree`, or
  `get_chanel` could replace a channel with waiters). One lemma per action;
  theorems `TypeTheorem`, `BlockTableTheorem`, `EntriesTheorem`,
  `DeadlockTheorem`, `CallerTheorem`, `SectionTheorem`.
  `KeepsPromiseTheorem` maps each action to an action of `CoopSection` or to a
  stutter, with the invariant before and after the step. `BudgetTheorem`:
  counting calls only takes steps away, so that what is proved of `Engine` holds
  of the specification the run checks.
* `StackCopyProofs`. `BufferTheorem`: a buffer is never smaller than the stack
  it holds, and the running routine has a context. `StacksArePrivateTheorem`:
  what Store saves is what Restore puts back, so every step is one of
  `PrivateStacks`.
* `EpollChatProofs`. Assumptions: the server's socket is no client's, the value
  for "no entry" is no descriptor, messages are not empty. `ArmedIffQueued`,
  `EventsAreCurrent` and `RegisteredAreClients` are inductive together, with the
  types of the maps (`Maps`) and the fact that the server's socket only ever
  reports `EPOLLIN` (`ServerReportsIn`, or an error of it would erase a client):
  `ArmedTheorem`, `EventsTheorem`, `RegisteredTheorem`, and `TypeTheorem`.
  `StreamTheorem` adds the histories: what a client got, then what is left of
  each task of its queue, are messages of those it is owed, in their order, and
  all but those read with a default socket in the map; a descriptor that is no
  client's has neither history nor queue. It is about the concatenation of the
  parts of a queue, of which a write takes some from the first and
  `add_writetask` appends one, and that of the messages kept, which each message
  read extends (`StreamGrows`): by its bytes, or by nothing when it was skipped,
  which happens only next to a default socket. Its hypothesis `NoNul`, that messages have no NUL byte, is needed:
  `WriteTask` copies with `strncpy`, which stops at one (WriteTask.cpp:19), and
  the property is false of messages that have one. The messages of the run have
  none.
* `ExternalSortProofs`. Assumptions: the numbers are natural ones, a block holds
  at least one, buffer and limit of open files allow two inputs and an output.
  `Inv` adds to the type and `FilesAreSorted` what each input of a merge still
  has to give - an input that has not ended has a candidate, one that has ended
  is used up (`InputsAreReadable`) - and where the merge is (`MergeIsAt`):
  the inputs and their blocks fit what was opened. `SortedTheorem`,
  `BlocksTheorem`, `TypeTheorem`; sequences are reasoned about by their indices.
  `LossTheorem` counts: how often a number is in a sequence of files is how often
  it is in their concatenation, so that a merge, which takes a group of files off
  the front and puts one at the end, a number moved from a block to a candidate
  and a block flushed leave the counts as they are. It needs `RoundIsAt`: outside
  a merge no file of the next round is held back, and the file written is empty
  when no input is open.
* `AllocatorProofs`. Assumptions: a region of at least 8 words, for the
  descriptors and a block to begin with; the names of `Pointer`s are not numbers,
  and "no block" (`None`) is not the contents of one. `ClientsHaveBlocks` and
  `BlocksTile` are inductive only with all that the calls rely on. `Tidy` says
  it for the time outside `defrag`: the blocks are a row, each behind the one
  before (`Row`; blocks may have no words, so that a rank orders them and not
  their addresses); the free ones, with those that were absorbed, are a list in
  which none has two before it and none comes twice (`FreeList`, by a place that
  grows along the links), apart from links that a client has written over, and
  as long as there are none of those each of them, and the end, has one before it
  (`Complete`), unless the allocator has tangled the list (`Listed`), though every
  member still starts at a word of the region (`Located`);
  descriptors are above the border (`Descriptors`), or a new one could be a block
  already; a `Pointer` owns its block (`Owned`); a search is at a member of the
  list, and a block it found is nobody's yet (`CallGoesOn`). `Defragging` is the
  form this takes in the middle of `defrag`: the used blocks moved so far and all
  that is not looked at yet are a row with a gap in it (`Gathered`). The lemmas
  before the steps say what a row and a list are after one element is put in,
  taken out or replaced; then there is one lemma per action. `ClientsTheorem`,
  `TilesTheorem`, `DefragTheorem`, `TypeTheorem` follow. `KeepsTheorem` maps
  every step to one of `MovableHeap` or to a stutter; it needs to know in
  addition that the allocator's own writes miss the clients' words (`Roomy`):
  that free blocks have words for their links, that the link before the block a
  search is at is no client's even if its block was absorbed meanwhile, and that
  a block only moves to a larger one. All of it is about the time up to the
  first call that the model does not follow (`overrun`, `wild`, `null_deref`,
  `astray`). What is proved of blocks, clients and contents does not use the
  list's order once it is tangled: frees, reallocs in place and `defrag` go on
  there.
  `TangleTheorem`: while all members are blocks, none absorbed, the words a split,
  a free or a move writes are none that a member's block starts with, so none is a
  link (`OffLink`); a split leaves the first word alone, as a search wants words
  (`Wants`).
  `ListTheorem` and `SearchTheorem` are about lists that are not tangled, and what
  a walk along the links reaches (`From`). `WalkReaches` says what that is, the least set with the element walked
  from and, with each member, the next: the walk of as many turns as there are
  members is long enough, since fewer members have a smaller place than one than
  have a smaller place than the next. From `Complete` it follows that the walk from
  the head meets all, for the first it did not meet would have a member before it
  that it met; and each turn of a search leaves fewer members ahead of it, or, when
  it joins two blocks, fewer blocks.
* `SkipListProofs`. Assumptions: keys are natural numbers, head and tail are no
  keys, `Null` is neither a node nor what a node holds, there is an index layer.
  `Inv` adds to the types: the nodes of a layer are linked in the order of their
  keys, with none passed over (`Sorted`); an index node leads down to the node of
  its key, which is there (`Indexing`); a key has a value exactly when it has a
  data node (`ValueIsThere`); an iterator is at a data node or past the end
  (`CursorIsThere`); and some number is not below any key in the list, as a list
  is finite. From it follow what a search finds, layer by layer, and what a chain
  of nodes meets (`Chain`): `TypeTheorem`, `LayersTheorem`, `LeaksTheorem`. In
  `OrderedMapTheorem` every operation is one of `OrderedMap`, the iterator's too.

*Recursion.* `LastBefore`, `BeforeEqual` and `Chain` of the skip list, `From` of
the allocator and `FlattenSeq` of the community modules are recursive functions.
What is proved of them is proved in two steps: a function that satisfies the
equation is exhibited, so that the one the definition chooses satisfies it, too;
and a fact about all its arguments is proved by looking at the least or greatest
one it does not hold of (`LeastNumber`, `GreatestNumber` in `InductionLemmas`).

*Only model-checked:* the liveness properties `SectionEnds`, `WokenGoesOn`,
`QueueDrains`, `InboxIsRead` and `SortEnds`, as fairness is out of the prover's
reach. All other properties of the runs that pass are proved.

## 7. Plan

What is left, in this order:

1. Lemmas behind the liveness properties that can be proved: measures that every
   step of a round of the sort, of a queue that drains and of a section brings
   down, as action properties.
2. A composition of `Engine` with the bytes of `Chanel`, to state end to end what
   readers receive.
3. A run of the scheduler of 05, whose `start` differs in what it leaves behind.
4. Input and output that fail in the sort; the chat with a client on
   descriptor 0.
5. A search of a free list that the allocator has tangled, followed until it
   comes to a member a second time or to a block that is in use.
