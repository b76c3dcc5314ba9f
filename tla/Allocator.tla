------------------------------ MODULE Allocator ------------------------------
(***************************************************************************)
(* The allocator of 01-allocator: first fit over a region whose blocks are *)
(* named by descriptors (MemListElem), so that defrag can move them.       *)
(* Addresses and sizes count words of 8 bytes; align makes every size one. *)
(* Descriptors, two words each, grow down from the end of the region and   *)
(* are named by their address.  child leads from a block to the one after  *)
(* it; the free blocks are linked through their first words.               *)
(*                                                                         *)
(* One thread: an action is a call, or one turn of a loop inside it.  A    *)
(* write of the allocator to words that are in use ("overrun"), a jump to  *)
(* a link that a client has overwritten ("wild"), one through nullptr      *)
(* ("null_deref") and a search of a list whose links the allocator itself  *)
(* has put onto each other ("astray") stop the model.                      *)
(***************************************************************************)
EXTENDS Integers, FiniteSets

CONSTANTS Size,       \* words of the region
          MaxSize,    \* bound on the words a client asks for
          Pointers,   \* the clients' Pointer variables
          Large,      \* those whose data, read as an address, is not below avail_tail
          None        \* no block

ASSUME AllocatorAssumption ==
    /\ Size \in Nat /\ Size >= 8
    /\ MaxSize \in Nat
    /\ Pointers \cap Int = {}
    /\ Large \subseteq Pointers

nullptr == 0
mem_start == 1
mem_end == mem_start + Size

Address == mem_start .. mem_end - 1

ASSUME NoneAssumption ==
    \A n \in 0 .. MaxSize : None \notin [1 .. n -> Address \cup {nullptr} \cup Pointers]

avail_head == mem_end - 2
avail_tail == mem_end - 4

VARIABLES
    start,             \* alloc_start of each descriptor; of avail_tail: the system part
    isFree,            \* its free flag (that of avail_tail is never looked at)
    child,             \* the descriptor of the next block
    word,              \* the words of the region, those of descriptors apart
    last_before_sys,
    elem,              \* the descriptor each Pointer holds
    asked,             \* the words its client may use
    call,              \* the call that is on
    (* history *)
    tangled            \* the allocator wrote onto a link since the list was made

blocks == <<start, isFree, child, last_before_sys>>
memory == <<word, tangled>>
clients == <<elem, asked>>
vars == <<blocks, memory, clients, call>>

NoCall == [op |-> "none"]

Init ==
    LET first == mem_end - 6
    IN  /\ start = [e \in Address |-> CASE e = avail_head -> mem_start
                                        [] e = avail_tail -> first
                                        [] e = first -> mem_start + 1
                                        [] OTHER -> nullptr]
        /\ isFree = [e \in Address |-> e \in {avail_head, first}]
        /\ child = [e \in Address |-> CASE e = avail_head -> first
                                        [] e = first -> avail_tail
                                        [] OTHER -> nullptr]
        /\ word = [w \in Address |-> CASE w = mem_start -> first
                                       [] w = mem_start + 1 -> avail_tail
                                       [] OTHER -> nullptr]
        /\ last_before_sys = first
        /\ elem = [p \in Pointers |-> nullptr]
        /\ asked = [p \in Pointers |-> 0]
        /\ call = NoCall
        /\ tangled = FALSE

-----------------------------------------------------------------------------
(* Descriptors and links *)

SizeOf(e) == start[child[e]] - start[e]

(* Absorbed blocks have no child; they stay in the list until a search     *)
(* comes by.                                                               *)
IsBlock(e) == child[e] # nullptr

next(e) == word[start[e]]

Return == call' = NoCall

Stop(failure) ==
    /\ call' = [op |-> failure]
    /\ UNCHANGED <<blocks, memory, clients>>

(* Mutant: what was in the list before is dropped. *)
AddedAlone(words, e, at) == [words EXCEPT ![at] = avail_tail, ![mem_start] = e]

(* addToAvailList, on the words: at is where e's block starts. *)
AddToAvailList(words, e, at) ==
    [words EXCEPT ![at] = words[mem_start], ![mem_start] = e]

(* Mutant: the setNext of prev is forgotten. *)
StillLinked(prev, e) == word

(* e leaves the list. *)
Unlinked(prev, e) == [word EXCEPT ![start[prev]] = next(e)]

(* Mutant: the child of the absorbed block is not set to nullptr. *)
AbsorbedUnmarked(e, behind) == [child EXCEPT ![e] = child[behind]]

(* e's block takes over that of behind. *)
Absorbed(e, behind) == [child EXCEPT ![e] = child[behind], ![behind] = nullptr]

(* Words with a use: a client's, or the link of a member of the list, also *)
(* of one that was absorbed.                                               *)
OfClient(w, p) == elem[p] # nullptr /\ w >= start[elem[p]] /\ w < start[elem[p]] + asked[p]

IsLink(w) == \E e \in Address : isFree[e] /\ start[e] = w

(* A write to word w is one onto a link.                                   *)
Tangles(w) == tangled \/ IsLink(w)

InUse(w, owners) == IsLink(w) \/ \E p \in owners : OfClient(w, p)

(* getFreeElem.  The way along child from last_before_sys ends at the last *)
(* block, unless it starts at a block that has been absorbed.              *)
Lost == ~ IsBlock(last_before_sys)

IsLast(e) == child[e] = avail_tail

(* The test subtracts from an unsigned size: it holds of size 0, too.      *)
HasRoom(last) == SizeOf(last) = 0 \/ SizeOf(last) >= 3

(* NoMemory: that the last block was found is all that remains. *)
NoRoom == \E last \in Address : IsLast(last) /\ ~ HasRoom(last) /\ last_before_sys' = last

NewElem == start[avail_tail] - 2

(* The link of a new block at word w is put onto its descriptor, or that   *)
(* onto words in use.                                                      *)
Overruns(w, owners) ==
    \/ w >= NewElem
    \/ InUse(NewElem, owners) \/ InUse(NewElem + 1, owners)

(* getFreeElem and split2: a block of the rest of e's behind n words. *)
Split(e, n) ==
    /\ start' = [start EXCEPT ![avail_tail] = NewElem, ![NewElem] = start[e] + n]
    /\ child' = [child EXCEPT ![NewElem] = child[e], ![e] = NewElem]
    /\ \E last \in Address : IsLast(last) /\ last_before_sys' = last

-----------------------------------------------------------------------------
(* getAvailElem: one action per turn of its loop *)

Searching == call.op \in {"alloc", "move"}

(* What the code does in a tangled list is not followed. *)
Search(op, p, n) ==
    call' = IF tangled THEN [op |-> "astray"]
            ELSE [op |-> op, p |-> p, size |-> n, prev |-> avail_head, cur |-> word[mem_start]]

(* The end of the list, or what looks like it: NoMemory. *)
SearchFails ==
    /\ Searching
    /\ call.cur = avail_tail \/ call.cur \in Large
    /\ Return
    /\ UNCHANGED <<blocks, memory, clients>>

(* The link was overwritten by a client. *)
SearchGoesWild ==
    /\ Searching
    /\ call.cur \in Pointers \ Large
    /\ Stop("wild")

AtBlock == Searching /\ call.cur \in Address /\ call.cur < avail_tail

(* A block that was absorbed leaves the list. *)
DropAbsorbed ==
    /\ AtBlock /\ ~ IsBlock(call.cur)
    /\ word' = Unlinked(call.prev, call.cur)
    /\ isFree' = [isFree EXCEPT ![call.cur] = FALSE]
    /\ start' = [start EXCEPT ![call.cur] = nullptr]
    /\ call' = [call EXCEPT !.cur = next(call.cur)]
    /\ UNCHANGED <<child, last_before_sys, tangled, clients>>

(* Mutant: the client is told the size of the block before it was split. *)
DeliverWhole ==
    /\ elem' = [elem EXCEPT ![call.p] = call.cur]
    /\ asked' = [asked EXCEPT ![call.p] = SizeOf(call.cur)]
    /\ Return

(* alloc gives the block to its client, realloc has still to move there. *)
Deliver ==
    IF call.op = "alloc"
    THEN /\ elem' = [elem EXCEPT ![call.p] = call.cur]
         /\ asked' = [asked EXCEPT ![call.p] = call.size]
         /\ Return
    ELSE /\ call' = [op |-> "copy", p |-> call.p, size |-> call.size, to |-> call.cur]
         /\ UNCHANGED clients

TakeAll ==
    /\ AtBlock /\ IsBlock(call.cur)
    /\ SizeOf(call.cur) = call.size
    /\ word' = Unlinked(call.prev, call.cur)
    /\ isFree' = [isFree EXCEPT ![call.cur] = FALSE]
    /\ Deliver
    /\ UNCHANGED <<start, child, last_before_sys, tangled>>

TooLarge == AtBlock /\ IsBlock(call.cur) /\ SizeOf(call.cur) > call.size

TakePart ==
    /\ TooLarge /\ ~ Lost
    /\ \A last \in Address : IsLast(last) => HasRoom(last)
    /\ LET rest == start[call.cur] + call.size
       IN  IF Overruns(rest, Pointers) THEN Stop("overrun")
           ELSE /\ Split(call.cur, call.size)
                /\ isFree' = [isFree EXCEPT ![NewElem] = TRUE, ![call.cur] = FALSE]
                /\ word' = [word EXCEPT ![rest] = next(call.cur),
                                        ![start[call.prev]] = NewElem]
                /\ tangled' = Tangles(rest)
                /\ Deliver

TakePartFails ==
    /\ TooLarge /\ ~ Lost
    /\ NoRoom
    /\ Return
    /\ UNCHANGED <<start, isFree, child, memory, clients>>

TakePartLost == TooLarge /\ Lost /\ Stop("null_deref")

TooSmall == AtBlock /\ IsBlock(call.cur) /\ SizeOf(call.cur) < call.size

(* The free block behind is absorbed, and this one looked at again. *)
Merge ==
    LET behind == child[call.cur]
    IN  /\ TooSmall
        /\ behind # avail_tail /\ isFree[behind]
        /\ child' = Absorbed(call.cur, behind)
        /\ last_before_sys' = IF last_before_sys = behind THEN call.cur ELSE last_before_sys
        /\ UNCHANGED <<start, isFree, memory, clients, call>>

(* Mutant: cur_elem is read before prev_elem is moved. *)
AdvanceFromPrev ==
    /\ TooSmall
    /\ child[call.cur] = avail_tail \/ ~ isFree[child[call.cur]]
    /\ call' = [call EXCEPT !.prev = call.cur, !.cur = next(call.prev)]
    /\ UNCHANGED <<blocks, memory, clients>>

Advance ==
    /\ TooSmall
    /\ child[call.cur] = avail_tail \/ ~ isFree[child[call.cur]]
    /\ call' = [call EXCEPT !.prev = call.cur, !.cur = next(call.cur)]
    /\ UNCHANGED <<blocks, memory, clients>>

-----------------------------------------------------------------------------
(* The calls.  alloc(0) and a realloc of an empty Pointer to 0 give an     *)
(* empty Pointer, free of one throws InvalidFree: nothing changes.         *)

Idle == call = NoCall

Alloc(p, n) ==
    /\ Idle /\ elem[p] = nullptr /\ n > 0
    /\ Search("alloc", p, n)
    /\ UNCHANGED <<blocks, memory, clients>>

(* The client writes all of its words. *)
Write(p) ==
    /\ Idle /\ elem[p] # nullptr
    /\ word' = [w \in Address |-> IF OfClient(w, p) THEN p ELSE word[w]]
    /\ UNCHANGED <<blocks, tangled, clients, call>>

(* The link of a block of no words goes onto what lies behind it. *)
Free(p) ==
    LET e == elem[p]
    IN  /\ Idle /\ e # nullptr
        /\ IF SizeOf(e) = 0 THEN Stop("overrun")
           ELSE /\ elem' = [elem EXCEPT ![p] = nullptr]
                /\ asked' = [asked EXCEPT ![p] = 0]
                /\ isFree' = [isFree EXCEPT ![e] = TRUE]
                /\ word' = AddToAvailList(word, e, start[e])
                /\ tangled' = Tangles(start[e])
                /\ UNCHANGED <<start, child, last_before_sys, call>>

(* _realloc, when p's block is large enough. *)
Shrink(p, n) ==
    LET e == elem[p]
        rest == start[e] + n
    IN  IF SizeOf(e) = n
        THEN /\ asked' = [asked EXCEPT ![p] = n]
             /\ Return
             /\ UNCHANGED <<blocks, memory, elem>>
        ELSE \/ /\ Lost
                /\ Stop("null_deref")
             \/ /\ ~ Lost
                /\ NoRoom
                /\ Return
                /\ UNCHANGED <<start, isFree, child, memory, clients>>
             \/ /\ ~ Lost
                /\ \A last \in Address : IsLast(last) => HasRoom(last)
                /\ IF Overruns(rest, Pointers \ {p}) THEN Stop("overrun")
                   ELSE /\ Split(e, n)
                        /\ isFree' = [isFree EXCEPT ![NewElem] = TRUE]
                        /\ word' = AddToAvailList(word, NewElem, rest)
                        /\ tangled' = Tangles(rest)
                        /\ asked' = [asked EXCEPT ![p] = n]
                        /\ Return
                        /\ UNCHANGED elem

Realloc(p, n) ==
    /\ Idle /\ elem[p] # nullptr
    /\ IF SizeOf(elem[p]) >= n THEN Shrink(p, n)
       ELSE /\ call' = [op |-> "join", p |-> p, size |-> n]
            /\ UNCHANGED <<blocks, memory, clients>>

(* joinWithFreeChildren, one free block behind p's per turn. *)
Join ==
    LET e == elem[call.p]
        behind == child[e]
    IN  /\ call.op = "join"
        /\ behind # avail_tail /\ isFree[behind]
        /\ child' = Absorbed(e, behind)
        /\ UNCHANGED <<start, isFree, last_before_sys, memory, clients, call>>

(* The second _realloc, or the search for another block. *)
JoinEnds ==
    LET e == elem[call.p]
        found == IF IsLast(e) THEN e ELSE last_before_sys
    IN  /\ call.op = "join"
        /\ IsLast(e) \/ ~ isFree[child[e]]
        /\ last_before_sys' = found
        /\ call' = [call EXCEPT !.op = "joined"]
        /\ UNCHANGED <<start, isFree, child, memory, clients>>

GrowInPlace ==
    /\ call.op = "joined"
    /\ SizeOf(elem[call.p]) >= call.size
    /\ Shrink(call.p, call.size)

GrowElsewhere ==
    /\ call.op = "joined"
    /\ SizeOf(elem[call.p]) < call.size
    /\ Search("move", call.p, call.size)
    /\ UNCHANGED <<blocks, memory, clients>>

(* Mutant: the last word is not copied. *)
CopiedLess(words, dst, src, n) ==
    [w \in Address |-> IF w \in dst .. dst + n - 2 THEN words[src + (w - dst)] ELSE words[w]]

(* safeMemcpy of n words. *)
Copied(words, dst, src, n) ==
    [w \in Address |-> IF w \in dst .. dst + n - 1 THEN words[src + (w - dst)] ELSE words[w]]

(* The contents go to the block found, the old one to the list. *)
Move ==
    LET e == elem[call.p]
    IN  /\ call.op = "copy"
        /\ IF SizeOf(e) = 0 THEN Stop("overrun")
           ELSE /\ word' = AddToAvailList(Copied(word, start[call.to], start[e], SizeOf(e)),
                                          e, start[e])
                /\ tangled' = \E w \in {start[e]} \cup start[call.to] .. start[call.to] + SizeOf(e) - 1 :
                                  Tangles(w)
                /\ isFree' = [isFree EXCEPT ![e] = TRUE]
                /\ elem' = [elem EXCEPT ![call.p] = call.to]
                /\ asked' = [asked EXCEPT ![call.p] = call.size]
                /\ Return
                /\ UNCHANGED <<start, child, last_before_sys>>

-----------------------------------------------------------------------------
(* defrag *)

Defrag ==
    /\ Idle
    /\ word' = [word EXCEPT ![mem_start] = avail_tail]
    /\ call' = [op |-> "defrag", prev |-> avail_head, cur |-> child[avail_head],
                pos |-> start[child[avail_head]]]
    /\ UNCHANGED <<blocks, tangled, clients>>

DefragSkips ==
    /\ call.op = "defrag" /\ call.cur < avail_tail
    /\ isFree[call.cur]
    /\ call' = [call EXCEPT !.cur = child[@]]
    /\ UNCHANGED <<blocks, memory, clients>>

DefragMoves ==
    LET size == SizeOf(call.cur)
    IN  /\ call.op = "defrag" /\ call.cur < avail_tail
        /\ ~ isFree[call.cur]
        /\ word' = Copied(word, call.pos, start[call.cur], size)
        /\ start' = [start EXCEPT ![call.cur] = call.pos]
        /\ child' = [child EXCEPT ![call.prev] = call.cur]
        /\ call' = [op |-> "defrag", prev |-> call.cur, cur |-> child[call.cur],
                    pos |-> call.pos + size]
        /\ UNCHANGED <<isFree, last_before_sys, tangled, clients>>

(* Mutant: the first descriptor is passed over. *)
RetiredButOne == {e \in Address : e > start[avail_tail] /\ e < avail_tail /\ isFree[e]}

Retired == {e \in Address : e >= start[avail_tail] /\ e < avail_tail /\ isFree[e]}

(* The descriptors of free blocks are retired (addToFreeList), and a new   *)
(* one is made for what is left.  The loop that would skip unused          *)
(* descriptors never starts: it asks for more than its own start.          *)
DefragEnds ==
    /\ call.op = "defrag" /\ call.cur = avail_tail
    /\ IF call.pos >= NewElem THEN Stop("overrun")
       ELSE /\ start' = [e \in Address |->
                            CASE e = NewElem -> call.pos
                              [] e = avail_tail -> NewElem
                              [] e \in Retired -> nullptr
                              [] OTHER -> start[e]]
            /\ isFree' = [e \in Address |-> e = NewElem \/ (isFree[e] /\ e \notin Retired)]
            /\ child' = [e \in Address |->
                            CASE e = NewElem -> avail_tail
                              [] e = call.prev -> NewElem
                              [] e \in Retired -> nullptr
                              [] OTHER -> child[e]]
            /\ word' = AddToAvailList(word, NewElem, call.pos)
            /\ tangled' = FALSE
            /\ last_before_sys' = NewElem
            /\ Return
            /\ UNCHANGED clients

-----------------------------------------------------------------------------

Client ==
    \/ \E p \in Pointers, n \in 0 .. MaxSize : Alloc(p, n) \/ Realloc(p, n)
    \/ \E p \in Pointers : Write(p) \/ Free(p)
    \/ Defrag

Turn ==
    \/ SearchFails \/ SearchGoesWild \/ DropAbsorbed
    \/ TakeAll \/ TakePart \/ TakePartFails \/ TakePartLost \/ Merge \/ Advance
    \/ Join \/ JoinEnds \/ GrowInPlace \/ GrowElsewhere \/ Move
    \/ DefragSkips \/ DefragMoves \/ DefragEnds

Next == Client \/ Turn

Spec == Init /\ [][Next]_vars

-----------------------------------------------------------------------------

Failures == {"overrun", "wild", "null_deref", "astray"}

TypeOK ==
    /\ start \in [Address -> Address \cup {nullptr}]
    /\ isFree \in [Address -> BOOLEAN]
    /\ child \in [Address -> Address \cup {nullptr}]
    /\ word \in [Address -> Address \cup {nullptr} \cup Pointers]
    /\ last_before_sys \in Address
    /\ elem \in [Pointers -> Address \cup {nullptr}]
    /\ asked \in [Pointers -> 0 .. MaxSize]
    /\ call.op \in {"none", "alloc", "join", "joined", "move", "copy", "defrag"} \cup Failures
    /\ tangled \in BOOLEAN

Blocks == {e \in Address : IsBlock(e) /\ e # avail_head}

(* Outside defrag, which moves them, the blocks tile the region from its   *)
(* second word to the system part: none overlap and no word is lost,       *)
(* whatever was split, absorbed and carved off.                            *)
BlocksTile ==
    call.op \notin {"defrag"} \cup Failures =>
        \A w \in mem_start + 1 .. start[avail_tail] - 1 :
            \E e \in Blocks :
                /\ w >= start[e] /\ w < start[e] + SizeOf(e)
                /\ \A f \in Blocks \ {e} : w < start[f] \/ w >= start[f] + SizeOf(f)

(* A client's block is a used one of its own, as large as it was promised, *)
(* whatever is absorbed, split and moved while others use theirs           *)
(* (allocator.cpp:43-91, 200-241).                                         *)
ClientsHaveBlocks ==
    call.op \notin Failures =>
        \A p \in Pointers : elem[p] # nullptr =>
            /\ IsBlock(elem[p]) /\ ~ isFree[elem[p]]
            /\ \A q \in Pointers \ {p} : elem[q] # elem[p]
            /\ call.op # "defrag" => asked[p] <= SizeOf(elem[p])

Content(p) ==
    IF elem[p] = nullptr THEN None
    ELSE [i \in 1 .. asked[p] |-> word[start[elem[p]] + i - 1]]

Heap == INSTANCE MovableHeap WITH
    Word <- Address \cup {nullptr} \cup Pointers, heap <- [p \in Pointers |-> Content(p)]

(* What a client has in its block stays there until the client changes it: *)
(* whatever is allocated, freed, resized, merged or moved around it, a     *)
(* block that grows keeps its contents where it stays and where it moves   *)
(* (allocator.cpp:58-84, 217-241, 279-336).                                *)
KeepsBlocks == Heap!Spec

Members == {e \in Address : isFree[e]}

(* The members of the list from e on. *)
From(e) ==
    LET reached[k \in 0 .. Size] ==
            IF k = 0 THEN {e} \cap Members
            ELSE LET before == reached[k - 1]
                 IN  before \cup ({next(m) : m \in before} \cap Members)
    IN  reached[Cardinality(Members)]

(* The list holds each free block exactly once: none is lost to later      *)
(* calls, none can be handed out twice, as long as no link in it was       *)
(* written over - by a client whose block took the member's words over, or *)
(* by the allocator, which may put the link of a new block onto that of an *)
(* absorbed one (allocator.cpp:20-25, 43-91, 166-179).                     *)
FreeBlocksAreListed ==
    (/\ call.op \notin {"defrag"} \cup Failures
     /\ ~ tangled
     /\ \A m \in Members : next(m) \in Address) =>
        /\ From(avail_head) = Members
        /\ \A e \in (Members \ {avail_head}) \cup {avail_tail} :
               \E m \in Members : next(m) = e /\ \A n \in Members \ {m} : next(n) # e

(* The allocator writes onto a link only if an absorbed block has been     *)
(* left in the list: the words of blocks that are free are safe from       *)
(* splits, moves and frees (allocator.cpp:20-25, 60-66, 166-179, 204-238). *)
OnlyAbsorbedTangle ==
    [][~ tangled /\ tangled' => \E m \in Members : ~ IsBlock(m)]_vars

(* A search of a list that the allocator has not tangled ends: each turn   *)
(* leaves a member behind for good or makes one block of two               *)
(* (allocator.cpp:41-91).                                                  *)
SearchAdvances ==
    [][~ tangled /\ Searching /\ Searching' =>
        Cardinality(From(call.cur)') + Cardinality(Blocks)'
            < Cardinality(From(call.cur)) + Cardinality(Blocks)]_vars

(* After defrag all that is free is in one block behind the used ones.     *)
DefragCompacts ==
    [][call.op = "defrag" /\ call'.op = "none" =>
        Members' = {avail_head, last_before_sys'}]_vars

(* No call goes on through a link that a client has written over.  A test  *)
(* has it that realloc is safe for the list of free blocks                 *)
(* (allocator_test.cpp:324-325); the code leaves absorbed blocks in the    *)
(* list with their links in the client's block (allocator.cpp:166-186).    *)
NeverWild == call.op # "wild"
=============================================================================
