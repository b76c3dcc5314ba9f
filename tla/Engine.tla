------------------------------- MODULE Engine -------------------------------
(***************************************************************************)
(* Coroutine::Engine of 06-chanels: a cooperative scheduler with channels. *)
(* One thread runs one routine at a time; a routine gives control away     *)
(* only in yield, sched, a blocking channel call, or by completing.  An    *)
(* action is one library call up to the longjmp it ends in, with whatever  *)
(* the library does around it.                                             *)
(*                                                                         *)
(* A channel is its capacity and the number of unread bytes, all that the  *)
(* scheduler sees of it; Chanel.tla has the bytes.  Every call on a        *)
(* channel names one that exists (a client's obligation: the table keeps   *)
(* the pointer of a deleted one).  callee is left out: the code only ever  *)
(* assigns nullptr to it, so the loop that follows it never turns.         *)
(***************************************************************************)
EXTENDS Naturals, Sequences, SequencesExt

CONSTANTS Routine,      \* contexts that can be allocated
          MaxChanels,   \* bound on the number of get_chanel calls
          Capacities,   \* buffer sizes passed to get_chanel
          Sizes,        \* sizes passed to chanel_write and chanel_read
          Null          \* nullptr

Descriptor == 0 .. MaxChanels - 1

Request == [op : {"read", "write"}, cd : Descriptor, size : Sizes]

ASSUME EngineAssumption ==
    /\ MaxChanels \in Nat
    /\ Capacities \subseteq Nat
    /\ Sizes \subseteq Nat
    /\ Null \notin Routine
    /\ Null \notin Request
    /\ Null \notin [capacity : Capacities, cur_size : Nat]
    /\ Null \notin [cd : Descriptor, mode : {"read", "write"}]

VARIABLES alive,         \* the list of started routines that have not completed
          cur_routine,
          caller,        \* per context: who passed control to it
          call,          \* per context: the channel call it is in the loop of
          block_table,   \* per context: the channel and mode it waits for
          chanel_table,  \* per descriptor: the channel
          chanel_id,     \* the next descriptor
          StackBottom,   \* is it set?
          phase          \* where the thread is

vars == <<alive, cur_routine, caller, call, block_table, chanel_table, chanel_id,
          StackBottom, phase>>

chanels == <<chanel_table, chanel_id>>

(* The thread is outside start, inside it, or has stopped for good: it has *)
(* reported a dead lock, or gone on with a null or a freed context.        *)
Halted == {"dead_lock", "null_deref", "use_after_free"}

Init ==
    /\ alive = <<>>
    /\ cur_routine = Null
    /\ caller = [r \in Routine |-> Null]
    /\ call = [r \in Routine |-> Null]
    /\ block_table = [r \in Routine |-> Null]
    /\ chanel_table = [cd \in Descriptor |-> Null]
    /\ chanel_id = 0
    /\ StackBottom = FALSE
    /\ phase = "outside"

(* The code of a routine is running, not a library call of it. *)
Idle == phase = "inside" /\ call[cur_routine] = Null

-----------------------------------------------------------------------------
(* Passing control *)

(* r is the first of the list, other than skip, that table has no entry of. *)
FirstReady(list, table, skip, r) ==
    \E i \in DOMAIN list :
        /\ list[i] = r /\ r # skip /\ table[r] = Null
        /\ \A j \in 1 .. i - 1 : list[j] = skip \/ table[list[j]] # Null

(* Mutant: the head of the list is skipped. *)
NoneReadyAfterHead(list, table, skip) ==
    \A i \in DOMAIN list \ {1} : list[i] = skip \/ table[list[i]] # Null

NoneReady(list, table, skip) ==
    \A i \in DOMAIN list : list[i] = skip \/ table[list[i]] # Null

CallerReady(table) == caller[cur_routine] # Null /\ table[caller[cur_routine]] = Null

(* What sched(nullptr) picks when a routine calls it. *)
Picked(table, r) ==
    \/ CallerReady(table) /\ r = caller[cur_routine]
    \/ ~ CallerReady(table) /\ FirstReady(alive, table, cur_routine, r)
    \/ /\ ~ CallerReady(table) /\ NoneReady(alive, table, cur_routine)
       /\ table[cur_routine] = Null /\ r = cur_routine

(* It finds nobody: not the caller, no other, and not the one that calls.  *)
NobodyPicked(table) ==
    /\ ~ CallerReady(table)
    /\ NoneReady(alive, table, cur_routine)
    /\ table[cur_routine] # Null

(* Mutant: the new caller is not recorded. *)
PassToKeepingCaller(r) == cur_routine' = r /\ UNCHANGED caller

(* The last lines of sched: r goes on where it was suspended. *)
PassTo(r) ==
    /\ caller' = [caller EXCEPT ![r] = cur_routine]
    /\ cur_routine' = r

Yield ==
    /\ Idle
    /\ \E r \in Routine : Picked(block_table, r) /\ PassTo(r)
    /\ UNCHANGED <<alive, call, block_table, chanels, StackBottom, phase>>

(* A routine names the one to go on with: any it has a pointer to, even    *)
(* one that is blocked, even itself.                                       *)
Sched(r) ==
    /\ Idle
    /\ Contains(alive, r)
    /\ PassTo(r)
    /\ UNCHANGED <<alive, call, block_table, chanels, StackBottom, phase>>

-----------------------------------------------------------------------------
(* Routines come and go *)

(* start: run makes the main routine, sched enters it. *)
Start(r) ==
    /\ phase = "outside"
    /\ ~ Contains(alive, r)
    /\ alive' = <<r>> \o alive
    /\ cur_routine' = r
    /\ caller' = [caller EXCEPT ![r] = Null]
    /\ StackBottom' = TRUE
    /\ phase' = "inside"
    /\ UNCHANGED <<call, block_table, chanels>>

(* run, called by a routine: the new one is suspended before its first     *)
(* instruction.                                                            *)
Run(r) ==
    /\ Idle
    /\ ~ Contains(alive, r)
    /\ alive' = <<r>> \o alive
    /\ caller' = [caller EXCEPT ![r] = cur_routine]
    /\ UNCHANGED <<cur_routine, call, block_table, chanels, StackBottom, phase>>

(* run before the first start returns nullptr. *)
RunTooEarly == phase = "outside" /\ ~ StackBottom /\ UNCHANGED vars

(* The function of a routine returns: its context leaves the list and is   *)
(* freed.                                                                  *)
Completes ==
    /\ Idle
    /\ \E i \in DOMAIN alive : alive[i] = cur_routine /\ alive' = RemoveAt(alive, i)
    /\ UNCHANGED <<call, block_table, chanels, StackBottom>>

(* sched(next): its caller goes on, blocked or not. *)
CompleteToCaller ==
    LET next == caller[cur_routine]
    IN  /\ Completes
        /\ next # Null /\ Contains(alive', next)
        /\ cur_routine' = next
        /\ caller' = [caller EXCEPT ![cur_routine] = Null, ![next] = Null]
        /\ UNCHANGED phase

(* sched(next) with a caller that is no longer there. *)
CompleteToFreed ==
    /\ Completes
    /\ caller[cur_routine] # Null /\ ~ Contains(alive', caller[cur_routine])
    /\ cur_routine' = Null
    /\ caller' = [caller EXCEPT ![cur_routine] = Null]
    /\ phase' = "use_after_free"

(* yield() of a routine nobody called: the first ready one goes on. *)
CompleteToReady ==
    /\ Completes
    /\ caller[cur_routine] = Null
    /\ \E r \in Routine :
           /\ FirstReady(alive', block_table, Null, r)
           /\ cur_routine' = r
           /\ caller' = [caller EXCEPT ![cur_routine] = Null, ![r] = Null]
    /\ UNCHANGED phase

(* yield() with a list of blocked routines: routine stays nullptr, and     *)
(* sched reads routine->callee.                                            *)
CompleteToNobody ==
    /\ Completes
    /\ caller[cur_routine] = Null
    /\ alive' # <<>> /\ NoneReady(alive', block_table, Null)
    /\ cur_routine' = Null
    /\ UNCHANGED caller
    /\ phase' = "null_deref"

(* Mutant: yield() does not look at the list. *)
CompleteLastEarly ==
    /\ Completes
    /\ caller[cur_routine] = Null
    /\ cur_routine' = Null
    /\ UNCHANGED caller
    /\ phase' = "outside"

(* yield() with an empty list: back to start, which returns past the lines *)
(* that reset StackBottom.                                                 *)
CompleteLast ==
    /\ Completes
    /\ caller[cur_routine] = Null
    /\ alive' = <<>>
    /\ cur_routine' = Null
    /\ UNCHANGED caller
    /\ phase' = "outside"

-----------------------------------------------------------------------------
(* Channels *)

Open(cd) == chanel_table[cd] # Null

(* chanel->write or chanel->read would not return -1. *)
Grants(chanel, req) ==
    \/ req.op = "write" /\ req.size <= chanel.capacity - chanel.cur_size
    \/ req.op = "read" /\ chanel.cur_size # 0

Possible(req) == Grants(chanel_table[req.cd], req)

Smaller(m, n) == IF m <= n THEN m ELSE n

(* Mutant: a read takes what it was asked for, not what there is. *)
AfterAsked(chanel, req) ==
    [chanel EXCEPT !.cur_size = IF req.op = "write" THEN @ + req.size ELSE @ - req.size]

After(chanel, req) ==
    [chanel EXCEPT !.cur_size = IF req.op = "write" THEN @ + req.size
                                ELSE @ - Smaller(req.size, @)]

(* Mutant: those that wait on the same side are woken. *)
SameSide(op) == op

(* Mutant: the loop of chanel_write is copied into chanel_read as it is. *)
AlwaysReaders(op) == "read"

Opposite(op) == IF op = "read" THEN "write" ELSE "read"

Waits(req) == [cd |-> req.cd, mode |-> req.op]

(* Mutant: the loop over the block table ends with the first match. *)
TransferWakesOne(req) ==
    LET woken == {r \in Routine :
                     block_table[r] = [cd |-> req.cd, mode |-> Opposite(req.op)]}
    IN  /\ Possible(req)
        /\ chanel_table' = [chanel_table EXCEPT ![req.cd] = After(@, req)]
        /\ \/ woken = {} /\ UNCHANGED block_table
           \/ \E r \in woken : block_table' = [block_table EXCEPT ![r] = Null]

(* The successful round of the loop of chanel_write or chanel_read: all    *)
(* that wait for the opposite leave the block table.                       *)
Transfer(req) ==
    /\ Possible(req)
    /\ chanel_table' = [chanel_table EXCEPT ![req.cd] = After(@, req)]
    /\ block_table' = [r \in Routine |->
           IF block_table[r] = [cd |-> req.cd, mode |-> Opposite(req.op)]
           THEN Null ELSE block_table[r]]

(* Mutant: the routine gives control away without an entry. *)
NotEntered(req) == block_table

Entered(req) == [block_table EXCEPT ![cur_routine] = Waits(req)]

(* The other round: the routine enters the block table and gives control   *)
(* away, or exits the program when there is nobody to give it to.          *)
Block(req) ==
    LET table == Entered(req)
    IN  /\ ~ Possible(req)
        /\ block_table' = table
        /\ call' = [call EXCEPT ![cur_routine] = req]
        /\ \/ \E r \in Routine : Picked(table, r) /\ PassTo(r) /\ UNCHANGED phase
           \/ /\ NobodyPicked(table)
              /\ phase' = "dead_lock"
              /\ UNCHANGED <<cur_routine, caller>>

(* chanel_write and chanel_read, by a routine or by the code around start. *)
Perform(req) ==
    /\ phase = "outside" \/ Idle
    /\ Open(req.cd)
    /\ Transfer(req)
    /\ UNCHANGED <<alive, cur_routine, caller, call, chanel_id, StackBottom, phase>>

(* The call returns -1: block = false. *)
Refuse(req) ==
    /\ phase = "outside" \/ Idle
    /\ Open(req.cd)
    /\ ~ Possible(req)
    /\ UNCHANGED vars

Wait(req) ==
    /\ Idle
    /\ Open(req.cd)
    /\ Block(req)
    /\ UNCHANGED <<alive, chanels, StackBottom>>

(* A routine is resumed in the loop of its call: once more around. *)
Resumed == phase = "inside" /\ call[cur_routine] # Null

Retry ==
    /\ Resumed
    /\ Transfer(call[cur_routine])
    /\ call' = [call EXCEPT ![cur_routine] = Null]
    /\ UNCHANGED <<alive, cur_routine, caller, chanel_id, StackBottom, phase>>

(* Mutant: an if in place of the loop: the call fails. *)
GivesUp ==
    /\ Resumed
    /\ ~ Possible(call[cur_routine])
    /\ call' = [call EXCEPT ![cur_routine] = Null]
    /\ UNCHANGED <<alive, cur_routine, caller, block_table, chanels, StackBottom, phase>>

WaitAgain ==
    /\ Resumed
    /\ Block(call[cur_routine])
    /\ UNCHANGED <<alive, chanels, StackBottom>>

GetChanel(buf_size) ==
    /\ phase = "outside" \/ Idle
    /\ chanel_id < MaxChanels
    /\ chanel_table' = [chanel_table EXCEPT ![chanel_id] =
                            [capacity |-> buf_size, cur_size |-> 0]]
    /\ chanel_id' = chanel_id + 1
    /\ UNCHANGED <<alive, cur_routine, caller, call, block_table, StackBottom, phase>>

(* delete_chanel of a channel no routine is in a call on (a client's       *)
(* obligation, the code checks nothing).                                   *)
DeleteChanel(cd) ==
    /\ phase = "outside" \/ Idle
    /\ Open(cd)
    /\ \A r \in Routine : call[r] # Null => call[r].cd # cd
    /\ chanel_table' = [chanel_table EXCEPT ![cd] = Null]
    /\ UNCHANGED <<alive, cur_routine, caller, call, block_table, chanel_id,
                   StackBottom, phase>>

-----------------------------------------------------------------------------

(* The program has ended. *)
Stopped == phase \in Halted /\ UNCHANGED vars

Completion == \/ CompleteToCaller \/ CompleteToFreed \/ CompleteToReady
              \/ CompleteToNobody \/ CompleteLast

(* What a routine does of its own accord. *)
LibraryCall ==
    \/ Yield
    \/ \E r \in Routine : Sched(r) \/ Run(r)
    \/ \E req \in Request : Perform(req) \/ Refuse(req) \/ Wait(req)
    \/ \E buf_size \in Capacities : GetChanel(buf_size)
    \/ \E cd \in Descriptor : DeleteChanel(cd)

Next ==
    \/ \E r \in Routine : Start(r)
    \/ RunTooEarly
    \/ LibraryCall
    \/ Retry \/ WaitAgain
    \/ Completion
    \/ Stopped

Spec == Init /\ [][Next]_vars

-----------------------------------------------------------------------------

Chanels == [capacity : Capacities, cur_size : Nat]

TypeOK ==
    /\ alive \in Seq(Routine)
    /\ cur_routine \in Routine \cup {Null}
    /\ caller \in [Routine -> Routine \cup {Null}]
    /\ call \in [Routine -> Request \cup {Null}]
    /\ block_table \in [Routine -> [cd : Descriptor, mode : {"read", "write"}] \cup {Null}]
    /\ chanel_table \in [Descriptor -> Chanels \cup {Null}]
    /\ \A cd \in Descriptor :
           Open(cd) => chanel_table[cd].cur_size <= chanel_table[cd].capacity
    /\ chanel_id \in 0 .. MaxChanels
    /\ StackBottom \in BOOLEAN
    /\ phase \in {"outside", "inside"} \cup Halted

(* r is in a call that its channel does not let it finish. *)
Stuck(r) == call[r] # Null /\ Open(call[r].cd) /\ ~ Possible(call[r])

(* A routine is in the block table only while the call it is suspended in  *)
(* really cannot go on: no transfer forgets to wake those it has made room *)
(* or brought bytes for (engine.cpp:213-222, 243-252).                     *)
NoLostWakeup == \A r \in Routine : block_table[r] # Null => Stuck(r)

(* An entry of the block table belongs to a live routine and names the     *)
(* call it is in, so the routine whose own code runs has none: though a    *)
(* sched does not look at the table and an entry is erased only by the     *)
(* other side of the channel, no routine leaves a call, or completes, with *)
(* its entry still there (engine.cpp:207, 237, engine.h:244).              *)
EntriesMatchCalls ==
    \A r \in Routine : block_table[r] # Null =>
        Contains(alive, r) /\ call[r] # Null /\ block_table[r] = Waits(call[r])

(* "Dead lock" is printed, and the program ended, only when every live     *)
(* routine is in a call that no other can make possible any more; and a    *)
(* completing routine finds nobody to yield to only in that same situation *)
(* (engine.cpp:108-111, 81-88).                                            *)
DeadlockIsReal ==
    phase \in {"dead_lock", "null_deref"} => \A i \in DOMAIN alive : Stuck(alive[i])

(* The context that the running routine returns control to has not been    *)
(* freed, though caller pointers of suspended ones may dangle              *)
(* (engine.h:216, engine.cpp:93).                                          *)
CallerIsAlive ==
    phase = "inside" /\ caller[cur_routine] # Null => Contains(alive, caller[cur_routine])

(* When start returns nothing of the section is left: no live routine, no  *)
(* entry under the address of a freed context, no current routine          *)
(* (engine.h:151-152).                                                     *)
NothingIsLeft ==
    phase = "outside" =>
        /\ alive = <<>> /\ cur_routine = Null
        /\ \A r \in Routine : block_table[r] = Null /\ call[r] = Null

Section == INSTANCE CoopSection WITH
    live <- ToSet(alive), running <- cur_routine, want <- call, table <- chanel_table,
    status <- IF phase \in {"null_deref", "use_after_free"} THEN "crashed" ELSE phase,
    NewChanels <- {[capacity |-> buf_size, cur_size |-> 0] : buf_size \in Capacities},
    Possible <- Grants

(* The scheduler does what a cooperative section promises: blocking calls  *)
(* end exactly when they can, start returns only when all are done, a dead *)
(* lock is reported only when nobody can go on (engine.h:128-156).         *)
KeepsPromise == Section!Spec

-----------------------------------------------------------------------------
(* What the comments say and the code does not do *)

(* A routine that has completed is never given control: "it is safe to     *)
(* just give up and ask scheduler code to select someone else"             *)
(* (engine.h:240-242).                                                     *)
FreedIsNeverResumed == phase # "use_after_free"
=============================================================================
