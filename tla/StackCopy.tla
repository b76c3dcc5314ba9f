------------------------------ MODULE StackCopy ------------------------------
(***************************************************************************)
(* How Coroutine::Engine gives routines stacks; the code is the same in    *)
(* 05-coroutines, whose lines are named here, and in 06-chanels.  They all *)
(* run on the thread's own stack, from StackBottom down, and Store and     *)
(* Restore copy its bytes to and from a buffer in the context.             *)
(* The buffer is replaced by a larger one when the stack has grown, never  *)
(* by a smaller one, and Restore copies all of it.                         *)
(*                                                                         *)
(* stack[i] is the i-th byte below StackBottom, above[i] the i-th one on   *)
(* the other side of it, in the frames of start and of its callers.  A     *)
(* buffer begins with the byte farthest from StackBottom.  Bytes stand for *)
(* whole frames here; nothing depends on their size.                       *)
(***************************************************************************)
EXTENDS Naturals, Sequences, SequencesExt

CONSTANTS Routine, Value, Null,
          MaxDepth         \* bound on the depth of a stack

ASSUME StackAssumption ==
    /\ MaxDepth \in Nat \ {0}
    /\ Null \notin Routine
    /\ Null \notin [size : 1 .. MaxDepth, buffer : Seq(Value)]
    /\ Null \notin Seq(Value)

VARIABLES stack, above, cur_routine,
          saved            \* per routine: Hight - Low and the Stack buffer

vars == <<stack, above, cur_routine, saved>>

(* As much of the memory above StackBottom as the model can reach. *)
Above == 1 .. MaxDepth - 1

Stacks == UNION {[1 .. n -> Value] : n \in 1 .. MaxDepth}

(* start has entered the main routine. *)
Init ==
    /\ cur_routine \in Routine
    /\ stack \in [1 .. 1 -> Value]
    /\ above \in [Above -> Value]
    /\ saved = [r \in Routine |->
           IF r = cur_routine THEN [size |-> 1, buffer |-> stack] ELSE Null]

(* Mutant: the new bytes are put before the old. *)
StoredBefore(old) == [size |-> Len(stack), buffer |-> Reverse(stack) \o old]

(* Store into a context whose buffer holds old. *)
Stored(old) ==
    [size |-> Len(stack),
     buffer |-> Reverse(stack) \o SubSeq(old, Len(stack) + 1, Len(old))]

(* Mutant: the buffer is taken to end with the first byte of the stack. *)
RestoreFromEnd(ctx) ==
    /\ stack' = [i \in 1 .. ctx.size |-> ctx.buffer[Len(ctx.buffer) + 1 - i]]
    /\ UNCHANGED above

(* Restore of a context: size bytes are below StackBottom, the others that *)
(* the buffer has are not.                                                 *)
Restore(ctx) ==
    /\ stack' = [i \in 1 .. ctx.size |-> ctx.buffer[ctx.size + 1 - i]]
    /\ above' = [i \in Above |->
           IF ctx.size + i <= Len(ctx.buffer) THEN ctx.buffer[ctx.size + i] ELSE above[i]]

Running == cur_routine # Null

(* The running routine calls, returns or assigns; through a reference it   *)
(* may assign to a variable of a caller of start, too.                     *)
Call(v) ==
    /\ Running
    /\ Len(stack) < MaxDepth
    /\ stack' = Append(stack, v)
    /\ UNCHANGED <<above, cur_routine, saved>>

Return ==
    /\ Running
    /\ Len(stack) > 1
    /\ stack' = SubSeq(stack, 1, Len(stack) - 1)
    /\ UNCHANGED <<above, cur_routine, saved>>

Assign(i, v) ==
    /\ Running
    /\ i <= Len(stack)
    /\ stack' = [stack EXCEPT ![i] = v]
    /\ UNCHANGED <<above, cur_routine, saved>>

AssignAbove(i, v) ==
    /\ Running
    /\ above' = [above EXCEPT ![i] = v]
    /\ UNCHANGED <<stack, cur_routine, saved>>

(* run: Store in a new context, then on with the caller. *)
Run(r) ==
    /\ Running
    /\ saved[r] = Null
    /\ saved' = [saved EXCEPT ![r] = Stored(<<>>)]
    /\ UNCHANGED <<stack, above, cur_routine>>

(* sched: Store of cur_routine, Restore of routine, which may be the same. *)
Sched(r) ==
    /\ Running
    /\ saved[r] # Null
    /\ saved' = [saved EXCEPT ![cur_routine] = Stored(@.buffer)]
    /\ Restore(saved'[r])
    /\ cur_routine' = r

(* Mutant: the context that goes on is freed, not the completed one. *)
CompleteFreesNext(next) ==
    /\ Running
    /\ next # cur_routine /\ saved[next] # Null
    /\ saved' = [saved EXCEPT ![next] = Null]
    /\ Restore(saved[next])
    /\ cur_routine' = next

(* A routine completes: its context is freed, another is restored. *)
Complete(next) ==
    /\ Running
    /\ next # cur_routine /\ saved[next] # Null
    /\ saved' = [saved EXCEPT ![cur_routine] = Null]
    /\ Restore(saved[next])
    /\ cur_routine' = next

(* ... or it is the last, and start goes on. *)
CompleteLast ==
    /\ Running
    /\ \A r \in Routine : r # cur_routine => saved[r] = Null
    /\ saved' = [saved EXCEPT ![cur_routine] = Null]
    /\ cur_routine' = Null
    /\ UNCHANGED <<stack, above>>

Next ==
    \/ \E v \in Value : Call(v)
    \/ Return
    \/ \E i \in 1 .. MaxDepth, v \in Value : Assign(i, v)
    \/ \E i \in Above, v \in Value : AssignAbove(i, v)
    \/ \E r \in Routine : Run(r) \/ Sched(r) \/ Complete(r)
    \/ CompleteLast

Spec == Init /\ [][Next]_vars

-----------------------------------------------------------------------------

TypeOK ==
    /\ stack \in Stacks
    /\ above \in [Above -> Value]
    /\ cur_routine \in Routine \cup {Null}
    /\ saved \in [Routine -> [size : 1 .. MaxDepth, buffer : Stacks] \cup {Null}]

(* The buffer of a context is never smaller than the stack it holds, nor   *)
(* has the running routine lost its context (engine.cpp:21-28, 38).        *)
BufferHoldsStack ==
    /\ \A r \in Routine : saved[r] # Null => saved[r].size <= Len(saved[r].buffer)
    /\ Running => saved[cur_routine] # Null

(* The stack of r: what is below StackBottom, or what its buffer would put *)
(* there.                                                                  *)
FramesOf(r) ==
    IF saved[r] = Null THEN Null
    ELSE IF r = cur_routine THEN stack
    ELSE [i \in 1 .. saved[r].size |-> saved[r].buffer[saved[r].size + 1 - i]]

Private == INSTANCE PrivateStacks WITH
    frames <- [r \in Routine |-> FramesOf(r)], running <- cur_routine

(* Every routine goes on with the stack it was suspended with, whatever    *)
(* the others have done below StackBottom and however deep its own stack   *)
(* was at earlier suspensions (engine.h:67-75, engine.cpp:7-41).           *)
StacksArePrivate == Private!Spec

(* Passing control changes nothing on the other side of StackBottom,       *)
(* "Where coroutines stack begins" (engine.h:49-52).                       *)
OthersMemoryIsKept == [][cur_routine' # cur_routine => UNCHANGED above]_vars
=============================================================================
