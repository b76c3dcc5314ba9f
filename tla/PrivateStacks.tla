--------------------------- MODULE PrivateStacks ---------------------------
(***************************************************************************)
(* What a coroutine library promises about memory: every routine has a     *)
(* stack of its own, which only the routine itself changes while it runs.  *)
(* A new routine begins with a copy of the stack of the one that makes it. *)
(***************************************************************************)
EXTENDS Naturals, Sequences

CONSTANTS Routine, Value, Null,
          MaxDepth         \* how deep a stack grows

VARIABLES frames,          \* per routine: its stack, Null when it has none
          running          \* the one that has control, Null: none

vars == <<frames, running>>

Init ==
    /\ \E v \in Value : \E r \in Routine :
           /\ frames = [s \in Routine |-> IF s = r THEN <<v>> ELSE Null]
           /\ running = r

(* The running routine calls a function, returns from one, or assigns. *)
Work ==
    /\ running # Null
    /\ \E stack \in UNION {[1 .. n -> Value] : n \in 1 .. MaxDepth} :
           frames' = [frames EXCEPT ![running] = stack]
    /\ UNCHANGED running

Spawn(r) ==
    /\ running # Null /\ frames[r] = Null
    /\ frames' = [frames EXCEPT ![r] = frames[running]]
    /\ UNCHANGED running

Switch(r) ==
    /\ running # Null /\ frames[r] # Null
    /\ running' = r
    /\ UNCHANGED frames

Finish(next) ==
    /\ running # Null
    /\ frames' = [frames EXCEPT ![running] = Null]
    /\ next = Null \/ frames'[next] # Null
    /\ running' = next

Next ==
    \/ Work
    \/ \E r \in Routine : Spawn(r) \/ Switch(r)
    \/ \E next \in Routine \cup {Null} : Finish(next)

Spec == Init /\ [][Next]_vars
=============================================================================
