----------------------------- MODULE MovableHeap -----------------------------
(***************************************************************************)
(* What an allocator with movable blocks promises: every Pointer has a     *)
(* block of its own or none, and only a call on the Pointer changes what   *)
(* is in it.  Where blocks lie, and that they move, cannot be seen.        *)
(***************************************************************************)
EXTENDS Naturals, Sequences

CONSTANTS Pointers, Word, None

VARIABLE heap          \* what is in each Pointer's block

Init == heap = [p \in Pointers |-> None]

Only(p) == heap' = [heap EXCEPT ![p] = heap'[p]]

Alloc(p) == heap[p] = None /\ heap'[p] \in Seq(Word) /\ Only(p)

Write(p) == heap[p] # None /\ heap' = [heap EXCEPT ![p] = [i \in DOMAIN @ |-> p]]

(* The new block begins with what was in the old one, as far as it goes. *)
Realloc(p) ==
    /\ heap[p] # None /\ heap'[p] \in Seq(Word)
    /\ \A i \in DOMAIN heap[p] \cap DOMAIN heap'[p] : heap'[p][i] = heap[p][i]
    /\ Only(p)

Free(p) == heap[p] # None /\ heap' = [heap EXCEPT ![p] = None]

Next == \E p \in Pointers : Alloc(p) \/ Write(p) \/ Realloc(p) \/ Free(p)

Spec == Init /\ [][Next]_heap
=============================================================================
