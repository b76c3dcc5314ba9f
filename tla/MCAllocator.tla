---------------------------- MODULE MCAllocator ----------------------------
(* Allocator for TLC.  Pointers whose data compare alike are               *)
(* interchangeable.                                                        *)
EXTENDS Allocator, TLC

Symmetry == Permutations(Pointers \ Large)
=============================================================================
