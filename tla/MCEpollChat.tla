---------------------------- MODULE MCEpollChat ----------------------------
(* EpollChat for TLC: one short message, one that can take two writes.     *)
(* Descriptors are interchangeable.                                        *)
EXTENDS EpollChat

CONSTANTS b1, b2

MCMessages == {<<b1>>, <<b1, b2>>}

Symmetry == Permutations(Fd)
=============================================================================
