---------------------------- MODULE MCIndexedPool ----------------------------
(* Small instances of IndexedPool for TLC. *)
EXTENDS IndexedPool, TLC

CONSTANTS p1, p2, p3

Symmetric == Permutations(Thread)
=============================================================================
