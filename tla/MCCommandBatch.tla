--------------------------- MODULE MCCommandBatch ---------------------------
(* Small instances of CommandBatch for TLC. *)
EXTENDS CommandBatch, TLC

CONSTANTS b1, b2, t1, t2

Symmetric == Permutations(Batch) \union Permutations(Task)
=============================================================================
