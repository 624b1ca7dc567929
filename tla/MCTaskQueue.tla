----------------------------- MODULE MCTaskQueue -----------------------------
(* Small instances of TaskQueue for TLC. *)
EXTENDS TaskQueue, TLC

CONSTANTS t1, t2, t3, p1, p2

\* The threads begin with different lists.
TwoSeeds == [p \in Thread |-> IF p = p1 THEN 0 ELSE 1]

\* All begin with the same: the seed is a number of the thread.
OneSeed == [p \in Thread |-> 0]

\* OnCancel() of t1 submits another task.
SubmitOther == [t \in Task |-> IF t = t1 THEN {t2} ELSE {}]

Symmetric == Permutations(Task)
=============================================================================
