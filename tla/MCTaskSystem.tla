---------------------------- MODULE MCTaskSystem ----------------------------
(* Small instances of TaskSystem for TLC. *)
EXTENDS TaskSystem, TLC

CONSTANTS a, b, c

On(t, s) == [on |-> t, strong |-> s]

\* c waits for a and b, for one of them weakly.
FanIn == [t \in Task |->
    IF t = c THEN {<<On(a, TRUE), On(b, FALSE)>>, <<On(a, FALSE), On(b, TRUE)>>}
    ELSE {<<>>}]

NoResume == [t \in Task |-> {}]

\* c waits for a first; its Run() then waits for b, once or twice, for b and a,
\* or for nothing but the queue.
FirstA == [t \in Task |-> IF t = c THEN {<<On(a, FALSE)>>} ELSE {<<>>}]

ThenB == [t \in Task |->
    IF t = c THEN {<<>>, <<On(b, TRUE)>>, <<On(b, FALSE), On(a, TRUE)>>,
                   <<On(b, FALSE), On(b, TRUE)>>}
    ELSE {}]

\* c waits strongly for b, b for a.
Chain == [t \in Task |-> CASE t = a -> {<<>>}
                            [] t = b -> {<<On(a, FALSE)>>}
                            [] t = c -> {<<On(b, TRUE)>>}]

Symmetric == Permutations(Thread)
=============================================================================
