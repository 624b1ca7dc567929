------------------------------- MODULE TaskBag -------------------------------
(***************************************************************************)
(* What a task queue of the scheduler promises, and what TaskSystem takes  *)
(* for granted: a task is added once, and is taken out once, to be run     *)
(* when its inputs are complete, or to be canceled.                        *)
(***************************************************************************)
CONSTANT Task

VARIABLES
    queued,     \* the tasks in the queue
    ran,        \* the tasks handed over to be run
    dropped,    \* the tasks canceled in the queue
    inputsOf    \* of every task: what its dependency counters say

vars == <<queued, ran, dropped, inputsOf>>

\* The wait bits are not zero; all zero; a dependency or the task is canceled.
Readiness == {"waiting", "ready", "canceled"}

Init ==
    /\ queued = {} /\ ran = {} /\ dropped = {}
    /\ inputsOf = [t \in Task |-> "waiting"]

Add(t) ==
    /\ t \notin queued \union ran \union dropped
    /\ queued' = queued \union {t}
    /\ UNCHANGED <<ran, dropped, inputsOf>>

Take(t) ==
    /\ t \in queued /\ inputsOf[t] = "ready"
    /\ queued' = queued \ {t}
    /\ ran' = ran \union {t}
    /\ UNCHANGED <<dropped, inputsOf>>

Drop(t) ==
    /\ t \in queued /\ inputsOf[t] = "canceled"
    /\ queued' = queued \ {t}
    /\ dropped' = dropped \union {t}
    /\ UNCHANGED <<ran, inputsOf>>

\* The last dependency is released, or the task is canceled.
Change(t, r) ==
    /\ <<inputsOf[t], r>> \in {<<"waiting", "ready">>, <<"waiting", "canceled">>,
                              <<"ready", "canceled">>}
    /\ inputsOf' = [inputsOf EXCEPT ![t] = r]
    /\ UNCHANGED <<queued, ran, dropped>>

Next == \E t \in Task : \/ Add(t) \/ Take(t) \/ Drop(t)
                        \/ \E r \in Readiness : Change(t, r)

Spec == Init /\ [][Next]_vars
=============================================================================
