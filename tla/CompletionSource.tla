--------------------------- MODULE CompletionSource ---------------------------
(***************************************************************************)
(* What every ITaskDependencyManager promises to the task system           *)
(* (threading/TaskSystem/TaskScheduler.h, ITaskDependencyManager): a task  *)
(* that is registered on a source which will finish is released after the  *)
(* source has finished, never before, and is not left behind.              *)
(*                                                                         *)
(* A source is one use of an object that finishes once: the submission of  *)
(* a command batch to the GPU, an asynchronous read or write of a file.    *)
(* A task stands for one dependency, a bit of its _waitBits.               *)
(***************************************************************************)
CONSTANTS Task, Source, NoSource

VARIABLES
    finished,   \* the sources that have finished
    waitsFor,   \* waitsFor[t]: the source t is registered on, or NoSource
    released    \* the tasks whose wait bit is cleared

vars == <<finished, waitsFor, released>>

TypeOK == /\ finished \subseteq Source
          /\ waitsFor \in [Task -> Source \union {NoSource}]
          /\ released \subseteq Task

Init == /\ finished = {}
        /\ waitsFor = [t \in Task |-> NoSource]
        /\ released = {}

\* Resolve() adds the task to the list of the source, or finds that there is
\* nothing to wait for.
Register(t, s) ==
    /\ waitsFor[t] = NoSource
    /\ waitsFor' = [waitsFor EXCEPT ![t] = s]
    /\ released' = released \union (IF s \in finished THEN {t} ELSE {})
    /\ UNCHANGED finished

Finish(s) ==
    /\ s \notin finished
    /\ finished' = finished \union {s}
    /\ UNCHANGED <<waitsFor, released>>

\* _SetDependencyCompletionStatus() for some of the tasks that may go on.
Release(T) ==
    /\ T \intersect released = {}
    /\ \A t \in T : waitsFor[t] \in finished
    /\ released' = released \union T
    /\ UNCHANGED <<finished, waitsFor>>

Next == \/ \E t \in Task, s \in Source : Register(t, s)
        \/ \E s \in Source : Finish(s)
        \/ \E T \in (SUBSET Task) \ {{}} : Release(T)

\* Whoever waits for a finished source is released, one after the other.
Fairness == \A t \in Task : WF_vars(\E T \in SUBSET Task : t \in T /\ Release(T))

SafeSpec == Init /\ [][Next]_vars

Spec == SafeSpec /\ Fairness
=============================================================================
