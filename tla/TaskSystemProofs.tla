--------------------------- MODULE TaskSystemProofs ---------------------------
(***************************************************************************)
(* Proofs about TaskSystem, for every set of tasks and threads, every      *)
(* number of wait bits and every dependency list: the types, that a task   *)
(* starts only when all its dependencies are finished, that it is in the   *)
(* hands of one thread at a time, that no wait is lost, that nobody        *)
(* registers too late, and that a task is canceled only for a reason.      *)
(***************************************************************************)
EXTENDS TaskSystem, TLAPS

\* TypeOK and what it needs to be inductive: a thread that holds the lock of a
\* dependency still has that dependency in its list, and a bit for it; a thread
\* that adds dependencies does so for Run() or for Continue().
TypeInv ==
    /\ TypeOK
    /\ \A p \in Thread : pc[p] = "register" =>
          /\ todo[p] # <<>>
          /\ bitIndex[p] + 1 < BitCount
    /\ \A p \in Thread : pc[p] \in {"addDep", "register", "mask"} =>
          ret[p] \in {"enqueue", "continue"}

LEMMA NoLocalsType ==
    /\ <<>> \in Seq(Dependency)
    /\ 0 \in 0..(BitCount - 1)
  BY SizeAssumption

LEMMA DependencyList ==
    ASSUME NEW s \in Seq(Dependency), s # <<>>
    PROVE  /\ Head(s) \in Dependency
           /\ Tail(s) \in Seq(Dependency)
  OBVIOUS

LEMMA EntryList ==
    ASSUME NEW s \in Seq(Entry), s # <<>>
    PROVE  /\ Head(s) \in Entry
           /\ Tail(s) \in Seq(Entry)
  OBVIOUS

LEMMA GiveUpType ==
    ASSUME TypeInv, NEW p \in Thread, pc[p] # "idle", NEW why \in SUBSET Task,
           GiveUp(p, why), output' = output,
           inputs' \in [Task -> SUBSET Dependency]
    PROVE  TypeInv'
<1> USE SizeAssumption, NoLocalsType
    DEF TypeInv, TypeOK, GiveUp, Goto, NoLocals, Locals, SetStatus,
        SetCancellation, Canceling, Status, Label
<1>1. CASE ret[p] = "enqueue"
  <2>1. Locals(p, <<>>, FALSE, "enqueue") /\ Goto(p, "mask")
    BY <1>1
  <2> QED
    BY <2>1 DEF waiting
<1>2. CASE ret[p] # "enqueue"
  <2>1. Locals(p, <<>>, FALSE, "idle") /\ Goto(p, "returned")
    BY <1>2
  <2> QED
    BY <2>1 DEF waiting
<1> QED
  BY <1>1, <1>2

LEMMA InitType == Init => TypeInv
  BY SizeAssumption, UserAssumption
  DEF Init, MakeTasks, TypeInv, TypeOK, Status, AllBits, Label

LEMMA TypeStep == TypeInv /\ [Next]_vars => TypeInv'
<1> SUFFICES ASSUME TypeInv, [Next]_vars PROVE TypeInv'
  OBVIOUS
<1> USE SizeAssumption, NoLocalsType
    DEF TypeInv, TypeOK, waiting, taskVars, threadVars, history, locals, Goto,
        SetStatus, SetCancellation, Canceling, Status, Label
<1>1. ASSUME NEW p \in Thread, NoMoreDeps(p) PROVE TypeInv'
  BY <1>1 DEF NoMoreDeps
<1>2. ASSUME NEW p \in Thread, NoBitLeft(p) PROVE TypeInv'
  BY <1>2, GiveUpType DEF NoBitLeft
<1>3. ASSUME NEW p \in Thread, LockDep(p) PROVE TypeInv'
  <2>1. Head(todo[p]).on \in Task
    BY <1>3, DependencyList DEF LockDep, Dependency
  <2>2. depStatus' \in [Thread -> Status] /\ pc' \in [Thread -> Label]
    BY <1>3, <2>1 DEF LockDep
  <2>3. todo[p] # <<>> /\ bitIndex[p] + 1 < BitCount
    BY <1>3 DEF LockDep, BitsExhausted
  <2>4. \A q \in Thread \ {p} : pc'[q] = pc[q]
    BY <1>3 DEF LockDep
  <2>5. ret[p] \in {"enqueue", "continue"} /\ cur[p] \in Task
    BY <1>3 DEF LockDep
  <2>6. UNCHANGED <<taskVars, queue, cur, todo, bitIndex, isCanceled, ret, history>>
    BY <1>3 DEF LockDep
  <2> QED
    BY <2>2, <2>3, <2>4, <2>5, <2>6
<1>4. ASSUME NEW p \in Thread, Register(p) PROVE TypeInv'
  <2> DEFINE d == Head(todo[p])
  <2>1. d \in Dependency /\ Tail(todo[p]) \in Seq(Dependency)
    BY <1>4, DependencyList DEF Register
  <2>2. [task |-> cur[p], bit |-> bitIndex[p], strong |-> d.strong] \in Entry
    BY <1>4, <2>1 DEF Register, Dependency, Entry
  <2>3. d.on \in Task
    BY <2>1 DEF Dependency
  <2>4. output' \in [Task -> Seq(Entry)]
    BY <1>4, <2>2, <2>3 DEF Register
  <2>5. inputs' \in [Task -> SUBSET Dependency]
    BY <1>4, <2>1 DEF Register
  <2>6. bitIndex' \in [Thread -> 0..(BitCount - 1)]
    BY <1>4 DEF Register
  <2> QED
    BY <1>4, <2>1, <2>4, <2>5, <2>6 DEF Register, NextDep
<1>5. ASSUME NEW p \in Thread, NoChunkLeft(p) PROVE TypeInv'
  BY <1>5, GiveUpType DEF NoChunkLeft
<1>6. ASSUME NEW p \in Thread, SkipDep(p) PROVE TypeInv'
  BY <1>6, DependencyList DEF SkipDep, NextDep
<1>7. ASSUME NEW p \in Thread, RefuseDep(p) PROVE TypeInv'
  <2>1. Head(todo[p]) \in Dependency
    BY <1>7, DependencyList DEF RefuseDep
  <2>2. inputs' \in [Task -> SUBSET Dependency]
    BY <1>7, <2>1 DEF RefuseDep
  <2> QED
    BY <1>7, <2>2, GiveUpType DEF RefuseDep
<1>8. ASSUME NEW p \in Thread, Mask(p) PROVE TypeInv'
  BY <1>8 DEF Mask, NoLocals, Locals
<1>9. ASSUME NEW p \in Thread, Enqueue(p) PROVE TypeInv'
  BY <1>9 DEF Enqueue
<1>10. ASSUME NEW p \in Thread, AddToQueue(p) PROVE TypeInv'
  BY <1>10 DEF AddToQueue, Leave, NoLocals, Locals
<1>11. ASSUME NEW p \in Thread, NotReady(p) PROVE TypeInv'
  BY <1>11 DEF NotReady, Leave, NoLocals, Locals
<1>12. ASSUME NEW p \in Thread, Remove(p) PROVE TypeInv'
  BY <1>12 DEF Remove
<1>13. ASSUME NEW p \in Thread, Start(p) PROVE TypeInv'
  BY <1>13 DEF Start
<1>14. ASSUME NEW p \in Thread, StartCanceled(p) PROVE TypeInv'
  BY <1>14 DEF StartCanceled
<1>15. ASSUME NEW p \in Thread, CancelTask(p) PROVE TypeInv'
  BY <1>15 DEF CancelTask
<1>16. ASSUME NEW p \in Thread, OnCancel(p) PROVE TypeInv'
  BY <1>16 DEF OnCancel, Locals
<1>17. ASSUME NEW p \in Thread, RunReturns(p) PROVE TypeInv'
  BY <1>17 DEF RunReturns
<1>18. ASSUME NEW p \in Thread, RunThrows(p) PROVE TypeInv'
  BY <1>18 DEF RunThrows
<1>19. ASSUME NEW p \in Thread, OnFailure(p) PROVE TypeInv'
  BY <1>19 DEF OnFailure
<1>20. ASSUME NEW p \in Thread, FailureLock(p) PROVE TypeInv'
  BY <1>20 DEF FailureLock, Locals
<1>21. ASSUME NEW p \in Thread, Continue(p) PROVE TypeInv'
  <2>1. PICK deps \in Resume[cur[p]] : WaitAgain(p, deps)
    BY <1>21 DEF Continue
  <2>2. deps \in Seq(Dependency)
    BY <1>21, <2>1, ProgramAssumption DEF Continue
  <2>3. /\ pc[p] = "run"
        /\ rounds' \in [Task -> Nat]
        /\ UNCHANGED <<status, canceledDepsCount, output, queue, cur,
                       submitted, inputs, asked>>
    BY <1>21 DEF Continue
  <2>4. CASE deps = <<>>
    <3>1. UNCHANGED <<waitBits, locals>> /\ Goto(p, "continue")
      BY <2>1, <2>4 DEF WaitAgain
    <3> QED
      BY <2>3, <3>1
  <2>5. CASE deps # <<>>
    <3>1. waitBits' \in [Task -> SUBSET AllBits]
      <4>1. waitBits' = [waitBits EXCEPT ![cur[p]] = AllBits]
        BY <2>1, <2>5 DEF WaitAgain, Rearmed
      <4> QED
        BY <4>1
    <3>2. Locals(p, deps, FALSE, "continue") /\ Goto(p, "addDep")
      BY <2>1, <2>5 DEF WaitAgain
    <3> QED
      BY <2>2, <2>3, <3>1, <3>2 DEF Locals
  <2> QED
    BY <2>4, <2>5
<1>22. ASSUME NEW p \in Thread, SetContinue(p) PROVE TypeInv'
  BY <1>22 DEF SetContinue, Continuing
<1>23. ASSUME NEW p \in Thread, FinishCompleted(p) PROVE TypeInv'
  BY <1>23 DEF FinishCompleted
<1>24. ASSUME NEW p \in Thread, FinishContinue(p) PROVE TypeInv'
  BY <1>24 DEF FinishContinue
<1>25. ASSUME NEW p \in Thread, FinishCanceled(p) PROVE TypeInv'
  BY <1>25 DEF FinishCanceled
<1>26. ASSUME NEW p \in Thread, CountCanceled(p) PROVE TypeInv'
  <2>1. Head(output[cur[p]]).task \in Task
    BY <1>26, EntryList DEF CountCanceled, Entry
  <2>2. canceledDepsCount' \in [Task -> Nat]
    BY <1>26, <2>1 DEF CountCanceled
  <2> QED
    BY <1>26, <2>2 DEF CountCanceled
<1>27. ASSUME NEW p \in Thread, ClearBit(p) PROVE TypeInv'
  BY <1>27, EntryList DEF ClearBit
<1>28. ASSUME NEW p \in Thread, FreeDone(p) PROVE TypeInv'
  <2>1. CASE ret[p] = "returned"
    <3>1. Locals(p, <<>>, FALSE, "idle") /\ Goto(p, "returned") /\ UNCHANGED cur
      BY <1>28, <2>1 DEF FreeDone, NoLocals
    <3> QED
      BY <1>28, <3>1 DEF FreeDone, Locals
  <2>2. CASE ret[p] # "returned"
    <3>1. Leave(p)
      BY <1>28, <2>2 DEF FreeDone
    <3> QED
      BY <1>28, <3>1 DEF FreeDone, Leave, NoLocals, Locals
  <2> QED
    BY <2>1, <2>2
<1>29. ASSUME NEW p \in Thread, NEW t \in Task, Run(p, t) PROVE TypeInv'
  BY <1>29, ProgramAssumption DEF Run, Locals
<1>30. ASSUME NEW p \in Thread, NEW t \in Task, Inspect(p, t) PROVE TypeInv'
  BY <1>30 DEF Inspect
<1>31. ASSUME NEW t \in Task, Cancel(t) PROVE TypeInv'
  BY <1>31 DEF Cancel
<1>32. CASE UNCHANGED vars
  BY <1>32 DEF vars
<1> QED
  BY <1>1, <1>2, <1>3, <1>4, <1>5, <1>6, <1>7, <1>8, <1>9, <1>10, <1>11,
     <1>12, <1>13, <1>14, <1>15, <1>16, <1>17, <1>18, <1>19, <1>20, <1>21,
     <1>22, <1>23, <1>24, <1>25, <1>26, <1>27, <1>28, <1>29, <1>30, <1>31,
     <1>32
  DEF Next, Terminated, Step, AddDependencies, InsertTask, RemoveTask, UserRun,
      OnFinish, FreeOutputChunks

\* Every variable keeps its type: in particular no bit index passes the width of
\* WaitBits_t, and a thread that is in the scheduler has a task at hand.
THEOREM TypeCorrect == Spec => []TypeOK
<1>1. TypeInv => TypeOK
  BY DEF TypeInv
<1> QED
  BY InitType, TypeStep, <1>1, PTL DEF Spec

-----------------------------------------------------------------------------
(* Order: the inputs of a task come first, and one thread has it.          *)

\* Canceled, failed or completed, or about to be canceled: it never runs again.
Dead(t) == status[t] \in Finished \union {"Cancellation"}

\* A task that was not submitted is nowhere.
Unsubmitted ==
    \A t \in Task \ submitted :
        /\ t \notin queue
        /\ \A p \in Thread : pc[p] # "idle" => cur[p] # t

OwnerInv == OneOwner /\ Unsubmitted

\* The bit of an entry is set, and no two entries share a bit.
BitsInv ==
    /\ \A d \in Task : \A i \in DOMAIN output[d] :
          \/ Dead(output[d][i].task)
          \/ output[d][i].bit \in waitBits[output[d][i].task]
    /\ \A x, d \in Task : \A i \in DOMAIN output[x], j \in DOMAIN output[d] :
          \/ Dead(output[x][i].task)
          \/ output[x][i].task # output[d][j].task
          \/ output[x][i].bit # output[d][j].bit
          \/ x = d /\ i = j
    /\ \A d \in Task : \A i \in DOMAIN output[d] : output[d][i].task \in submitted
    /\ \A t \in Task \ submitted : waitBits[t] = AllBits

\* A dependency is finished, or its output holds an entry for the task.
InputsInv ==
    \A t \in Task : \A d \in inputs[t] :
        \/ Dead(t)
        \/ status[d.on] \in Finished
        \/ \E i \in DOMAIN output[d.on] : output[d.on][i].task = t

\* What a thread knows of the task at hand.
ThreadInv(p) ==
    /\ pc[p] \in {"addDep", "register", "mask"} =>
          \/ Dead(cur[p])
          \/ /\ \A k \in AllBits : k >= bitIndex[p] => k \in waitBits[cur[p]]
             /\ \A d \in Task : \A i \in DOMAIN output[d] :
                   output[d][i].task = cur[p] => output[d][i].bit < bitIndex[p]
    /\ (pc[p] = "start" /\ ~isCanceled[p]) \/ pc[p] = "run" =>
          waitBits[cur[p]] = {}
    /\ pc[p] \in {"failed", "free", "clear"} => status[cur[p]] \in Finished
    /\ (pc[p] = "register" /\ depStatus[p] \in Finished) =>
          status[Head(todo[p]).on] \in Finished

WaitInv == BitsInv /\ InputsInv /\ \A p \in Thread : ThreadInv(p)

-----------------------------------------------------------------------------
(* One owner                                                               *)

\* A thread goes from one label to another with the same task at hand.
LEMMA OwnerKept ==
    ASSUME TypeInv, OwnerInv, NEW p \in Thread, pc[p] \notin {"idle", "bits"},
           NEW l \in Label \ {"idle", "bits"}, Goto(p, l),
           UNCHANGED <<cur, queue, submitted>>
    PROVE  OwnerInv'
<1>1. pc' \in [Thread -> Label] /\ \A q \in Thread \ {p} : pc'[q] = pc[q]
  BY DEF TypeInv, TypeOK, Goto
<1>2. pc'[p] \notin {"idle", "bits"}
  BY DEF TypeInv, TypeOK, Goto
<1> QED
  BY <1>1, <1>2 DEF OwnerInv, OneOwner, Unsubmitted

\* A thread leaves the task at hand.
LEMMA OwnerLeaves ==
    ASSUME TypeInv, OwnerInv, NEW p \in Thread, pc[p] # "idle", Leave(p),
           \/ pc[p] = "add" /\ queue' = queue \union {cur[p]}
           \/ pc[p] = "bits" /\ queue' = queue
           \/ pc[p] = "free" /\ queue' = queue,
           UNCHANGED submitted
    PROVE  OwnerInv'
<1>1. pc'[p] = "idle" /\ \A q \in Thread \ {p} : pc'[q] = pc[q] /\ cur'[q] = cur[q]
  BY DEF TypeInv, TypeOK, Leave, Goto
<1>2. cur[p] \in submitted
  BY DEF OwnerInv, Unsubmitted, TypeInv, TypeOK
<1> QED
  BY <1>1, <1>2 DEF OwnerInv, OneOwner, Unsubmitted

\* A thread takes a task that nobody has.
LEMMA OwnerTakes ==
    ASSUME TypeInv, OwnerInv, NEW p \in Thread, pc[p] = "idle", NEW t \in Task,
           cur' = [cur EXCEPT ![p] = t],
           \/ Goto(p, "addDep") /\ t \notin submitted /\ submitted' = submitted \union {t}
           \/ /\ Goto(p, "bits") /\ t \in queue /\ ~Inspected(t)
              /\ submitted' = submitted,
           UNCHANGED queue
    PROVE  OwnerInv'
<1>1. /\ pc'[p] \in {"addDep", "bits"} /\ cur'[p] = t
      /\ \A q \in Thread \ {p} : pc'[q] = pc[q] /\ cur'[q] = cur[q]
  BY DEF TypeInv, TypeOK, Goto
<1>2. pc'[p] = "bits" <=> t \in queue
  BY DEF TypeInv, TypeOK, Goto, OwnerInv, Unsubmitted
<1>3. \A q \in Thread \ {p} : pc[q] # "idle" => cur[q] # t
  BY DEF OwnerInv, OneOwner, Unsubmitted, Inspected
<1>4. t \in submitted' /\ submitted \subseteq submitted'
  BY DEF OwnerInv, Unsubmitted
<1> QED
  BY <1>1, <1>2, <1>3, <1>4 DEF OwnerInv, OneOwner, Unsubmitted

LEMMA OwnerStep ==
    ASSUME TypeInv, OwnerInv, [Next]_vars
    PROVE  OwnerInv'
<1> USE DEF waiting, taskVars, threadVars, history
<1>1. ASSUME NEW p \in Thread, AddDependencies(p) PROVE OwnerInv'
  <2>1. PICK l \in Label \ {"idle", "bits"} : Goto(p, l)
    BY <1>1
    DEF AddDependencies, NoMoreDeps, NoBitLeft, LockDep, Register, NoChunkLeft,
        SkipDep, RefuseDep, Mask, GiveUp, NextDep, Label, TypeInv
  <2> QED
    BY <1>1, <2>1, OwnerKept
    DEF AddDependencies, NoMoreDeps, NoBitLeft, LockDep, Register, NoChunkLeft,
        SkipDep, RefuseDep, Mask, GiveUp
<1>2. ASSUME NEW p \in Thread, Enqueue(p) PROVE OwnerInv'
  BY <1>2, OwnerKept DEF Enqueue, Label
<1>3. ASSUME NEW p \in Thread, AddToQueue(p) PROVE OwnerInv'
  BY <1>3, OwnerLeaves DEF AddToQueue
<1>4. ASSUME NEW p \in Thread, NotReady(p) PROVE OwnerInv'
  BY <1>4, OwnerLeaves DEF NotReady
<1>5. ASSUME NEW p \in Thread, Remove(p) PROVE OwnerInv'
  <2>1. /\ pc'[p] = "start" /\ pc[p] = "bits"
        /\ \A q \in Thread \ {p} : pc'[q] = pc[q]
    BY <1>5 DEF Remove, Goto, TypeInv, TypeOK
  <2>2. cur' = cur /\ submitted' = submitted /\ queue' = queue \ {cur[p]}
    BY <1>5 DEF Remove
  <2> QED
    BY <2>1, <2>2 DEF OwnerInv, OneOwner, Unsubmitted
<1>6. ASSUME NEW p \in Thread,
             Start(p) \/ StartCanceled(p) \/ CancelTask(p) \/ OnCancel(p)
      PROVE  OwnerInv'
  BY <1>6, OwnerKept DEF Start, StartCanceled, CancelTask, OnCancel, Label
<1>7. ASSUME NEW p \in Thread, UserRun(p) PROVE OwnerInv'
  <2>1. CASE Continue(p)
    BY <2>1, OwnerKept DEF Continue, WaitAgain, Label
  <2>2. CASE RunReturns(p) \/ RunThrows(p)
    BY <2>2, OwnerKept DEF RunReturns, RunThrows, Label
  <2>3. CASE OnFailure(p) \/ FailureLock(p) \/ SetContinue(p)
    BY <2>3, OwnerKept DEF OnFailure, FailureLock, SetContinue, Label
  <2> QED
    BY <1>7, <2>1, <2>2, <2>3 DEF UserRun
<1>8. ASSUME NEW p \in Thread, OnFinish(p) PROVE OwnerInv'
  BY <1>8, OwnerKept
  DEF OnFinish, FinishCompleted, FinishContinue, FinishCanceled, Label
<1>9. ASSUME NEW p \in Thread, CountCanceled(p) \/ ClearBit(p) PROVE OwnerInv'
  BY <1>9, OwnerKept DEF CountCanceled, ClearBit, Label
<1>10. ASSUME NEW p \in Thread, FreeDone(p) PROVE OwnerInv'
  <2>1. CASE ret[p] = "returned"
    BY <1>10, <2>1, OwnerKept DEF FreeDone, Label
  <2>2. CASE ret[p] # "returned"
    BY <1>10, <2>2, OwnerLeaves DEF FreeDone
  <2> QED
    BY <2>1, <2>2
<1>11. ASSUME NEW p \in Thread, NEW t \in Task, Run(p, t) PROVE OwnerInv'
  BY <1>11, OwnerTakes DEF Run
<1>12. ASSUME NEW p \in Thread, NEW t \in Task, Inspect(p, t) PROVE OwnerInv'
  BY <1>12, OwnerTakes DEF Inspect
<1>13. ASSUME NEW t \in Task, Cancel(t) PROVE OwnerInv'
  BY <1>13 DEF Cancel, OwnerInv, OneOwner, Unsubmitted
<1>14. CASE UNCHANGED vars
  BY <1>14 DEF vars, OwnerInv, OneOwner, Unsubmitted
<1> QED
  BY <1>1, <1>2, <1>3, <1>4, <1>5, <1>6, <1>7, <1>8, <1>9, <1>10, <1>11,
     <1>12, <1>13, <1>14
  DEF Next, Terminated, Step, InsertTask, RemoveTask, FreeOutputChunks

-----------------------------------------------------------------------------
(* A finished task stays finished, a dead one dead                         *)

LEMMA StatusGrows ==
    ASSUME TypeInv, [Next]_vars, NEW t \in Task
    PROVE  /\ status[t] \in Finished => status'[t] \in Finished
           /\ Dead(t) => Dead(t)'
<1> USE DEF TypeInv, TypeOK, waiting, taskVars, threadVars, history, SetStatus,
            SetCancellation, Canceling, Dead, Finished
<1>1. ASSUME NEW p \in Thread, AddDependencies(p)
      PROVE  status'[t] \in {status[t], Canceling(status[t])}
  BY <1>1
  DEF AddDependencies, NoMoreDeps, NoBitLeft, LockDep, Register, NoChunkLeft,
      SkipDep, RefuseDep, Mask, GiveUp
<1>2. ASSUME NEW p \in Thread, InsertTask(p)
      PROVE  status'[t] = status[t] \/ ~Dead(t)
  BY <1>2 DEF InsertTask, Enqueue, AddToQueue
<1>3. ASSUME NEW p \in Thread, RemoveTask(p)
      PROVE  \/ status'[t] \in {status[t], Canceling(status[t]), "Canceled"}
             \/ ~Dead(t)
  BY <1>3
  DEF RemoveTask, NotReady, Remove, Start, StartCanceled, CancelTask, OnCancel
<1>4. ASSUME NEW p \in Thread, UserRun(p)
      PROVE  \/ status'[t] \in {status[t], Canceling(status[t]), "Failed"}
             \/ ~Dead(t)
  BY <1>4
  DEF UserRun, RunReturns, RunThrows, OnFailure, FailureLock, Continue,
      SetContinue, Continuing
<1>5. ASSUME NEW p \in Thread, OnFinish(p)
      PROVE  status'[t] \in {status[t], "Completed", "Failed"}
  BY <1>5 DEF OnFinish, FinishCompleted, FinishContinue, FinishCanceled
<1>6. ASSUME NEW p \in Thread, FreeOutputChunks(p)
      PROVE  status'[t] = status[t]
  BY <1>6 DEF FreeOutputChunks, CountCanceled, ClearBit, FreeDone
<1>7. ASSUME NEW p \in Thread, NEW u \in Task, Run(p, u) \/ Inspect(p, u)
      PROVE  status'[t] = status[t]
  BY <1>7 DEF Run, Inspect
<1>8. ASSUME NEW u \in Task, Cancel(u)
      PROVE  status'[t] \in {status[t], Canceling(status[t])}
  BY <1>8 DEF Cancel
<1>9. CASE UNCHANGED vars
  BY <1>9 DEF vars
<1> QED
  BY <1>1, <1>2, <1>3, <1>4, <1>5, <1>6, <1>7, <1>8, <1>9
  DEF Next, Terminated, Step

-----------------------------------------------------------------------------
(* Bits, entries and what the threads know of them                         *)

\* A step of p changes the locals of no other thread.
Others(p) == \A q \in Thread \ {p} :
    /\ pc'[q] = pc[q] /\ cur'[q] = cur[q] /\ todo'[q] = todo[q]
    /\ bitIndex'[q] = bitIndex[q] /\ depStatus'[q] = depStatus[q]
    /\ isCanceled'[q] = isCanceled[q]

LEMMA StepOthers ==
    ASSUME TypeInv, NEW p \in Thread,
           Step(p) \/ \E t \in Task : Run(p, t) \/ Inspect(p, t)
    PROVE  Others(p)
<1> USE DEF TypeInv, TypeOK, Goto, Leave, NoLocals, Locals, locals, Others
<1>1. CASE AddDependencies(p)
  <2>1. CASE NoBitLeft(p) \/ NoChunkLeft(p) \/ RefuseDep(p)
    BY <2>1 DEF NoBitLeft, NoChunkLeft, RefuseDep, GiveUp
  <2>2. CASE NoMoreDeps(p) \/ LockDep(p) \/ Mask(p)
    BY <2>2 DEF NoMoreDeps, LockDep, Mask
  <2>3. CASE Register(p) \/ SkipDep(p)
    BY <2>3 DEF Register, SkipDep, NextDep
  <2> QED
    BY <1>1, <2>1, <2>2, <2>3 DEF AddDependencies
<1>2. CASE InsertTask(p)
  BY <1>2 DEF InsertTask, Enqueue, AddToQueue
<1>3. CASE RemoveTask(p)
  BY <1>3
  DEF RemoveTask, NotReady, Remove, Start, StartCanceled, CancelTask, OnCancel
<1>4. CASE UserRun(p)
  BY <1>4
  DEF UserRun, RunReturns, RunThrows, OnFailure, FailureLock, Continue,
      WaitAgain, SetContinue
<1>5. CASE OnFinish(p)
  BY <1>5 DEF OnFinish, FinishCompleted, FinishContinue, FinishCanceled
<1>6. CASE FreeOutputChunks(p)
  BY <1>6 DEF FreeOutputChunks, CountCanceled, ClearBit, FreeDone
<1>7. CASE \E t \in Task : Run(p, t) \/ Inspect(p, t)
  BY <1>7 DEF Run, Inspect
<1> QED
  BY <1>1, <1>2, <1>3, <1>4, <1>5, <1>6, <1>7 DEF Step

LEMMA EntryAt ==
    ASSUME TypeInv, NEW d \in Task, NEW i \in DOMAIN output[d]
    PROVE  /\ output[d][i] \in Entry
           /\ output[d][i].task \in Task
           /\ output[d][i].bit \in AllBits
<1>1. output[d] \in Seq(Entry)
  BY DEF TypeInv, TypeOK
<1>2. output[d][i] \in Entry
  BY <1>1
<1> QED
  BY <1>2 DEF Entry, AllBits

\* Bits, entries and inputs stay as they are.
LEMMA DataKept ==
    ASSUME TypeInv, BitsInv, InputsInv, [Next]_vars,
           UNCHANGED <<waitBits, output, inputs>>, submitted \subseteq submitted'
    PROVE  BitsInv' /\ InputsInv'
<1>1. \A d \in Task : \A i \in DOMAIN output[d] : output[d][i].task \in Task
  BY EntryAt
<1>2. \A t \in Task : Dead(t) => Dead(t)'
  BY StatusGrows
<1>3. \A d \in Task : status[d] \in Finished => status'[d] \in Finished
  BY StatusGrows
<1>4. \A t \in Task : \A d \in inputs[t] : d.on \in Task
  BY DEF TypeInv, TypeOK, Dependency
<1>5. BitsInv'
  BY <1>1, <1>2 DEF BitsInv, TypeInv, TypeOK
<1>6. InputsInv'
  BY <1>2, <1>3, <1>4 DEF InputsInv
<1> QED
  BY <1>5, <1>6

\* What the other threads know stays true when a step leaves the data of their
\* tasks alone, or clears the bit of an entry.
LEMMA OthersKept ==
    ASSUME TypeInv, OwnerInv, [Next]_vars, NEW p \in Thread, Others(p),
           NEW q \in Thread \ {p}, ThreadInv(q), pc[q] # "idle",
           waitBits'[cur[q]] \subseteq waitBits[cur[q]],
           \A k \in waitBits[cur[q]] : k \notin waitBits'[cur[q]] =>
              \E d \in Task : \E i \in DOMAIN output[d] :
                 output[d][i].task = cur[q] /\ output[d][i].bit = k,
           \A d \in Task : \A i \in DOMAIN output'[d] :
              output'[d][i].task = cur[q] =>
                 \E j \in DOMAIN output[d] : output[d][j] = output'[d][i]
    PROVE  ThreadInv(q)'
<1>1. cur[q] \in Task
  BY DEF TypeInv, TypeOK
<1>2. (Dead(cur[q]) => Dead(cur[q])') /\ (status[cur[q]] \in Finished => status'[cur[q]] \in Finished)
  BY <1>1, StatusGrows DEF Others, Dead
<1>3. pc[q] = "register" => Head(todo[q]).on \in Task
  BY DependencyList DEF TypeInv, TypeOK, Dependency
<1>4. pc[q] = "register" /\ status[Head(todo[q]).on] \in Finished
         => status'[Head(todo[q]).on] \in Finished
  BY <1>3, StatusGrows
<1>5. ASSUME pc[q] \in {"addDep", "register", "mask"}, ~Dead(cur[q])
      PROVE  /\ \A k \in AllBits : k >= bitIndex[q] => k \in waitBits'[cur[q]]
             /\ \A d \in Task : \A i \in DOMAIN output'[d] :
                   output'[d][i].task = cur[q] => output'[d][i].bit < bitIndex[q]
  <2>1. bitIndex[q] \in Int
    BY DEF TypeInv, TypeOK
  <2>2. /\ \A k \in AllBits : k >= bitIndex[q] => k \in waitBits[cur[q]]
        /\ \A d \in Task : \A i \in DOMAIN output[d] :
              output[d][i].task = cur[q] => output[d][i].bit < bitIndex[q]
    BY <1>5 DEF ThreadInv
  <2>3. ASSUME NEW k \in AllBits, k >= bitIndex[q] PROVE k \in waitBits'[cur[q]]
    BY <2>1, <2>2, <2>3 DEF AllBits
  <2> QED
    BY <2>2, <2>3
<1>6. /\ (pc[q] = "start" /\ ~isCanceled[q]) \/ pc[q] = "run" => waitBits'[cur[q]] = {}
      /\ pc[q] \in {"failed", "free", "clear"} => status'[cur[q]] \in Finished
  BY <1>2 DEF ThreadInv
<1> QED
  BY <1>2, <1>4, <1>5, <1>6 DEF ThreadInv, Others, Dead

LEMMA AppendAt ==
    ASSUME NEW s \in Seq(Entry), NEW e \in Entry
    PROVE  /\ \A i \in DOMAIN Append(s, e) :
                 \/ i \in DOMAIN s /\ Append(s, e)[i] = s[i]
                 \/ i = Len(s) + 1 /\ Append(s, e)[i] = e
           /\ Len(s) + 1 \in DOMAIN Append(s, e) /\ Append(s, e)[Len(s) + 1] = e
           /\ \A i \in DOMAIN s : /\ i \in DOMAIN Append(s, e)
                                /\ Append(s, e)[i] = s[i]
  OBVIOUS

LEMMA TailAt ==
    ASSUME NEW s \in Seq(Entry), s # <<>>
    PROVE  /\ 1 \in DOMAIN s /\ s[1] = Head(s)
           /\ \A i \in DOMAIN Tail(s) : /\ i + 1 \in DOMAIN s /\ i \in Int
                                      /\ Tail(s)[i] = s[i + 1]
                                      /\ i + 1 # 1
  OBVIOUS

LEMMA RegisterStep ==
    ASSUME TypeInv, OwnerInv, WaitInv, [Next]_vars, NEW p \in Thread, Register(p)
    PROVE  /\ BitsInv' /\ InputsInv' /\ ThreadInv(p)'
           /\ \A x \in Task : \A i \in DOMAIN output'[x] :
                 \/ output'[x][i].task = cur[p]
                 \/ i \in DOMAIN output[x] /\ output[x][i] = output'[x][i]
<1> DEFINE t == cur[p]
           d == Head(todo[p]).on
           e == [task |-> t, bit |-> bitIndex[p], strong |-> Head(todo[p]).strong]
           n == Len(output[d]) + 1
<1>1. /\ pc[p] = "register" /\ t \in Task /\ d \in Task /\ bitIndex[p] \in AllBits
      /\ Head(todo[p]) \in Dependency /\ t \in submitted
  BY DependencyList
  DEF Register, TypeInv, TypeOK, Dependency, AllBits, OwnerInv, Unsubmitted
<1>2. /\ output' = [output EXCEPT ![d] = Append(output[d], e)]
      /\ inputs' = [inputs EXCEPT ![t] = @ \union {Head(todo[p])}]
      /\ UNCHANGED <<status, waitBits, cur, submitted>>
      /\ bitIndex' = [bitIndex EXCEPT ![p] = @ + 1] /\ pc' = [pc EXCEPT ![p] = "addDep"]
  BY DEF Register, NextDep, Goto
<1>3. output[d] \in Seq(Entry) /\ e \in Entry
  BY <1>1 DEF TypeInv, TypeOK, Entry, Dependency, AllBits
<1> HIDE DEF e
<1>4. \A x \in Task : \A i \in DOMAIN output'[x] :
         \/ i \in DOMAIN output[x] /\ output'[x][i] = output[x][i]
         \/ x = d /\ i = n /\ output'[x][i] = e
  <2> TAKE x \in Task
  <2>1. CASE x = d
    <3>1. output'[x] = Append(output[d], e)
      BY <1>1, <1>2, <2>1 DEF TypeInv, TypeOK
    <3> QED
      BY <1>3, <2>1, <3>1, AppendAt
  <2>2. CASE x # d
    BY <1>1, <1>2, <2>2 DEF TypeInv, TypeOK
  <2> QED
    BY <2>1, <2>2
<1>5. /\ n \in DOMAIN output'[d] /\ output'[d][n] = e
      /\ \A x \in Task : \A i \in DOMAIN output[x] :
            i \in DOMAIN output'[x] /\ output'[x][i] = output[x][i]
  <2>1. output'[d] = Append(output[d], e)
    BY <1>1, <1>2 DEF TypeInv, TypeOK
  <2>2. \A x \in Task \ {d} : output'[x] = output[x]
    BY <1>1, <1>2 DEF TypeInv, TypeOK
  <2>3. /\ n \in DOMAIN Append(output[d], e) /\ Append(output[d], e)[n] = e
        /\ \A i \in DOMAIN output[d] : /\ i \in DOMAIN Append(output[d], e)
                                     /\ Append(output[d], e)[i] = output[d][i]
    BY <1>3, AppendAt
  <2> QED
    BY <2>1, <2>2, <2>3
<1>6. e.task = t /\ e.bit = bitIndex[p]
  BY DEF e
<1> HIDE DEF n, d, t
<1>7. \/ Dead(t)
      \/ /\ bitIndex[p] \in waitBits[t]
         /\ \A x \in Task : \A i \in DOMAIN output[x] :
               output[x][i].task = t => output[x][i].bit < bitIndex[p]
  BY <1>1 DEF WaitInv, ThreadInv, t, AllBits
<1>8. \A u \in Task : Dead(u)' <=> Dead(u)
  BY <1>2 DEF Dead
<1>9. ASSUME NEW x \in Task, NEW i \in DOMAIN output'[x]
      PROVE  \/ Dead(output[x][i].task)'
             \/ output'[x][i].bit \in waitBits'[output'[x][i].task]
  <2>1. CASE i \in DOMAIN output[x] /\ output'[x][i] = output[x][i]
    <3>1. \/ Dead(output[x][i].task)
          \/ output[x][i].bit \in waitBits[output[x][i].task]
      BY <2>1 DEF WaitInv, BitsInv
    <3> QED
      BY <1>2, <1>8, <2>1, <3>1, EntryAt
  <2>2. CASE output'[x][i] = e
    BY <1>1, <1>2, <1>6, <1>7, <1>8, <2>2
  <2> QED
    BY <1>4, <2>1, <2>2
<1>10. ASSUME NEW x \in Task, NEW y \in Task,
              NEW i \in DOMAIN output'[x], NEW j \in DOMAIN output'[y],
              ~Dead(output[x][i].task)',
              output'[x][i].task = output'[y][j].task,
              output'[x][i].bit = output'[y][j].bit
       PROVE  x = y /\ i = j
  <2>1. CASE /\ i \in DOMAIN output[x] /\ output'[x][i] = output[x][i]
             /\ j \in DOMAIN output[y] /\ output'[y][j] = output[y][j]
    <3>1. output[x][i].task \in Task
      BY <2>1, EntryAt
    <3> QED
      BY <1>8, <1>10, <2>1, <3>1 DEF WaitInv, BitsInv
  <2>2. CASE i \in DOMAIN output[x] /\ output'[x][i] = output[x][i] /\ output'[y][j] = e
    <3>1. output[x][i].bit \in AllBits
      BY <2>2, EntryAt
    <3> QED
      BY <1>1, <1>6, <1>7, <1>8, <1>10, <2>2, <3>1 DEF AllBits
  <2>3. CASE j \in DOMAIN output[y] /\ output'[y][j] = output[y][j] /\ output'[x][i] = e
    <3>1. output[y][j].bit \in AllBits
      BY <2>3, EntryAt
    <3> QED
      BY <1>1, <1>6, <1>7, <1>8, <1>10, <2>3, <3>1 DEF AllBits
  <2>4. CASE x = d /\ i = n /\ y = d /\ j = n
    BY <2>4
  <2> QED
    BY <1>4, <2>1, <2>2, <2>3, <2>4
<1>11. BitsInv'
  <2>1. \A x \in Task : \A i \in DOMAIN output'[x] : output'[x][i].task \in submitted'
    BY <1>1, <1>2, <1>4, <1>6 DEF WaitInv, BitsInv
  <2>2. \A u \in Task \ submitted' : waitBits'[u] = AllBits
    BY <1>2 DEF WaitInv, BitsInv
  <2> QED
    BY <1>9, <1>10, <2>1, <2>2 DEF BitsInv
<1>12. InputsInv'
  <2> SUFFICES ASSUME NEW u \in Task, NEW h \in inputs'[u]
               PROVE  \/ Dead(u)'
                      \/ status'[h.on] \in Finished
                      \/ \E i \in DOMAIN output'[h.on] : output'[h.on][i].task = u
    BY DEF InputsInv
  <2>1. CASE h \in inputs[u]
    <3>1. h.on \in Task
      BY <2>1 DEF TypeInv, TypeOK, Dependency
    <3> QED
      BY <1>2, <1>5, <1>8, <2>1, <3>1 DEF WaitInv, InputsInv
  <2>2. CASE u = t /\ h = Head(todo[p])
    BY <1>5, <1>6, <2>2 DEF d
  <2> QED
    BY <1>1, <1>2, <2>1, <2>2 DEF TypeInv, TypeOK
<1>13. ThreadInv(p)'
  <2>1. pc'[p] = "addDep" /\ bitIndex'[p] = bitIndex[p] + 1 /\ cur'[p] = t
    BY <1>2 DEF TypeInv, TypeOK, t
  <2>2. ~Dead(t) => \A k \in AllBits : k >= bitIndex[p] + 1 => k \in waitBits[t]
    BY <1>1 DEF WaitInv, ThreadInv, t, AllBits
  <2>3. ASSUME ~Dead(t), NEW x \in Task, NEW i \in DOMAIN output'[x],
               output'[x][i].task = t
        PROVE  output'[x][i].bit < bitIndex[p] + 1
    <3>1. CASE i \in DOMAIN output[x] /\ output'[x][i] = output[x][i]
      <4>1. output[x][i].bit \in AllBits /\ output[x][i].bit < bitIndex[p]
        BY <1>7, <2>3, <3>1, EntryAt
      <4> QED
        BY <1>1, <3>1, <4>1 DEF AllBits
    <3>2. CASE output'[x][i] = e
      BY <1>1, <1>6, <3>2 DEF AllBits
    <3> QED
      BY <1>4, <3>1, <3>2
  <2> QED
    BY <1>1, <1>2, <1>8, <2>1, <2>2, <2>3 DEF ThreadInv
<1> QED
  BY <1>4, <1>6, <1>11, <1>12, <1>13 DEF t

\* The entries stay, the bits of the task at hand change, and those of its
\* entries stay set.
LEMMA BitsChange ==
    ASSUME TypeInv, OwnerInv, WaitInv, [Next]_vars, NEW p \in Thread, pc[p] # "idle",
           UNCHANGED <<output, inputs, submitted>>,
           NEW bits \in SUBSET AllBits,
           waitBits' = [waitBits EXCEPT ![cur[p]] = bits],
           \A d \in Task : \A i \in DOMAIN output[d] :
              \/ output[d][i].task # cur[p]
              \/ Dead(cur[p])
              \/ output[d][i].bit \in bits
    PROVE  BitsInv' /\ InputsInv'
<1>1. cur[p] \in Task /\ cur[p] \in submitted
  BY DEF TypeInv, TypeOK, OwnerInv, Unsubmitted
<1>2. \A t \in Task : Dead(t) => Dead(t)'
  BY StatusGrows
<1>3. \A d \in Task : status[d] \in Finished => status'[d] \in Finished
  BY StatusGrows
<1>4. \A t \in Task : waitBits'[t] = IF t = cur[p] THEN bits ELSE waitBits[t]
  BY DEF TypeInv, TypeOK
<1>5. \A t \in Task : \A d \in inputs[t] : d.on \in Task
  BY DEF TypeInv, TypeOK, Dependency
<1>6. InputsInv'
  BY <1>2, <1>3, <1>5 DEF WaitInv, InputsInv
<1>7. ASSUME NEW d \in Task, NEW i \in DOMAIN output[d]
      PROVE  (\/ Dead(output[d][i].task)
              \/ output[d][i].bit \in waitBits[output[d][i].task])'
  <2>1. output[d][i].task \in Task
    BY EntryAt
  <2> QED
    BY <1>2, <1>4, <2>1 DEF WaitInv, BitsInv
<1>8. BitsInv'
  <2>1. \A d \in Task : \A i \in DOMAIN output[d] : output[d][i].task \in Task
    BY EntryAt
  <2>2. \A t \in Task \ submitted' : waitBits'[t] = AllBits
    BY <1>1, <1>4 DEF WaitInv, BitsInv
  <2> QED
    BY <1>2, <1>7, <2>1, <2>2 DEF WaitInv, BitsInv
<1> QED
  BY <1>6, <1>8

LEMMA MaskStep ==
    ASSUME TypeInv, OwnerInv, WaitInv, [Next]_vars, NEW p \in Thread, Mask(p)
    PROVE  BitsInv' /\ InputsInv' /\ ThreadInv(p)'
<1> DEFINE bits == waitBits[cur[p]] \intersect MaskOf(bitIndex[p])
<1>1. /\ pc[p] = "mask" /\ cur[p] \in Task /\ bits \in SUBSET AllBits
      /\ waitBits' = [waitBits EXCEPT ![cur[p]] = bits]
      /\ UNCHANGED <<output, inputs, submitted>>
  BY DEF Mask, TypeInv, TypeOK, history
<1>2. ASSUME NEW d \in Task, NEW i \in DOMAIN output[d],
             output[d][i].task = cur[p], ~Dead(cur[p])
      PROVE  output[d][i].bit \in bits
  <2>1. output[d][i].bit \in waitBits[cur[p]]
    BY <1>2 DEF WaitInv, BitsInv
  <2>2. output[d][i].bit < bitIndex[p]
    BY <1>1, <1>2 DEF WaitInv, ThreadInv
  <2>3. output[d][i].bit \in 0..(BitCount - 1) /\ bitIndex[p] \in Int
    BY EntryAt DEF AllBits, TypeInv, TypeOK
  <2> QED
    BY <2>1, <2>2, <2>3, SizeAssumption DEF MaskOf
<1> HIDE DEF bits
<1>3. BitsInv' /\ InputsInv'
  BY <1>1, <1>2, BitsChange
<1>4. pc'[p] \in {"enqueue", "continue"}
  BY <1>1 DEF Mask, Goto, TypeInv, TypeOK
<1> QED
  BY <1>3, <1>4 DEF ThreadInv

LEMMA ContinueStep ==
    ASSUME TypeInv, OwnerInv, WaitInv, [Next]_vars, NEW p \in Thread, Continue(p)
    PROVE  BitsInv' /\ InputsInv' /\ ThreadInv(p)'
<1>1. /\ pc[p] = "run" /\ cur[p] \in Task /\ waitBits[cur[p]] = {}
      /\ UNCHANGED <<status, output, cur, inputs, submitted>>
  BY DEF Continue, TypeInv, TypeOK, WaitInv, ThreadInv
<1>2. PICK deps \in Resume[cur[p]] : WaitAgain(p, deps)
  BY DEF Continue
<1>3. \A d \in Task : \A i \in DOMAIN output[d] :
         output[d][i].task = cur[p] => Dead(cur[p])
  BY <1>1 DEF WaitInv, BitsInv
<1>4. CASE deps = <<>>
  <2>1. pc'[p] = "continue" /\ waitBits' = waitBits
    BY <1>2, <1>4 DEF WaitAgain, Goto, TypeInv, TypeOK
  <2> QED
    BY <1>1, <2>1, DataKept DEF WaitInv, ThreadInv
<1>5. CASE deps # <<>>
  <2>1. /\ waitBits' = [waitBits EXCEPT ![cur[p]] = AllBits]
        /\ pc'[p] = "addDep" /\ bitIndex'[p] = 0
    BY <1>2, <1>5 DEF WaitAgain, Rearmed, Goto, Locals, TypeInv, TypeOK
  <2>2. BitsInv' /\ InputsInv'
    BY <1>1, <1>3, <2>1, BitsChange
  <2>3. waitBits'[cur[p]] = AllBits
    BY <1>1, <2>1 DEF TypeInv, TypeOK
  <2> QED
    BY <1>1, <1>3, <2>1, <2>2, <2>3 DEF ThreadInv, Dead
<1> QED
  BY <1>4, <1>5

LEMMA ClearStep ==
    ASSUME TypeInv, OwnerInv, WaitInv, [Next]_vars, NEW p \in Thread, ClearBit(p)
    PROVE  /\ BitsInv' /\ InputsInv' /\ ThreadInv(p)'
           /\ \A x \in Task : \A i \in DOMAIN output'[x] :
                 \E j \in DOMAIN output[x] : output[x][j] = output'[x][i]
           /\ \A u \in Task : waitBits'[u] \subseteq waitBits[u]
           /\ \A u \in Task : \A k \in waitBits[u] \ waitBits'[u] :
                 \E d \in Task : \E i \in DOMAIN output[d] :
                    output[d][i].task = u /\ output[d][i].bit = k
<1> DEFINE d == cur[p]
           e == Head(output[d])
<1>1. /\ pc[p] \in {"free", "clear"} /\ d \in Task
      /\ output[d] \in Seq(Entry) /\ output[d] # <<>>
      /\ waitBits' = [waitBits EXCEPT ![e.task] = @ \ {e.bit}]
      /\ output' = [output EXCEPT ![d] = Tail(@)]
      /\ UNCHANGED <<status, cur, inputs, submitted>> /\ Goto(p, "free")
  BY DEF ClearBit, TypeInv, TypeOK, history
<1>2. /\ 1 \in DOMAIN output[d] /\ output[d][1] = e
      /\ e.task \in Task /\ e.bit \in AllBits
  BY <1>1, TailAt, EntryAt
<1>3. /\ output'[d] = Tail(output[d])
      /\ \A x \in Task \ {d} : output'[x] = output[x]
  BY <1>1 DEF TypeInv, TypeOK
<1>4. status[d] \in Finished
  BY <1>1 DEF WaitInv, ThreadInv
<1> HIDE DEF e, d
<1>5. \A x \in Task : \A i \in DOMAIN output'[x] :
         \/ x = d /\ i \in Int /\ i + 1 \in DOMAIN output[x]
            /\ output[x][i + 1] = output'[x][i] /\ i + 1 # 1
         \/ x # d /\ i \in DOMAIN output[x] /\ output[x][i] = output'[x][i]
  <2>1. \A i \in DOMAIN Tail(output[d]) :
           /\ i + 1 \in DOMAIN output[d] /\ i \in Int /\ i + 1 # 1
           /\ Tail(output[d])[i] = output[d][i + 1]
    BY <1>1, TailAt
  <2> QED
    BY <1>3, <2>1
<1>6. \A u \in Task : Dead(u)' <=> Dead(u)
  BY <1>1 DEF Dead
<1>7. \A u \in Task : waitBits'[u] =
         IF u = e.task THEN waitBits[u] \ {e.bit} ELSE waitBits[u]
  BY <1>1, <1>2 DEF TypeInv, TypeOK
<1>8. ASSUME NEW x \in Task, NEW i \in DOMAIN output'[x]
      PROVE  \E j \in DOMAIN output[x] :
                output[x][j] = output'[x][i] /\ (x # d \/ j # 1)
  BY <1>5
<1>9. ASSUME NEW x \in Task, NEW i \in DOMAIN output'[x]
      PROVE  (\/ Dead(output[x][i].task)
              \/ output[x][i].bit \in waitBits[output[x][i].task])'
  <2>1. PICK j \in DOMAIN output[x] :
           output[x][j] = output'[x][i] /\ (x # d \/ j # 1)
    BY <1>8
  <2>2. output[x][j].task \in Task
    BY EntryAt
  <2>3. \/ Dead(output[x][j].task)
        \/ output[x][j].bit \in waitBits[output[x][j].task]
    BY DEF WaitInv, BitsInv
  <2>4. \/ Dead(output[x][j].task)
        \/ output[x][j].task # e.task
        \/ output[x][j].bit # e.bit
    BY <1>1, <1>2, <2>1 DEF WaitInv, BitsInv, d
  <2>5. \/ Dead(output[x][j].task)
        \/ output[x][j].bit \in waitBits'[output[x][j].task]
    BY <1>7, <2>2, <2>3, <2>4
  <2>6. Dead(output[x][j].task) => Dead(output[x][i].task)'
    BY <1>6, <2>1, <2>2
  <2> QED
    BY <2>1, <2>5, <2>6
<1>10. ASSUME NEW x \in Task, NEW y \in Task,
              NEW i \in DOMAIN output'[x], NEW j \in DOMAIN output'[y],
              ~Dead(output[x][i].task)',
              output'[x][i].task = output'[y][j].task,
              output'[x][i].bit = output'[y][j].bit
       PROVE  x = y /\ i = j
  <2>1. PICK f \in DOMAIN output[x] :
           /\ output[x][f] = output'[x][i]
           /\ \/ x = d /\ i \in Int /\ f = i + 1
              \/ x # d /\ f = i
    BY <1>5
  <2>2. PICK g \in DOMAIN output[y] :
           /\ output[y][g] = output'[y][j]
           /\ \/ y = d /\ j \in Int /\ g = j + 1
              \/ y # d /\ g = j
    BY <1>5
  <2>3. ~Dead(output[x][f].task)
    BY <1>6, <1>10, <2>1, EntryAt
  <2>4. x = y /\ f = g
    BY <1>10, <2>1, <2>2, <2>3 DEF WaitInv, BitsInv
  <2> QED
    BY <2>1, <2>2, <2>4
<1>11. BitsInv'
  <2>1. \A x \in Task : \A i \in DOMAIN output'[x] : output'[x][i].task \in submitted'
    <3> TAKE x \in Task
    <3> TAKE i \in DOMAIN output'[x]
    <3>1. PICK j \in DOMAIN output[x] : output[x][j] = output'[x][i]
      BY <1>8
    <3> QED
      BY <1>1, <3>1 DEF WaitInv, BitsInv
  <2>2. e.task \in submitted
    BY <1>1, <1>2 DEF WaitInv, BitsInv, d
  <2>3. \A u \in Task \ submitted' : waitBits'[u] = AllBits
    BY <1>1, <1>7, <2>2 DEF WaitInv, BitsInv
  <2> QED
    BY <1>9, <1>10, <2>1, <2>3 DEF BitsInv
<1>12. InputsInv'
  <2> SUFFICES ASSUME NEW u \in Task, NEW h \in inputs'[u]
               PROVE  \/ Dead(u)'
                      \/ status'[h.on] \in Finished
                      \/ \E i \in DOMAIN output'[h.on] : output'[h.on][i].task = u
    BY DEF InputsInv
  <2>1. h \in inputs[u] /\ h.on \in Task
    BY <1>1 DEF TypeInv, TypeOK, Dependency
  <2>2. CASE h.on = d
    BY <1>1, <1>4, <2>2
  <2>3. CASE h.on # d
    BY <1>1, <1>3, <1>6, <2>1, <2>3 DEF WaitInv, InputsInv
  <2> QED
    BY <2>2, <2>3
<1>13. ThreadInv(p)'
  <2>1. pc'[p] = "free" /\ cur'[p] = d
    BY <1>1 DEF Goto, TypeInv, TypeOK, d
  <2> QED
    BY <1>1, <1>4, <2>1 DEF ThreadInv
<1>14. \A x \in Task : \A i \in DOMAIN output'[x] :
          \E j \in DOMAIN output[x] : output[x][j] = output'[x][i]
  BY <1>8
<1>15. \A u \in Task : \A k \in waitBits[u] \ waitBits'[u] :
          \E x \in Task : \E i \in DOMAIN output[x] :
             output[x][i].task = u /\ output[x][i].bit = k
  BY <1>1, <1>2, <1>7 DEF d
<1> QED
  BY <1>7, <1>11, <1>12, <1>13, <1>14, <1>15

\* A dependency that is finished already, or that cancels the task.
LEMMA NoWaitStep ==
    ASSUME TypeInv, OwnerInv, WaitInv, [Next]_vars, NEW p \in Thread,
           SkipDep(p) \/ RefuseDep(p)
    PROVE  BitsInv' /\ InputsInv' /\ ThreadInv(p)'
<1> DEFINE h == Head(todo[p])
<1>1. /\ pc[p] = "register" /\ cur[p] \in Task /\ h \in Dependency
      /\ UNCHANGED <<waitBits, output, cur, submitted>>
      /\ inputs' = [inputs EXCEPT ![cur[p]] = @ \union {h}]
      /\ depStatus[p] \in Finished
  BY DependencyList
  DEF SkipDep, RefuseDep, GiveUp, MustWait, TypeInv, TypeOK, taskVars, waiting,
      Interrupted, Finished
<1> HIDE DEF h
<1>2. \A t \in Task : Dead(t) => Dead(t)'
  BY StatusGrows
<1>3. \A d \in Task : status[d] \in Finished => status'[d] \in Finished
  BY StatusGrows
<1>4. h.on \in Task /\ status'[h.on] \in Finished
  BY <1>1, <1>3 DEF WaitInv, ThreadInv, Dependency, h
<1>5. \A t \in Task : \A d \in inputs'[t] :
         (d \in inputs[t] /\ d.on \in Task) \/ d = h
  <2>1. \A t \in Task : inputs'[t] \subseteq inputs[t] \union {h}
    BY <1>1 DEF TypeInv, TypeOK
  <2>2. \A t \in Task : \A d \in inputs[t] : d.on \in Task
    BY DEF TypeInv, TypeOK, Dependency
  <2> QED
    BY <2>1, <2>2
<1>6. InputsInv'
  BY <1>1, <1>2, <1>3, <1>4, <1>5 DEF WaitInv, InputsInv
<1>7. BitsInv'
  <2>1. \A d \in Task : \A i \in DOMAIN output[d] : output[d][i].task \in Task
    BY EntryAt
  <2> QED
    BY <1>1, <1>2, <2>1 DEF WaitInv, BitsInv
<1>8. CASE SkipDep(p)
  <2>1. pc'[p] = "addDep" /\ bitIndex'[p] = bitIndex[p]
    BY <1>8 DEF SkipDep, NextDep, Goto, TypeInv, TypeOK
  <2> QED
    BY <1>1, <1>2, <1>6, <1>7, <2>1 DEF WaitInv, ThreadInv
<1>9. CASE RefuseDep(p)
  <2>1. pc'[p] \in {"mask", "returned"}
    BY <1>9 DEF RefuseDep, GiveUp, Goto, TypeInv, TypeOK
  <2>2. Dead(cur[p])'
    BY <1>1, <1>9
    DEF RefuseDep, GiveUp, SetCancellation, SetStatus, Canceling, Dead, TypeInv, TypeOK
  <2> QED
    BY <1>6, <1>7, <2>1, <2>2 DEF ThreadInv
<1> QED
  BY <1>8, <1>9

LEMMA WaitStep ==
    ASSUME TypeInv, OwnerInv, WaitInv, [Next]_vars
    PROVE  WaitInv'
<1> USE DEF waiting, taskVars, threadVars, history
<1>1. ASSUME NEW p \in Thread,
             Step(p) \/ \E t \in Task : Run(p, t) \/ Inspect(p, t),
             BitsInv', InputsInv', ThreadInv(p)',
             \A q \in Thread \ {p} : pc[q] # "idle" => ThreadInv(q)'
      PROVE  WaitInv'
  <2>1. ASSUME NEW q \in Thread \ {p}, pc[q] = "idle" PROVE ThreadInv(q)'
    BY <1>1, <2>1, StepOthers DEF Others, ThreadInv
  <2> QED
    BY <1>1, <2>1 DEF WaitInv
\* The data of the other threads' tasks stay.
<1>2. ASSUME NEW p \in Thread, pc[p] # "idle",
             Step(p) \/ \E t \in Task : Run(p, t) \/ Inspect(p, t),
             output' = output,
             \A u \in Task \ {cur[p]} : waitBits'[u] = waitBits[u],
             NEW q \in Thread \ {p}, pc[q] # "idle"
      PROVE  ThreadInv(q)'
  <2>1. cur[q] \in Task /\ cur[q] # cur[p]
    BY <1>2 DEF TypeInv, TypeOK, OwnerInv, OneOwner
  <2> QED
    BY <1>2, <2>1, StepOthers, OthersKept DEF WaitInv
<1>3. ASSUME NEW p \in Thread,
             Step(p) \/ \E t \in Task : Run(p, t) \/ Inspect(p, t),
             UNCHANGED <<waitBits, output, inputs>>, submitted \subseteq submitted',
             ThreadInv(p)'
      PROVE  WaitInv'
  <2>1. ASSUME NEW q \in Thread \ {p}, pc[q] # "idle" PROVE ThreadInv(q)'
    BY <1>3, <2>1, StepOthers, OthersKept DEF WaitInv
  <2> QED
    BY <1>1, <1>3, <2>1, DataKept DEF WaitInv
<1>4. ASSUME NEW p \in Thread, AddDependencies(p) PROVE WaitInv'
  <2>1. CASE NoMoreDeps(p)
    <3>1. pc'[p] = "mask" /\ pc[p] = "addDep"
      BY <2>1 DEF NoMoreDeps, Goto, TypeInv, TypeOK
    <3>2. ThreadInv(p)'
      BY <2>1, <3>1 DEF NoMoreDeps, WaitInv, ThreadInv, Dead, locals
    <3> QED
      BY <1>3, <1>4, <2>1, <3>2 DEF NoMoreDeps, Step
  <2>2. CASE NoBitLeft(p) \/ NoChunkLeft(p)
    <3>1. GiveUp(p, {cur[p]}) /\ cur[p] \in Task /\ UNCHANGED <<output, inputs>>
      BY <2>2 DEF NoBitLeft, NoChunkLeft, TypeInv, TypeOK
    <3>2. pc'[p] \in {"mask", "returned"}
      BY <3>1 DEF GiveUp, Goto, TypeInv, TypeOK
    <3>3. Dead(cur[p])' /\ UNCHANGED <<waitBits, submitted>>
      BY <3>1
      DEF GiveUp, SetCancellation, SetStatus, Canceling, Dead, TypeInv, TypeOK
    <3>4. ThreadInv(p)'
      BY <3>2, <3>3 DEF ThreadInv
    <3> QED
      BY <1>3, <1>4, <3>1, <3>3, <3>4 DEF Step
  <2>3. CASE LockDep(p)
    <3>1. /\ pc'[p] = "register" /\ pc[p] = "addDep"
          /\ depStatus'[p] = status[Head(todo[p]).on]
      BY <2>3 DEF LockDep, Goto, TypeInv, TypeOK
    <3>2. ThreadInv(p)'
      BY <2>3, <3>1 DEF LockDep, WaitInv, ThreadInv, Dead
    <3> QED
      BY <1>3, <1>4, <2>3, <3>2 DEF LockDep, Step
  <2>4. CASE Register(p)
    <3>1. /\ BitsInv' /\ InputsInv' /\ ThreadInv(p)'
          /\ \A x \in Task : \A i \in DOMAIN output'[x] :
                \/ output'[x][i].task = cur[p]
                \/ i \in DOMAIN output[x] /\ output[x][i] = output'[x][i]
      BY <2>4, RegisterStep
    <3>2. pc[p] # "idle" /\ waitBits' = waitBits
      BY <2>4 DEF Register
    <3>3. ASSUME NEW q \in Thread \ {p}, pc[q] # "idle" PROVE ThreadInv(q)'
      <4>1. cur[q] \in Task /\ cur[q] # cur[p]
        BY <3>2, <3>3 DEF TypeInv, TypeOK, OwnerInv, OneOwner
      <4> QED
        BY <1>4, <3>1, <3>2, <3>3, <4>1, StepOthers, OthersKept DEF Step, WaitInv
    <3> QED
      BY <1>1, <1>4, <3>1, <3>3 DEF Step
  <2>5. CASE SkipDep(p) \/ RefuseDep(p)
    <3>1. BitsInv' /\ InputsInv' /\ ThreadInv(p)'
      BY <2>5, NoWaitStep
    <3>2. pc[p] # "idle" /\ UNCHANGED <<waitBits, output>>
      BY <2>5 DEF SkipDep, RefuseDep, GiveUp
    <3> QED
      BY <1>1, <1>2, <1>4, <3>1, <3>2 DEF Step
  <2>6. CASE Mask(p)
    <3>1. BitsInv' /\ InputsInv' /\ ThreadInv(p)'
      BY <2>6, MaskStep
    <3>2. /\ pc[p] # "idle" /\ output' = output
          /\ \A u \in Task \ {cur[p]} : waitBits'[u] = waitBits[u]
      BY <2>6 DEF Mask, TypeInv, TypeOK
    <3> QED
      BY <1>1, <1>2, <1>4, <3>1, <3>2 DEF Step
  <2> QED
    BY <1>4, <2>1, <2>2, <2>3, <2>4, <2>5, <2>6 DEF AddDependencies
<1>5. ASSUME NEW p \in Thread, InsertTask(p) PROVE WaitInv'
  <2>1. UNCHANGED <<waitBits, output, inputs, submitted>>
    BY <1>5 DEF InsertTask, Enqueue, AddToQueue
  <2>2. pc'[p] \in {"add", "idle"}
    BY <1>5 DEF InsertTask, Enqueue, AddToQueue, Leave, Goto, TypeInv, TypeOK
  <2>3. ThreadInv(p)'
    BY <2>2 DEF ThreadInv
  <2> QED
    BY <1>3, <1>5, <2>1, <2>3 DEF Step
<1>6. ASSUME NEW p \in Thread, RemoveTask(p) PROVE WaitInv'
  <2>1. UNCHANGED <<waitBits, output, inputs, submitted>>
    BY <1>6
    DEF RemoveTask, NotReady, Remove, Start, StartCanceled, CancelTask, OnCancel
  <2>2. ASSUME NotReady(p) \/ StartCanceled(p) \/ CancelTask(p)
         PROVE  ThreadInv(p)'
    <3>1. pc'[p] \in {"idle", "cancel", "onCancel"}
      BY <2>2 DEF NotReady, StartCanceled, CancelTask, Leave, Goto, TypeInv, TypeOK
    <3> QED
      BY <3>1 DEF ThreadInv
  <2>3. ASSUME Remove(p) PROVE ThreadInv(p)'
    <3>1. pc'[p] = "start" /\ isCanceled' = isCanceled /\ cur' = cur
      BY <2>3 DEF Remove, Goto, TypeInv, TypeOK, locals
    <3> QED
      BY <2>1, <2>3, <3>1 DEF ThreadInv, Remove
  <2>4. ASSUME Start(p) PROVE ThreadInv(p)'
    <3>1. pc'[p] = "run" /\ cur' = cur
      BY <2>4 DEF Start, Goto, TypeInv, TypeOK
    <3> QED
      BY <2>1, <2>4, <3>1 DEF ThreadInv, Start, WaitInv
  <2>5. ASSUME OnCancel(p) PROVE ThreadInv(p)'
    <3>1. pc'[p] = "free" /\ cur' = cur /\ status'[cur[p]] = "Canceled"
      BY <2>5 DEF OnCancel, Goto, SetStatus, TypeInv, TypeOK
    <3> QED
      BY <3>1 DEF ThreadInv, Finished
  <2>6. ThreadInv(p)'
    BY <1>6, <2>2, <2>3, <2>4, <2>5 DEF RemoveTask
  <2> QED
    BY <1>3, <1>6, <2>1, <2>6 DEF Step
<1>7. ASSUME NEW p \in Thread, UserRun(p) PROVE WaitInv'
  <2>1. CASE Continue(p)
    <3>1. BitsInv' /\ InputsInv' /\ ThreadInv(p)'
      BY <2>1, ContinueStep
    <3>2. /\ pc[p] # "idle" /\ output' = output
          /\ \A u \in Task \ {cur[p]} : waitBits'[u] = waitBits[u]
      BY <2>1 DEF Continue, WaitAgain, TypeInv, TypeOK
    <3> QED
      BY <1>1, <1>2, <1>7, <3>1, <3>2 DEF Step
  <2>2. CASE ~Continue(p)
    <3>1. /\ UNCHANGED <<waitBits, output, inputs, submitted>>
      BY <1>7, <2>2
      DEF UserRun, RunReturns, RunThrows, OnFailure, FailureLock, SetContinue
    <3>2. ASSUME RunReturns(p) \/ RunThrows(p) \/ SetContinue(p)
           PROVE  ThreadInv(p)'
      <4>1. pc'[p] \in {"finish", "returned"}
        BY <3>2 DEF RunReturns, RunThrows, SetContinue, Goto, TypeInv, TypeOK
      <4> QED
        BY <4>1 DEF ThreadInv
    <3>3. ASSUME OnFailure(p) PROVE ThreadInv(p)'
      <4>1. pc'[p] = "failed" /\ cur' = cur /\ status'[cur[p]] = "Failed"
        BY <3>3 DEF OnFailure, Goto, SetStatus, TypeInv, TypeOK
      <4> QED
        BY <4>1 DEF ThreadInv, Finished
    <3>4. ASSUME FailureLock(p) PROVE ThreadInv(p)'
      <4>1. pc'[p] = "free" /\ pc[p] = "failed" /\ UNCHANGED <<cur, status>>
        BY <3>4 DEF FailureLock, Goto, TypeInv, TypeOK
      <4> QED
        BY <4>1 DEF ThreadInv, WaitInv
    <3>5. ThreadInv(p)'
      BY <1>7, <2>2, <3>2, <3>3, <3>4 DEF UserRun
    <3> QED
      BY <1>3, <1>7, <3>1, <3>5 DEF Step
  <2> QED
    BY <2>1, <2>2
<1>8. ASSUME NEW p \in Thread, OnFinish(p) PROVE WaitInv'
  <2>1. UNCHANGED <<waitBits, output, inputs, submitted, cur>>
    BY <1>8 DEF OnFinish, FinishCompleted, FinishContinue, FinishCanceled
  <2>2. \/ pc'[p] \in {"enqueue", "onCancel"}
        \/ pc'[p] = "free" /\ status'[cur[p]] \in {"Completed", "Failed"}
    BY <1>8
    DEF OnFinish, FinishCompleted, FinishContinue, FinishCanceled, Goto, SetStatus,
        TypeInv, TypeOK
  <2>3. ThreadInv(p)'
    BY <2>1, <2>2 DEF ThreadInv, Finished
  <2> QED
    BY <1>3, <1>8, <2>1, <2>3 DEF Step
<1>9. ASSUME NEW p \in Thread, CountCanceled(p) \/ FreeDone(p) PROVE WaitInv'
  <2>1. UNCHANGED <<waitBits, output, inputs, submitted, status>>
    BY <1>9 DEF CountCanceled, FreeDone
  <2>2. \/ pc'[p] \in {"idle", "returned"}
        \/ pc[p] = "free" /\ pc'[p] = "clear" /\ cur' = cur
    BY <1>9 DEF CountCanceled, FreeDone, Leave, Goto, TypeInv, TypeOK
  <2>3. ThreadInv(p)'
    BY <2>1, <2>2 DEF ThreadInv, WaitInv
  <2> QED
    BY <1>3, <1>9, <2>1, <2>3 DEF Step, FreeOutputChunks
<1>10. ASSUME NEW p \in Thread, ClearBit(p) PROVE WaitInv'
  <2>1. Step(p) /\ Others(p)
    BY <1>10, StepOthers DEF Step, FreeOutputChunks
  <2>2. ASSUME NEW q \in Thread \ {p}, pc[q] # "idle" PROVE ThreadInv(q)'
    <3>1. cur[q] \in Task
      BY <2>2 DEF TypeInv, TypeOK
    <3>2. waitBits'[cur[q]] \subseteq waitBits[cur[q]]
      BY <1>10, <3>1, ClearStep
    <3>3. \A k \in waitBits[cur[q]] : k \notin waitBits'[cur[q]] =>
             \E d \in Task : \E i \in DOMAIN output[d] :
                output[d][i].task = cur[q] /\ output[d][i].bit = k
      BY <1>10, <3>1, ClearStep
    <3>4. \A d \in Task : \A i \in DOMAIN output'[d] :
             \E j \in DOMAIN output[d] : output[d][j] = output'[d][i]
      BY <1>10, ClearStep
    <3> QED
      BY <2>1, <2>2, <3>2, <3>3, <3>4, OthersKept DEF WaitInv
  <2> QED
    BY <1>1, <1>10, <2>1, <2>2, ClearStep
<1>11. ASSUME NEW p \in Thread, NEW t \in Task, Run(p, t) PROVE WaitInv'
  <2>1. UNCHANGED <<waitBits, output, inputs, status>> /\ submitted \subseteq submitted'
    BY <1>11 DEF Run
  <2>2. pc'[p] = "addDep" /\ cur'[p] = t /\ bitIndex'[p] = 0
    BY <1>11 DEF Run, Locals, Goto, TypeInv, TypeOK
  <2>3. /\ waitBits[t] = AllBits
        /\ \A d \in Task : \A i \in DOMAIN output[d] : output[d][i].task # t
    BY <1>11 DEF Run, WaitInv, BitsInv
  <2>4. ThreadInv(p)'
    BY <2>1, <2>2, <2>3 DEF ThreadInv
  <2> QED
    BY <1>3, <1>11, <2>1, <2>4
<1>12. ASSUME NEW p \in Thread, NEW t \in Task, Inspect(p, t) PROVE WaitInv'
  <2>1. UNCHANGED <<waitBits, output, inputs, submitted>>
    BY <1>12 DEF Inspect
  <2>2. ThreadInv(p)'
    BY <1>12 DEF Inspect, Goto, ThreadInv, TypeInv, TypeOK
  <2> QED
    BY <1>3, <1>12, <2>1, <2>2
<1>13. ASSUME UNCHANGED <<threadVars, waiting, inputs, submitted>> PROVE WaitInv'
  <2>1. \A t \in Task : Dead(t) => Dead(t)'
    BY StatusGrows
  <2>2. \A t \in Task : status[t] \in Finished => status'[t] \in Finished
    BY StatusGrows
  <2>3. \A p \in Thread : pc[p] = "register" => Head(todo[p]).on \in Task
    BY DependencyList DEF TypeInv, TypeOK, Dependency
  <2>4. \A p \in Thread : ThreadInv(p)'
    BY <1>13, <2>1, <2>2, <2>3 DEF WaitInv, ThreadInv, TypeInv, TypeOK, locals
  <2> QED
    BY <1>13, <2>4, DataKept DEF WaitInv
<1>14. ASSUME NEW t \in Task, Cancel(t) PROVE WaitInv'
  BY <1>13, <1>14 DEF Cancel
<1>15. CASE UNCHANGED vars
  BY <1>13, <1>15 DEF vars
<1> QED
  BY <1>4, <1>5, <1>6, <1>7, <1>8, <1>9, <1>10, <1>11, <1>12, <1>14, <1>15
  DEF Next, Terminated, Step, FreeOutputChunks

-----------------------------------------------------------------------------
(* Tasks that are not finished                                             *)

\* Before it runs, and while Run() has not failed, a task is not finished.
LiveLabel == {"addDep", "register", "mask", "enqueue", "add", "bits", "start",
              "cancel", "onCancel", "run", "continue"}

LiveInv ==
    /\ \A t \in Task : t \in queue \/ t \notin submitted => status[t] \notin Finished
    /\ \A p \in Thread : pc[p] \in LiveLabel => status[cur[p]] \notin Finished

\* Nothing finishes; a thread only gets to a live label with a live task.
LEMMA LiveKept ==
    ASSUME TypeInv, LiveInv, NEW p \in Thread,
           \A q \in Thread \ {p} : pc'[q] = pc[q] /\ cur'[q] = cur[q],
           \A t \in Task : status[t] \notin Finished => status'[t] \notin Finished,
           \/ pc'[p] \notin LiveLabel
           \/ cur'[p] \in Task /\ status[cur'[p]] \notin Finished,
           submitted \subseteq submitted',
           \A t \in queue' : t \in queue \/ (t = cur[p] /\ pc[p] \in LiveLabel)
    PROVE  LiveInv'
<1>1. \A q \in Thread : pc[q] \in LiveLabel => cur[q] \in Task
  BY DEF TypeInv, TypeOK, LiveLabel
<1>2. ASSUME NEW q \in Thread, pc'[q] \in LiveLabel
      PROVE  status'[cur'[q]] \notin Finished
  BY <1>1, <1>2 DEF LiveInv
<1>3. ASSUME NEW t \in Task, t \in queue' \/ t \notin submitted'
      PROVE  status'[t] \notin Finished
  BY <1>3 DEF LiveInv
<1> QED
  BY <1>2, <1>3 DEF LiveInv

\* The task at hand finishes: nobody else has it.
LEMMA LiveFinishes ==
    ASSUME TypeInv, OwnerInv, LiveInv, NEW p \in Thread,
           pc[p] \notin {"idle", "bits"}, NEW s \in Status, SetStatus(cur[p], s),
           NEW l \in Label \ LiveLabel, Goto(p, l), UNCHANGED <<cur, queue, submitted>>
    PROVE  LiveInv'
<1>1. \A q \in Thread \ {p} : pc'[q] = pc[q]
  BY DEF Goto, TypeInv, TypeOK
<1>2. pc'[p] \notin LiveLabel
  BY DEF Goto, TypeInv, TypeOK
<1>3. \A t \in Task \ {cur[p]} : status'[t] = status[t]
  BY DEF SetStatus, TypeInv, TypeOK
<1>4. cur[p] \notin queue /\ cur[p] \in submitted
  BY DEF OwnerInv, OneOwner, Unsubmitted, TypeInv, TypeOK
<1>5. \A q \in Thread \ {p} : pc[q] \in LiveLabel => cur[q] # cur[p] /\ cur[q] \in Task
  BY DEF OwnerInv, OneOwner, LiveLabel, TypeInv, TypeOK
<1> QED
  BY <1>1, <1>2, <1>3, <1>4, <1>5 DEF LiveInv

LEMMA LiveStep ==
    ASSUME TypeInv, OwnerInv, LiveInv, [Next]_vars
    PROVE  LiveInv'
<1> USE DEF waiting, taskVars, threadVars, history, LiveLabel
<1>1. ASSUME NEW p \in Thread, AddDependencies(p) PROVE LiveInv'
  <2>1. /\ pc[p] \in {"addDep", "register", "mask"}
        /\ cur' = cur /\ queue' = queue /\ submitted' = submitted
        /\ status' \in {status, [status EXCEPT ![cur[p]] = Canceling(@)]}
    BY <1>1
    DEF AddDependencies, NoMoreDeps, NoBitLeft, LockDep, Register, NoChunkLeft,
        SkipDep, RefuseDep, Mask, GiveUp, SetCancellation, SetStatus
  <2>2. \A t \in Task : status[t] \notin Finished => status'[t] \notin Finished
    BY <2>1 DEF Canceling, Finished, TypeInv, TypeOK
  <2>3. cur[p] \in Task /\ status[cur[p]] \notin Finished
    BY <2>1 DEF LiveInv, TypeInv, TypeOK
  <2> QED
    BY <1>1, <2>1, <2>2, <2>3, StepOthers, LiveKept DEF Others, Step
<1>2. ASSUME NEW p \in Thread, InsertTask(p) PROVE LiveInv'
  <2>1. /\ pc[p] \in {"enqueue", "add"} /\ submitted' = submitted
        /\ pc'[p] \notin LiveLabel \/ cur' = cur
        /\ queue' \in {queue, queue \union {cur[p]}}
    BY <1>2 DEF InsertTask, Enqueue, AddToQueue, Leave, Goto, TypeInv, TypeOK
  <2>2. \A t \in Task : status[t] \notin Finished => status'[t] \notin Finished
    BY <1>2 DEF InsertTask, Enqueue, AddToQueue, SetStatus, Finished, TypeInv, TypeOK
  <2>3. cur[p] \in Task /\ status[cur[p]] \notin Finished
    BY <2>1 DEF LiveInv, TypeInv, TypeOK
  <2> QED
    BY <1>2, <2>1, <2>2, <2>3, StepOthers, LiveKept DEF Others, Step
<1>3. ASSUME NEW p \in Thread, OnCancel(p) PROVE LiveInv'
  BY <1>3, LiveFinishes DEF OnCancel, Status, Label
<1>4. ASSUME NEW p \in Thread,
             NotReady(p) \/ Remove(p) \/ Start(p) \/ StartCanceled(p) \/ CancelTask(p)
      PROVE  LiveInv'
  <2>1. /\ pc[p] \in {"bits", "start", "cancel"} /\ submitted' = submitted
        /\ pc'[p] \notin LiveLabel \/ cur' = cur
        /\ queue' \subseteq queue
    BY <1>4
    DEF NotReady, Remove, Start, StartCanceled, CancelTask, Leave, Goto, TypeInv,
        TypeOK
  <2>2. \A t \in Task : status[t] \notin Finished => status'[t] \notin Finished
    BY <1>4
    DEF NotReady, Remove, Start, StartCanceled, CancelTask, SetCancellation,
        SetStatus, Canceling, Finished, TypeInv, TypeOK
  <2>3. cur[p] \in Task /\ status[cur[p]] \notin Finished
    BY <2>1 DEF LiveInv, TypeInv, TypeOK
  <2> QED
    BY <1>4, <2>1, <2>2, <2>3, StepOthers, LiveKept DEF Others, Step, RemoveTask
<1>5. ASSUME NEW p \in Thread, OnFailure(p) PROVE LiveInv'
  BY <1>5, LiveFinishes DEF OnFailure, Status, Label
<1>6. ASSUME NEW p \in Thread, UserRun(p), ~OnFailure(p) PROVE LiveInv'
  <2>1. /\ pc[p] = "run" \/ pc'[p] \notin LiveLabel
        /\ cur' = cur /\ queue' = queue /\ submitted' = submitted
    BY <1>6
    DEF UserRun, RunReturns, RunThrows, FailureLock, Continue, SetContinue, Goto,
        TypeInv, TypeOK
  <2>2. \A t \in Task : status[t] \notin Finished => status'[t] \notin Finished
    BY <1>6
    DEF UserRun, RunReturns, RunThrows, FailureLock, Continue, SetContinue,
        SetCancellation, SetStatus, Canceling, Continuing, Finished, TypeInv, TypeOK
  <2>3. pc[p] = "run" => cur[p] \in Task /\ status[cur[p]] \notin Finished
    BY DEF LiveInv, TypeInv, TypeOK
  <2>4. \A q \in Thread \ {p} : pc'[q] = pc[q] /\ cur'[q] = cur[q]
    BY <1>6, StepOthers DEF Others, Step
  <2> HIDE DEF LiveLabel
  <2> QED
    BY <1>6, <2>1, <2>2, <2>3, <2>4, LiveKept
<1>7. ASSUME NEW p \in Thread, FinishCompleted(p) PROVE LiveInv'
  BY <1>7, LiveFinishes DEF FinishCompleted, Status, Label
<1>8. ASSUME NEW p \in Thread, FinishContinue(p) \/ FinishCanceled(p) PROVE LiveInv'
  <2>1. /\ UNCHANGED <<status, cur, queue, submitted>> /\ cur[p] \in Task
        /\ status[cur[p]] \notin Finished
    BY <1>8 DEF FinishContinue, FinishCanceled, Finished, TypeInv, TypeOK
  <2>2. \A q \in Thread \ {p} : pc'[q] = pc[q] /\ cur'[q] = cur[q]
    BY <1>8, StepOthers DEF Others, Step, OnFinish
  <2> HIDE DEF LiveLabel
  <2> QED
    BY <1>8, <2>1, <2>2, LiveKept
<1>9. ASSUME NEW p \in Thread, FreeOutputChunks(p) PROVE LiveInv'
  <2>1. /\ UNCHANGED <<status, queue, submitted>> /\ pc'[p] \notin LiveLabel
    <3>1. CASE CountCanceled(p) \/ ClearBit(p)
      BY <3>1 DEF CountCanceled, ClearBit, Goto, TypeInv, TypeOK
    <3>2. CASE FreeDone(p)
      BY <3>2 DEF FreeDone, Leave, Goto, TypeInv, TypeOK
    <3> QED
      BY <1>9, <3>1, <3>2 DEF FreeOutputChunks
  <2>2. \A q \in Thread \ {p} : pc'[q] = pc[q] /\ cur'[q] = cur[q]
    BY <1>9, StepOthers DEF Others, Step
  <2> HIDE DEF LiveLabel
  <2> QED
    BY <1>9, <2>1, <2>2, LiveKept
<1>10. ASSUME NEW p \in Thread, NEW t \in Task, Run(p, t) \/ Inspect(p, t)
       PROVE  LiveInv'
  <2>1. UNCHANGED <<status, queue>> /\ cur'[p] = t /\ submitted \subseteq submitted'
    BY <1>10 DEF Run, Inspect, TypeInv, TypeOK
  <2>2. status[t] \notin Finished
    BY <1>10 DEF Run, Inspect, LiveInv
  <2>3. \A q \in Thread \ {p} : pc'[q] = pc[q] /\ cur'[q] = cur[q]
    BY <1>10, StepOthers DEF Others
  <2> HIDE DEF LiveLabel
  <2> QED
    BY <1>10, <2>1, <2>2, <2>3, LiveKept
<1>11. ASSUME NEW t \in Task, Cancel(t) PROVE LiveInv'
  <2>1. \A u \in Task : status[u] \notin Finished => status'[u] \notin Finished
    BY <1>11 DEF Cancel, SetCancellation, SetStatus, Canceling, Finished, TypeInv, TypeOK
  <2> QED
    BY <1>11, <2>1 DEF Cancel, LiveInv, TypeInv, TypeOK
<1>12. CASE UNCHANGED vars
  BY <1>12 DEF vars, LiveInv
<1> QED
  BY <1>1, <1>2, <1>3, <1>4, <1>5, <1>6, <1>7, <1>8, <1>9, <1>10, <1>11, <1>12
  DEF Next, Terminated, Step, RemoveTask, OnFinish

-----------------------------------------------------------------------------
(* The theorems                                                            *)

\* The inductive invariant.
IInv == TypeInv /\ OwnerInv /\ WaitInv /\ LiveInv

LEMMA IInvInit == Init => IInv
<1> SUFFICES ASSUME Init PROVE IInv
  OBVIOUS
<1>1. TypeInv
  BY InitType
<1>2. OwnerInv
  BY DEF Init, MakeTasks, OwnerInv, OneOwner, Unsubmitted
<1>3. WaitInv
  BY DEF Init, MakeTasks, WaitInv, BitsInv, InputsInv, ThreadInv
<1>4. LiveInv
  BY DEF Init, MakeTasks, LiveInv, LiveLabel, Finished
<1> QED
  BY <1>1, <1>2, <1>3, <1>4 DEF IInv

LEMMA IInvStep == IInv /\ [Next]_vars => IInv'
  BY TypeStep, OwnerStep, WaitStep, LiveStep DEF IInv

LEMMA IInvAlways == Spec => []IInv
  BY IInvInit, IInvStep, PTL DEF Spec

\* A task is in the hands of one thread at a time: Run() and OnCancel() of one
\* task are sequential, and a task is never enqueued while somebody has it.
THEOREM OneOwnerAlways == Spec => []OneOwner
<1>1. IInv => OneOwner
  BY DEF IInv, OwnerInv
<1> QED
  BY IInvAlways, <1>1, PTL

\* A task that starts has all its dependencies finished: a dependency that is
\* not has an entry for it, and so a bit that is set.
LEMMA StartsLate ==
    ASSUME IInv, NEW p \in Thread, Start(p), NEW d \in inputs[cur[p]]
    PROVE  status[d.on] \in Finished
<1>1. pc[p] = "start" /\ status[cur[p]] = "Pending" /\ ~isCanceled[p]
  BY DEF Start
<1>2. cur[p] \in Task /\ d.on \in Task
  BY <1>1 DEF IInv, TypeInv, TypeOK, Dependency
<1>3. ~Dead(cur[p])
  BY <1>1 DEF Dead, Finished
<1>4. waitBits[cur[p]] = {}
  BY <1>1 DEF IInv, WaitInv, ThreadInv
<1>5. ~\E i \in DOMAIN output[d.on] : output[d.on][i].task = cur[p]
  BY <1>2, <1>3, <1>4 DEF IInv, WaitInv, BitsInv
<1> QED
  BY <1>2, <1>3, <1>5 DEF IInv, WaitInv, InputsInv

\* _RemoveTask moves a task from Pending to InProgress only when all the
\* dependencies it was given are finished, whatever chunk sizes, bit counts,
\* threads and interleavings with the threads that release them.
THEOREM InputsFirst == Spec => StartAfterInputs
<1>1. IInv /\ [Next]_vars => [\A p \in Thread : Start(p) =>
         \A d \in inputs[cur[p]] : status[d.on] \in Finished]_vars
  BY StartsLate
<1> QED
  BY IInvAlways, <1>1, PTL DEF Spec, StartAfterInputs

\* Neither Cancel(), nor OnFailure(), nor an exception in Run(), nor Enqueue()
\* changes the status of a finished task.
LEMMA FinishedKept ==
    ASSUME IInv, [Next]_vars, NEW t \in Task, status[t] \in Finished
    PROVE  status'[t] = status[t]
<1> USE DEF SetStatus, SetCancellation, Canceling, Finished, TypeInv, TypeOK
<1>1. TypeInv /\ \A p \in Thread : pc[p] \in LiveLabel => cur[p] # t
  BY DEF IInv, LiveInv
<1>2. ASSUME NEW p \in Thread, AddDependencies(p) PROVE status'[t] = status[t]
  BY <1>1, <1>2
  DEF AddDependencies, NoMoreDeps, NoBitLeft, LockDep, Register, NoChunkLeft,
      SkipDep, RefuseDep, Mask, GiveUp, taskVars
<1>3. ASSUME NEW p \in Thread, InsertTask(p) PROVE status'[t] = status[t]
  BY <1>1, <1>3 DEF InsertTask, Enqueue, AddToQueue, taskVars
<1>4. ASSUME NEW p \in Thread, RemoveTask(p) PROVE status'[t] = status[t]
  BY <1>1, <1>4
  DEF RemoveTask, NotReady, Remove, Start, StartCanceled, CancelTask, OnCancel,
      taskVars, LiveLabel
<1>5. ASSUME NEW p \in Thread, UserRun(p) PROVE status'[t] = status[t]
  BY <1>1, <1>5
  DEF UserRun, RunReturns, RunThrows, OnFailure, FailureLock, Continue,
      SetContinue, Continuing, taskVars, LiveLabel
<1>6. ASSUME NEW p \in Thread, OnFinish(p) PROVE status'[t] = status[t]
  BY <1>1, <1>6
  DEF OnFinish, FinishCompleted, FinishContinue, FinishCanceled, taskVars
<1>7. ASSUME NEW p \in Thread, FreeOutputChunks(p) PROVE status'[t] = status[t]
  BY <1>7
  DEF FreeOutputChunks, CountCanceled, ClearBit, FreeDone, taskVars
<1>8. ASSUME NEW p \in Thread, NEW u \in Task, Run(p, u) \/ Inspect(p, u)
      PROVE  status'[t] = status[t]
  BY <1>8 DEF Run, Inspect, taskVars
<1>9. ASSUME NEW u \in Task, Cancel(u) PROVE status'[t] = status[t]
  BY <1>1, <1>9 DEF Cancel
<1>10. CASE UNCHANGED vars
  BY <1>10 DEF vars, taskVars
<1> QED
  BY <1>2, <1>3, <1>4, <1>5, <1>6, <1>7, <1>8, <1>9, <1>10
  DEF Next, Terminated, Step

\* Completed, Canceled and Failed are final: neither Cancel(), nor OnFailure(),
\* nor an exception in Run(), nor Enqueue() changes them, and OnCancel() is
\* never called for a finished task.
THEOREM FinalStatus == Spec => FinishedForGood
<1>1. ASSUME IInv, IInv', [Next]_vars, NEW t \in Task, status[t] \in Finished,
             NEW p \in Thread, cur'[p] = t
      PROVE  pc'[p] # "onCancel"
  BY <1>1, FinishedKept DEF IInv, LiveInv, LiveLabel
<1>2. IInv /\ IInv' /\ [Next]_vars => [\A t \in Task : status[t] \in Finished =>
         /\ status'[t] = status[t]
         /\ \A p \in Thread : cur'[p] = t => pc'[p] # "onCancel"]_vars
  BY <1>1, FinishedKept
<1> QED
  BY IInvAlways, <1>2, PTL DEF Spec, FinishedForGood

-----------------------------------------------------------------------------
(* No wait of a task is lost. *)

\* A thread that is about to register on d keeps everybody out who releases d.
LockInv ==
    \A p, q \in Thread :
        (pc[p] = "register" /\ pc[q] \in {"onCancel", "free", "clear"})
            => Head(todo[p]).on # cur[q]

\* A thread has read a status under the lock that is not finished, and the task
\* has finished since: that was OnFailure(), which still has to lock the output.
SeenInv ==
    \A p \in Thread :
        (/\ pc[p] = "register" /\ MustWait(depStatus[p])
         /\ status[Head(todo[p]).on] \in Finished)
            => \E q \in Thread : pc[q] = "failed" /\ cur[q] = Head(todo[p]).on

LateInv == NoLateEntry /\ SeenInv

Adding == {"addDep", "register", "mask"}

\* Some output holds an entry for this bit.
Backed(t, k) == \E d \in Task : \E i \in DOMAIN output[d] :
    output[d][i].task = t /\ output[d][i].bit = k

\* While dependencies are added the bits handed out so far are backed, later
\* all the bits that are set.
SourceInv ==
    \A t \in submitted : ~Dead(t) =>
        \A k \in waitBits[t] :
            \/ Backed(t, k)
            \/ \E p \in Thread : /\ pc[p] \in Adding /\ cur[p] = t
                                /\ k >= bitIndex[p]

\* Why a task may be in cancellation.
Reason(t) ==
    \/ t \in asked
    \/ \E d \in inputs[t] : d.strong /\ status[d.on] \in Interrupted

\* The count of the canceled dependencies is positive only for a reason.
CountInv == \A t \in Task : canceledDepsCount[t] > 0 => Reason(t)

\* An entry is an input of the task it names.
EntryInv ==
    \A d \in Task : \A i \in DOMAIN output[d] :
        [on |-> d, strong |-> output[d][i].strong] \in inputs[output[d][i].task]

\* What a thread knows of the cancellation of the task at hand, or of the
\* dependency.
CancelingInv(p) ==
    /\ isCanceled[p] =>
          \/ pc[p] \in {"bits", "start"} /\ Reason(cur[p])
          \/ pc[p] \in {"cancel", "onCancel"}
          \/ pc[p] \in {"free", "clear"} /\ status[cur[p]] \in Interrupted
    /\ pc[p] \in {"cancel", "onCancel"} => Reason(cur[p])
    /\ pc[p] = "failed" => status[cur[p]] = "Failed"
    /\ (pc[p] = "register" /\ depStatus[p] \in Finished) =>
          status[Head(todo[p]).on] = depStatus[p]

ReasonInv ==
    CanceledForReason /\ CountInv /\ EntryInv /\ \A p \in Thread : CancelingInv(p)

-----------------------------------------------------------------------------
(* Locks                                                                   *)

\* A step of p gets to a place with a lock only with the lock free, or its own.
LEMMA LockKept ==
    ASSUME LockInv, NEW p \in Thread, Others(p),
           pc'[p] = "register" =>
              todo'[p] = todo[p] /\ ~Locked(Head(todo[p]).on),
           pc'[p] \in {"onCancel", "free", "clear"} =>
              /\ cur'[p] = cur[p]
              /\ pc[p] \in {"onCancel", "free", "clear"} \/ ~Locked(cur[p])
    PROVE  LockInv'
<1> SUFFICES ASSUME NEW r \in Thread, NEW q \in Thread, pc'[r] = "register",
                    pc'[q] \in {"onCancel", "free", "clear"}
             PROVE  Head(todo'[r]).on # cur'[q]
  BY DEF LockInv
<1>1. CASE r # p /\ q # p
  BY <1>1 DEF Others, LockInv
<1>2. CASE r = p
  BY <1>2 DEF Others, Locked
<1>3. CASE q = p /\ r # p
  <2>1. pc[r] = "register" /\ todo'[r] = todo[r]
    BY <1>3 DEF Others
  <2> QED
    BY <1>3, <2>1 DEF Locked, LockInv
<1> QED
  BY <1>1, <1>2, <1>3

LEMMA LockStep ==
    ASSUME TypeInv, LockInv, [Next]_vars
    PROVE  LockInv'
<1> USE DEF TypeInv, TypeOK, Goto, taskVars, waiting, locals
<1>1. ASSUME NEW p \in Thread, AddDependencies(p) PROVE LockInv'
  <2>1. CASE LockDep(p)
    BY <1>1, <2>1, StepOthers, LockKept DEF LockDep, Step
  <2>2. CASE ~LockDep(p)
    <3>1. pc'[p] \in {"addDep", "mask", "returned", "enqueue", "continue"}
      BY <1>1, <2>2
      DEF AddDependencies, NoMoreDeps, NoBitLeft, Register, NoChunkLeft,
          SkipDep, RefuseDep, Mask, GiveUp, NextDep
    <3> QED
      BY <1>1, <3>1, StepOthers, LockKept DEF Step
  <2> QED
    BY <2>1, <2>2
<1>2. ASSUME NEW p \in Thread, InsertTask(p) PROVE LockInv'
  <2>1. pc'[p] \in {"add", "idle"}
    BY <1>2 DEF InsertTask, Enqueue, AddToQueue, Leave
  <2> QED
    BY <1>2, <2>1, StepOthers, LockKept DEF Step
<1>3. ASSUME NEW p \in Thread, RemoveTask(p) PROVE LockInv'
  <2>1. CASE NotReady(p) \/ Remove(p) \/ Start(p) \/ StartCanceled(p)
    <3>1. pc'[p] \in {"idle", "start", "run", "cancel"}
      BY <2>1 DEF NotReady, Remove, Start, StartCanceled, Leave
    <3> QED
      BY <1>3, <3>1, StepOthers, LockKept DEF Step
  <2>2. CASE CancelTask(p) \/ OnCancel(p)
    <3>1. /\ pc'[p] \in {"onCancel", "free"} /\ cur'[p] = cur[p]
          /\ pc[p] = "onCancel" \/ ~Locked(cur[p])
      BY <2>2 DEF CancelTask, OnCancel
    <3> QED
      BY <1>3, <3>1, StepOthers, LockKept DEF Step
  <2> QED
    BY <1>3, <2>1, <2>2 DEF RemoveTask
<1>4. ASSUME NEW p \in Thread, UserRun(p) PROVE LockInv'
  <2>1. CASE FailureLock(p)
    <3>1. pc'[p] = "free" /\ cur'[p] = cur[p] /\ ~Locked(cur[p])
      BY <2>1 DEF FailureLock
    <3> QED
      BY <1>4, <3>1, StepOthers, LockKept DEF Step
  <2>2. CASE ~FailureLock(p)
    <3>1. CASE Continue(p)
      <4>1. PICK deps \in Resume[cur[p]] : WaitAgain(p, deps)
        BY <3>1 DEF Continue
      <4>2. pc' = [pc EXCEPT ![p] = "continue"] \/ pc' = [pc EXCEPT ![p] = "addDep"]
        BY <4>1 DEF WaitAgain, Goto
      <4>3. pc'[p] \in {"addDep", "continue"}
        BY <4>2
      <4> QED
        BY <1>4, <4>3, StepOthers, LockKept DEF Step
    <3>2. CASE RunReturns(p) \/ RunThrows(p)
      <4>1. pc'[p] = "finish"
        BY <3>2 DEF RunReturns, RunThrows, Goto
      <4> QED
        BY <1>4, <4>1, StepOthers, LockKept DEF Step
    <3>3. CASE OnFailure(p) \/ SetContinue(p)
      <4>1. pc'[p] \in {"failed", "returned"}
        BY <3>3 DEF OnFailure, SetContinue, Goto
      <4> QED
        BY <1>4, <4>1, StepOthers, LockKept DEF Step
    <3> QED
      BY <1>4, <2>2, <3>1, <3>2, <3>3 DEF UserRun
  <2> QED
    BY <2>1, <2>2
<1>5. ASSUME NEW p \in Thread, OnFinish(p) PROVE LockInv'
  <2>1. /\ pc'[p] \in {"free", "enqueue", "onCancel"} /\ cur'[p] = cur[p]
        /\ ~Locked(cur[p])
    BY <1>5 DEF OnFinish, FinishCompleted, FinishContinue, FinishCanceled
  <2> QED
    BY <1>5, <2>1, StepOthers, LockKept DEF Step
<1>6. ASSUME NEW p \in Thread, FreeOutputChunks(p) PROVE LockInv'
  <2>1. \/ pc'[p] \in {"idle", "returned"}
        \/ /\ pc[p] \in {"free", "clear"} /\ pc'[p] \in {"free", "clear"}
           /\ cur'[p] = cur[p]
    BY <1>6 DEF FreeOutputChunks, CountCanceled, ClearBit, FreeDone, Leave
  <2> QED
    BY <1>6, <2>1, StepOthers, LockKept DEF Step
<1>7. ASSUME NEW p \in Thread, NEW t \in Task, Run(p, t) \/ Inspect(p, t)
      PROVE  LockInv'
  <2>1. pc'[p] \in {"addDep", "bits"}
    BY <1>7 DEF Run, Inspect
  <2> QED
    BY <1>7, <2>1, StepOthers, LockKept
<1>8. CASE UNCHANGED threadVars
  BY <1>8 DEF threadVars, LockInv
<1> QED
  BY <1>1, <1>2, <1>3, <1>4, <1>5, <1>6, <1>7, <1>8
  DEF Next, Terminated, Step, Cancel, vars

-----------------------------------------------------------------------------
(* Late registrations                                                      *)

\* Who may finish a task, and where that leaves the thread.
LEMMA WhoFinishes ==
    ASSUME TypeInv, [Next]_vars, NEW t \in Task,
           status[t] \notin Finished, status'[t] \in Finished
    PROVE  \E p \in Thread :
              /\ cur[p] = t /\ cur'[p] = t
              /\ \/ pc[p] = "onCancel" /\ pc'[p] = "free"
                 \/ pc[p] = "finish" /\ pc'[p] = "free" /\ ~Locked(t)
                 \/ pc[p] = "run" /\ pc'[p] = "failed"
<1> USE DEF TypeInv, TypeOK, Goto, SetStatus, Finished
<1>1. ASSUME NEW p \in Thread, AddDependencies(p) PROVE status'[t] \notin Finished
  BY <1>1
  DEF AddDependencies, NoMoreDeps, NoBitLeft, LockDep, Register, NoChunkLeft,
      SkipDep, RefuseDep, Mask, GiveUp, SetCancellation, Canceling, taskVars
<1>2. ASSUME NEW p \in Thread, InsertTask(p) PROVE status'[t] \notin Finished
  BY <1>2 DEF InsertTask, Enqueue, AddToQueue, taskVars
<1>3. ASSUME NEW p \in Thread, OnCancel(p) \/ OnFailure(p) \/ FinishCompleted(p)
      PROVE  /\ cur[p] = t /\ cur'[p] = t
             /\ \/ pc[p] = "onCancel" /\ pc'[p] = "free"
                \/ pc[p] = "finish" /\ pc'[p] = "free" /\ ~Locked(t)
                \/ pc[p] = "run" /\ pc'[p] = "failed"
  BY <1>3 DEF OnCancel, OnFailure, FinishCompleted
<1>4. ASSUME NEW p \in Thread,
             NotReady(p) \/ Remove(p) \/ Start(p) \/ StartCanceled(p) \/ CancelTask(p)
      PROVE  status'[t] \notin Finished
  BY <1>4
  DEF NotReady, Remove, Start, StartCanceled, CancelTask, SetCancellation,
      Canceling, taskVars
<1>5. ASSUME NEW p \in Thread, UserRun(p), ~OnFailure(p)
      PROVE  status'[t] \notin Finished
  BY <1>5
  DEF UserRun, RunReturns, RunThrows, FailureLock, Continue, SetContinue,
      Continuing, SetCancellation, Canceling, taskVars
<1>6. ASSUME NEW p \in Thread,
             FinishContinue(p) \/ FinishCanceled(p) \/ FreeOutputChunks(p)
      PROVE  status'[t] \notin Finished
  BY <1>6
  DEF FinishContinue, FinishCanceled, FreeOutputChunks, CountCanceled, ClearBit,
      FreeDone, taskVars
<1>7. ASSUME NEW p \in Thread, NEW u \in Task, Run(p, u) \/ Inspect(p, u)
      PROVE  status'[t] \notin Finished
  BY <1>7 DEF Run, Inspect, taskVars
<1>8. ASSUME NEW u \in Task, Cancel(u) PROVE status'[t] \notin Finished
  BY <1>8 DEF Cancel, SetCancellation, Canceling
<1>9. CASE UNCHANGED vars
  BY <1>9 DEF vars, taskVars
<1> QED
  BY <1>1, <1>2, <1>3, <1>4, <1>5, <1>6, <1>7, <1>8, <1>9
  DEF Next, Terminated, Step, RemoveTask, OnFinish, UserRun

\* Where a thread that releases an output may go.
LEMMA ReleasingKept ==
    ASSUME TypeInv, [Next]_vars, NEW q \in Thread,
           pc[q] \in {"failed", "free", "clear"}
    PROVE  \/ pc'[q] \in {"failed", "free", "clear"} /\ cur'[q] = cur[q]
           \/ pc[q] = "free" /\ output[cur[q]] = <<>> /\ output' = output
<1> USE DEF TypeInv, TypeOK, Goto
<1>1. ASSUME NEW p \in Thread, p # q,
             Step(p) \/ \E t \in Task : Run(p, t) \/ Inspect(p, t)
      PROVE  pc'[q] = pc[q] /\ cur'[q] = cur[q]
  BY <1>1, StepOthers DEF Others
<1>2. CASE Step(q)
  <2>1. FailureLock(q) \/ CountCanceled(q) \/ ClearBit(q) \/ FreeDone(q)
    BY <1>2
    DEF Step, AddDependencies, NoMoreDeps, NoBitLeft, LockDep, Register,
        NoChunkLeft, SkipDep, RefuseDep, Mask, InsertTask, Enqueue, AddToQueue,
        RemoveTask, NotReady, Remove, Start, StartCanceled, CancelTask, OnCancel,
        UserRun, RunReturns, RunThrows, OnFailure, Continue, SetContinue,
        OnFinish, FinishCompleted, FinishContinue, FinishCanceled,
        FreeOutputChunks
  <2> QED
    BY <2>1 DEF FailureLock, CountCanceled, ClearBit, FreeDone, taskVars, waiting
<1>3. ASSUME NEW t \in Task PROVE ~Run(q, t) /\ ~Inspect(q, t)
  BY DEF Run, Inspect
<1>4. CASE UNCHANGED threadVars
  BY <1>4 DEF threadVars
<1> QED
  BY <1>1, <1>2, <1>3, <1>4 DEF Next, Terminated, Cancel, vars

\* The output of a task grows only in Register().
LEMMA OutputGrows ==
    ASSUME TypeInv, [Next]_vars, NEW d \in Task,
           output[d] = <<>>, output'[d] # <<>>
    PROVE  \E p \in Thread :
              /\ Register(p) /\ Head(todo[p]).on = d
              /\ UNCHANGED status
<1> USE DEF TypeInv, TypeOK
<1>1. ASSUME NEW p \in Thread, Step(p), ~Register(p) PROVE output'[d] = <<>>
  <2>1. CASE ClearBit(p)
    BY <2>1 DEF ClearBit
  <2>2. CASE ~ClearBit(p)
    BY <1>1, <2>2
    DEF Step, AddDependencies, NoMoreDeps, NoBitLeft, LockDep,
        NoChunkLeft, SkipDep, RefuseDep, Mask, InsertTask, Enqueue, AddToQueue,
        RemoveTask, NotReady, Remove, Start, StartCanceled, CancelTask, OnCancel,
        UserRun, RunReturns, RunThrows, OnFailure, FailureLock, Continue,
        SetContinue, OnFinish, FinishCompleted, FinishContinue, FinishCanceled,
        FreeOutputChunks, CountCanceled, FreeDone, taskVars, waiting
  <2> QED
    BY <2>1, <2>2
<1>2. ASSUME NEW p \in Thread, Register(p)
      PROVE  Head(todo[p]).on = d /\ UNCHANGED status
  BY <1>2 DEF Register
<1>3. ASSUME NEW p \in Thread, NEW t \in Task, Run(p, t) \/ Inspect(p, t)
      PROVE  output' = output
  BY <1>3 DEF Run, Inspect, taskVars, waiting
<1>4. ASSUME NEW t \in Task, Cancel(t) PROVE output' = output
  BY <1>4 DEF Cancel, waiting
<1>5. CASE UNCHANGED vars
  BY <1>5 DEF vars, taskVars, waiting
<1> QED
  BY <1>1, <1>2, <1>3, <1>4, <1>5 DEF Next, Terminated

\* Nobody is registered too late.
LEMMA NoLateStep ==
    ASSUME TypeInv, LateInv, [Next]_vars
    PROVE  NoLateEntry'
<1> SUFFICES ASSUME NEW d \in Task, status'[d] \in Finished, output'[d] # <<>>
             PROVE  Releasing(d)'
  BY DEF NoLateEntry
<1>1. CASE status[d] \notin Finished
  BY <1>1, WhoFinishes DEF Releasing
<1>2. CASE status[d] \in Finished /\ output[d] # <<>>
  <2>1. PICK q \in Thread : cur[q] = d /\ pc[q] \in {"failed", "free", "clear"}
    BY <1>2 DEF LateInv, NoLateEntry, Releasing
  <2> QED
    BY <1>2, <2>1, ReleasingKept DEF Releasing
<1>3. CASE status[d] \in Finished /\ output[d] = <<>>
  <2>1. PICK p \in Thread : Register(p) /\ Head(todo[p]).on = d
    BY <1>3, OutputGrows
  <2>2. PICK q \in Thread : pc[q] = "failed" /\ cur[q] = d
    BY <1>3, <2>1 DEF Register, LateInv, SeenInv
  <2> QED
    BY <1>3, <2>2, ReleasingKept DEF Releasing
<1> QED
  BY <1>1, <1>2, <1>3

\* Only who is at "addDep" gets to "register", and reads the status.
LEMMA WhoRegisters ==
    ASSUME TypeInv, [Next]_vars, NEW p \in Thread, pc'[p] = "register"
    PROVE  \/ /\ pc[p] = "register" /\ todo'[p] = todo[p]
              /\ depStatus'[p] = depStatus[p]
           \/ /\ todo'[p] = todo[p] /\ depStatus'[p] = status[Head(todo[p]).on]
              /\ UNCHANGED status
<1> USE DEF TypeInv, TypeOK, Goto
<1>1. ASSUME NEW q \in Thread, q # p,
             Step(q) \/ \E t \in Task : Run(q, t) \/ Inspect(q, t)
      PROVE  /\ pc[p] = "register" /\ todo'[p] = todo[p]
             /\ depStatus'[p] = depStatus[p]
  BY <1>1, StepOthers DEF Others
<1>2. CASE LockDep(p)
  BY <1>2 DEF LockDep, taskVars
<1>3. CASE Step(p) /\ ~LockDep(p)
  <2>1. CASE AddDependencies(p)
    BY <1>3, <2>1
    DEF AddDependencies, NoMoreDeps, NoBitLeft, Register, NoChunkLeft,
        SkipDep, RefuseDep, Mask, GiveUp, NextDep
  <2>2. CASE InsertTask(p) \/ RemoveTask(p)
    BY <2>2
    DEF InsertTask, Enqueue, AddToQueue, RemoveTask, NotReady, Remove, Start,
        StartCanceled, CancelTask, OnCancel, Leave
  <2>3. CASE UserRun(p) \/ OnFinish(p)
    BY <2>3
    DEF UserRun, RunReturns, RunThrows, OnFailure, FailureLock, Continue,
        WaitAgain, SetContinue, OnFinish, FinishCompleted, FinishContinue,
        FinishCanceled
  <2>4. CASE FreeOutputChunks(p)
    BY <2>4 DEF FreeOutputChunks, CountCanceled, ClearBit, FreeDone, Leave
  <2> QED
    BY <1>3, <2>1, <2>2, <2>3, <2>4 DEF Step
<1>4. ASSUME NEW t \in Task, Run(p, t) \/ Inspect(p, t) PROVE FALSE
  BY <1>4 DEF Run, Inspect
<1>5. CASE UNCHANGED threadVars
  BY <1>5 DEF threadVars, locals
<1> QED
  BY <1>1, <1>2, <1>3, <1>4, <1>5 DEF Next, Terminated, Cancel, vars

LEMMA SeenStep ==
    ASSUME TypeInv, LockInv, LateInv, [Next]_vars
    PROVE  SeenInv'
<1> SUFFICES ASSUME NEW p \in Thread, pc'[p] = "register",
                    MustWait(depStatus'[p]),
                    status'[Head(todo'[p]).on] \in Finished
             PROVE  \E q \in Thread : pc'[q] = "failed" /\ cur'[q] = Head(todo'[p]).on
  BY DEF SeenInv, MustWait
<1> DEFINE d == Head(todo[p]).on
<1>1. /\ pc[p] = "register" /\ todo'[p] = todo[p]
      /\ depStatus'[p] = depStatus[p]
  BY WhoRegisters DEF MustWait
<1>2. d \in Task
  BY <1>1, DependencyList DEF TypeInv, TypeOK, Dependency
<1>3. CASE status[d] \notin Finished
  <2>1. PICK q \in Thread :
              /\ cur[q] = d /\ cur'[q] = d
              /\ \/ pc[q] = "onCancel" /\ pc'[q] = "free"
                 \/ pc[q] = "finish" /\ pc'[q] = "free" /\ ~Locked(d)
                 \/ pc[q] = "run" /\ pc'[q] = "failed"
    BY <1>1, <1>2, <1>3, WhoFinishes
  <2>2. pc[q] # "onCancel" /\ Locked(d)
    BY <1>1, <2>1 DEF LockInv, Locked
  <2> QED
    BY <1>1, <2>1, <2>2
<1>4. CASE status[d] \in Finished
  <2>1. PICK q \in Thread : pc[q] = "failed" /\ cur[q] = d
    BY <1>1, <1>4 DEF LateInv, SeenInv
  <2>2. pc'[q] \in {"failed", "free", "clear"} /\ cur'[q] = d
    BY <2>1, ReleasingKept
  <2>3. pc'[q] \notin {"free", "clear"}
    BY <1>1, <2>2, LockStep DEF LockInv
  <2> QED
    BY <1>1, <2>2, <2>3
<1> QED
  BY <1>3, <1>4

-----------------------------------------------------------------------------
(* Every bit that is set is backed by an entry                             *)

\* No bit is set and no entry goes, and a thread that adds dependencies goes on
\* doing so, unless its task is dead.
LEMMA SourceKept ==
    ASSUME TypeInv, SourceInv, [Next]_vars, NEW p \in Thread, Others(p),
           output' = output, submitted' = submitted,
           \A t \in Task : waitBits'[t] \subseteq waitBits[t],
           pc[p] \in Adding => \/ /\ pc'[p] \in Adding /\ cur'[p] = cur[p]
                                  /\ bitIndex'[p] = bitIndex[p]
                               \/ cur'[p] = cur[p] /\ Dead(cur[p])'
    PROVE  SourceInv'
<1> SUFFICES ASSUME NEW t \in submitted, ~Dead(t)', NEW k \in waitBits'[t]
             PROVE  \/ Backed(t, k)'
                    \/ \E q \in Thread : /\ pc'[q] \in Adding /\ cur'[q] = t
                                        /\ k >= bitIndex'[q]
  BY DEF SourceInv
<1>1. t \in Task /\ ~Dead(t) /\ k \in waitBits[t]
  BY StatusGrows DEF TypeInv, TypeOK
<1>2. CASE Backed(t, k)
  BY <1>2 DEF Backed
<1>3. CASE ~Backed(t, k)
  <2>1. PICK q \in Thread : pc[q] \in Adding /\ cur[q] = t /\ k >= bitIndex[q]
    BY <1>1, <1>3 DEF SourceInv
  <2>2. CASE q = p
    BY <2>1, <2>2
  <2>3. CASE q # p
    BY <2>1, <2>3 DEF Others
  <2> QED
    BY <2>2, <2>3
<1> QED
  BY <1>2, <1>3

LEMMA SourceStep ==
    ASSUME TypeInv, OwnerInv, WaitInv, SourceInv, [Next]_vars
    PROVE  SourceInv'
<1> USE DEF waiting, taskVars, history, Adding
<1>1. ASSUME NEW p \in Thread, Register(p) PROVE SourceInv'
  <2> DEFINE d == Head(todo[p]).on
             e == [task |-> cur[p], bit |-> bitIndex[p], strong |-> Head(todo[p]).strong]
  <2>1. /\ pc[p] = "register" /\ cur[p] \in Task /\ d \in Task
        /\ output[d] \in Seq(Entry) /\ e \in Entry /\ bitIndex[p] \in AllBits
    BY <1>1, DependencyList
    DEF Register, TypeInv, TypeOK, Dependency, Entry, AllBits
  <2>2. /\ output'[d] = Append(output[d], e)
        /\ \A x \in Task \ {d} : output'[x] = output[x]
        /\ UNCHANGED <<status, waitBits, cur, submitted>>
        /\ pc'[p] = "addDep" /\ bitIndex'[p] = bitIndex[p] + 1
    BY <1>1, <2>1 DEF Register, NextDep, Goto, TypeInv, TypeOK
  <2>3. e.task = cur[p] /\ e.bit = bitIndex[p]
    OBVIOUS
  <2> HIDE DEF e
  <2>4. ASSUME NEW t, NEW k, t = cur[p], k = bitIndex[p] PROVE Backed(t, k)'
    <3>1. Len(output[d]) + 1 \in DOMAIN Append(output[d], e)
          /\ Append(output[d], e)[Len(output[d]) + 1] = e
      BY <2>1, AppendAt
    <3>2. Len(output[d]) + 1 \in DOMAIN output'[d] /\ output'[d][Len(output[d]) + 1] = e
      BY <2>2, <3>1
    <3> QED
      BY <2>1, <2>2, <2>3, <2>4, <3>2 DEF Backed
  <2>5. ASSUME NEW t, NEW k, Backed(t, k) PROVE Backed(t, k)'
    <3>0. PICK x \in Task : \E i \in DOMAIN output[x] :
             output[x][i].task = t /\ output[x][i].bit = k
      BY <2>5 DEF Backed
    <3>1. PICK i \in DOMAIN output[x] :
             output[x][i].task = t /\ output[x][i].bit = k
      BY <3>0
    <3>2. i \in DOMAIN output'[x] /\ output'[x][i] = output[x][i]
      <4>1. CASE x = d
        BY <2>1, <2>2, <3>1, <4>1, AppendAt
      <4>2. CASE x # d
        BY <2>2, <3>1, <4>2
      <4> QED
        BY <4>1, <4>2
    <3> QED
      BY <3>1, <3>2 DEF Backed
  <2>6. ASSUME NEW t \in submitted, ~Dead(t), NEW k \in waitBits[t], ~Backed(t, k)'
        PROVE  \E q \in Thread : /\ pc'[q] \in Adding /\ cur'[q] = t
                                /\ k >= bitIndex'[q]
    <3>1. PICK q \in Thread : pc[q] \in Adding /\ cur[q] = t /\ k >= bitIndex[q]
      BY <2>5, <2>6 DEF SourceInv
    <3>2. CASE q # p
      BY <1>1, <3>1, <3>2, StepOthers DEF Others, Step, AddDependencies
    <3>3. CASE q = p
      <4>1. k # bitIndex[p] /\ k \in AllBits
        BY <2>4, <2>6, <3>1, <3>3 DEF TypeInv, TypeOK
      <4>2. k >= bitIndex[p] + 1
        BY <2>1, <3>1, <3>3, <4>1 DEF AllBits
      <4> QED
        BY <2>2, <3>1, <3>3, <4>2
    <3> QED
      BY <3>2, <3>3
  <2> QED
    BY <2>2, <2>6 DEF SourceInv, Dead
<1>2. ASSUME NEW p \in Thread, Mask(p) PROVE SourceInv'
  <2>1. /\ pc[p] = "mask" /\ cur[p] \in Task
        /\ waitBits'[cur[p]] = waitBits[cur[p]] \intersect MaskOf(bitIndex[p])
        /\ \A t \in Task \ {cur[p]} : waitBits'[t] = waitBits[t]
        /\ UNCHANGED <<status, output, submitted>>
    BY <1>2 DEF Mask, TypeInv, TypeOK
  <2> SUFFICES ASSUME NEW t \in submitted, ~Dead(t), NEW k \in waitBits'[t],
                      ~Backed(t, k)
               PROVE  \E q \in Thread : /\ pc'[q] \in Adding /\ cur'[q] = t
                                       /\ k >= bitIndex'[q]
    BY <2>1 DEF SourceInv, Dead, Backed
  <2>2. k \in waitBits[t] /\ k \in AllBits
    BY <2>1 DEF TypeInv, TypeOK
  <2>3. PICK q \in Thread : pc[q] \in Adding /\ cur[q] = t /\ k >= bitIndex[q]
    BY <2>2 DEF SourceInv
  <2>4. CASE q # p
    BY <1>2, <2>3, <2>4, StepOthers DEF Others, Step, AddDependencies
  <2>5. CASE q = p
    <3>1. k \in MaskOf(bitIndex[p])
      BY <2>1, <2>3, <2>5
    <3>2. FALSE
      BY <2>2, <2>3, <2>5, <3>1, SizeAssumption DEF MaskOf, AllBits, TypeInv, TypeOK
    <3> QED
      BY <3>2
  <2> QED
    BY <2>4, <2>5
<1>3. ASSUME NEW p \in Thread, AddDependencies(p), ~Register(p), ~Mask(p)
      PROVE  SourceInv'
  <2>1. UNCHANGED <<output, submitted, waitBits>>
    BY <1>3
    DEF AddDependencies, NoMoreDeps, NoBitLeft, LockDep, NoChunkLeft, SkipDep,
        RefuseDep, GiveUp
  <2>2. \/ /\ pc'[p] \in Adding /\ cur'[p] = cur[p] /\ bitIndex'[p] = bitIndex[p]
        \/ cur'[p] = cur[p] /\ Dead(cur[p])'
    <3>1. CASE NoBitLeft(p) \/ NoChunkLeft(p) \/ RefuseDep(p)
      BY <3>1
      DEF NoBitLeft, NoChunkLeft, RefuseDep, GiveUp, SetCancellation, SetStatus,
          Canceling, Dead, TypeInv, TypeOK
    <3>2. CASE NoMoreDeps(p) \/ LockDep(p) \/ SkipDep(p)
      BY <3>2
      DEF NoMoreDeps, LockDep, SkipDep, NextDep, Goto, locals, TypeInv, TypeOK
    <3> QED
      BY <1>3, <3>1, <3>2 DEF AddDependencies
  <2> HIDE DEF Adding
  <2> QED
    BY <1>3, <2>1, <2>2, StepOthers, SourceKept DEF Step
<1>4. ASSUME NEW p \in Thread, Continue(p) PROVE SourceInv'
  <2>1. PICK deps \in Resume[cur[p]] : WaitAgain(p, deps)
    BY <1>4 DEF Continue
  <2>2. /\ pc[p] = "run" /\ cur[p] \in Task
        /\ UNCHANGED <<status, output, cur, submitted>>
    BY <1>4 DEF Continue, TypeInv, TypeOK
  <2>3. CASE deps = <<>>
    <3>1. waitBits' = waitBits
      BY <2>1, <2>3 DEF WaitAgain
    <3> QED
      BY <1>4, <2>2, <3>1, StepOthers, SourceKept DEF Step, UserRun
  <2>4. CASE deps # <<>>
    <3>1. /\ \A t \in Task \ {cur[p]} : waitBits'[t] = waitBits[t]
          /\ pc'[p] = "addDep" /\ cur'[p] = cur[p] /\ bitIndex'[p] = 0
          /\ waitBits'[cur[p]] = AllBits
      BY <2>1, <2>2, <2>4
      DEF WaitAgain, Rearmed, Locals, Goto, TypeInv, TypeOK
    <3> SUFFICES ASSUME NEW t \in submitted, ~Dead(t), NEW k \in waitBits'[t],
                        ~Backed(t, k)
                 PROVE  \E q \in Thread : /\ pc'[q] \in Adding /\ cur'[q] = t
                                         /\ k >= bitIndex'[q]
      BY <2>2 DEF SourceInv, Dead, Backed
    <3>2. CASE t = cur[p]
      BY <3>1, <3>2, SizeAssumption DEF AllBits
    <3>3. CASE t # cur[p]
      <4>1. k \in waitBits[t]
        BY <3>1, <3>3 DEF TypeInv, TypeOK
      <4>2. PICK q \in Thread : pc[q] \in Adding /\ cur[q] = t /\ k >= bitIndex[q]
        BY <4>1 DEF SourceInv
      <4>3. q # p
        BY <2>2, <4>2
      <4> QED
        BY <1>4, <4>2, <4>3, StepOthers DEF Others, Step, UserRun
    <3> QED
      BY <3>2, <3>3
  <2> QED
    BY <2>3, <2>4
<1>5. ASSUME NEW p \in Thread,
             InsertTask(p) \/ RemoveTask(p) \/ UserRun(p) \/ OnFinish(p),
             ~Continue(p)
      PROVE  SourceInv'
  <2>1. UNCHANGED <<output, submitted, waitBits>>
    BY <1>5
    DEF InsertTask, Enqueue, AddToQueue, RemoveTask, NotReady, Remove, Start,
        StartCanceled, CancelTask, OnCancel, UserRun, RunReturns, RunThrows,
        OnFailure, FailureLock, SetContinue, OnFinish, FinishCompleted,
        FinishContinue, FinishCanceled
  <2>2. pc[p] \notin Adding
    BY <1>5
    DEF InsertTask, Enqueue, AddToQueue, RemoveTask, NotReady, Remove, Start,
        StartCanceled, CancelTask, OnCancel, UserRun, RunReturns, RunThrows,
        OnFailure, FailureLock, SetContinue, OnFinish, FinishCompleted,
        FinishContinue, FinishCanceled
  <2> HIDE DEF Adding
  <2> QED
    BY <1>5, <2>1, <2>2, StepOthers, SourceKept DEF Step
<1>6. ASSUME NEW p \in Thread, CountCanceled(p) \/ FreeDone(p) PROVE SourceInv'
  <2>1. UNCHANGED <<output, submitted, waitBits>> /\ pc[p] \notin Adding
    BY <1>6 DEF CountCanceled, FreeDone
  <2> HIDE DEF Adding
  <2> QED
    BY <1>6, <2>1, StepOthers, SourceKept DEF Step, FreeOutputChunks
<1>7. ASSUME NEW p \in Thread, ClearBit(p) PROVE SourceInv'
  <2> DEFINE d == cur[p]
             e == Head(output[d])
  <2>1. /\ d \in Task /\ output[d] \in Seq(Entry) /\ output[d] # <<>>
        /\ output'[d] = Tail(output[d])
        /\ \A x \in Task \ {d} : output'[x] = output[x]
        /\ UNCHANGED <<status, submitted>>
    BY <1>7 DEF ClearBit, TypeInv, TypeOK
  <2>2. /\ 1 \in DOMAIN output[d] /\ output[d][1] = e
        /\ e.task \in Task /\ e.bit \in AllBits
    BY <2>1, TailAt, EntryAt
  <2>3. \A t \in Task : waitBits'[t] =
           IF t = e.task THEN waitBits[t] \ {e.bit} ELSE waitBits[t]
    BY <1>7, <2>2 DEF ClearBit, TypeInv, TypeOK
  <2> SUFFICES ASSUME NEW t \in submitted, ~Dead(t), NEW k \in waitBits'[t]
               PROVE  \/ Backed(t, k)'
                      \/ \E q \in Thread : /\ pc'[q] \in Adding /\ cur'[q] = t
                                          /\ k >= bitIndex'[q]
    BY <2>1 DEF SourceInv, Dead
  <2>4. t \in Task /\ k \in waitBits[t] /\ ~(t = e.task /\ k = e.bit)
    BY <2>3 DEF TypeInv, TypeOK
  <2>5. CASE Backed(t, k)
    <3>0. PICK x \in Task : \E i \in DOMAIN output[x] :
             output[x][i].task = t /\ output[x][i].bit = k
      BY <2>5 DEF Backed
    <3>1. PICK i \in DOMAIN output[x] :
             output[x][i].task = t /\ output[x][i].bit = k
      BY <3>0
    <3>2. CASE x = d
      <4>1. i # 1
        BY <2>2, <2>4, <3>1, <3>2
      <4>2. i - 1 \in DOMAIN Tail(output[d]) /\ Tail(output[d])[i - 1] = output[d][i]
        BY <2>1, <3>1, <3>2, <4>1
      <4> QED
        BY <2>1, <3>1, <3>2, <4>2 DEF Backed
    <3>3. CASE x # d
      BY <2>1, <3>1, <3>3 DEF Backed
    <3> QED
      BY <3>2, <3>3
  <2>6. CASE ~Backed(t, k)
    <3>1. PICK q \in Thread : pc[q] \in Adding /\ cur[q] = t /\ k >= bitIndex[q]
      BY <2>4, <2>6 DEF SourceInv
    <3>2. q # p
      BY <1>7, <3>1 DEF ClearBit
    <3> QED
      BY <1>7, <3>1, <3>2, StepOthers DEF Others, Step, FreeOutputChunks
  <2> QED
    BY <2>5, <2>6
<1>8. ASSUME NEW p \in Thread, NEW u \in Task, Run(p, u) PROVE SourceInv'
  <2>1. /\ pc[p] = "idle" /\ pc'[p] = "addDep" /\ cur'[p] = u /\ bitIndex'[p] = 0
        /\ submitted' = submitted \union {u}
        /\ UNCHANGED <<status, output, waitBits>>
    BY <1>8 DEF Run, Locals, Goto, TypeInv, TypeOK
  <2> SUFFICES ASSUME NEW t \in submitted', ~Dead(t), NEW k \in waitBits[t],
                      ~Backed(t, k)
               PROVE  \E q \in Thread : /\ pc'[q] \in Adding /\ cur'[q] = t
                                       /\ k >= bitIndex'[q]
    BY <2>1 DEF SourceInv, Dead, Backed
  <2>2. CASE t = u
    <3>1. k \in AllBits
      BY <2>2 DEF TypeInv, TypeOK
    <3> QED
      BY <2>1, <2>2, <3>1, SizeAssumption DEF AllBits
  <2>3. CASE t # u
    <3>1. PICK q \in Thread : pc[q] \in Adding /\ cur[q] = t /\ k >= bitIndex[q]
      BY <2>1, <2>3 DEF SourceInv
    <3>2. q # p
      BY <2>1, <3>1
    <3> QED
      BY <1>8, <3>1, <3>2, StepOthers DEF Others
  <2> QED
    BY <2>2, <2>3
<1>9. ASSUME NEW p \in Thread, NEW u \in Task, Inspect(p, u) PROVE SourceInv'
  <2>1. UNCHANGED <<output, submitted, waitBits>> /\ pc[p] \notin Adding
    BY <1>9 DEF Inspect
  <2> HIDE DEF Adding
  <2> QED
    BY <1>9, <2>1, StepOthers, SourceKept
<1>10. CASE UNCHANGED <<threadVars, waiting, submitted>>
  <2>1. \A t \in Task : Dead(t) => Dead(t)'
    BY StatusGrows
  <2>2. /\ UNCHANGED <<pc, cur, bitIndex, waitBits, output, submitted>>
        /\ submitted \subseteq Task
    BY <1>10 DEF threadVars, locals, TypeInv, TypeOK
  <2> SUFFICES ASSUME NEW t \in submitted, ~Dead(t), NEW k \in waitBits[t]
               PROVE  \/ Backed(t, k)'
                      \/ \E q \in Thread : /\ pc'[q] \in Adding /\ cur'[q] = t
                                          /\ k >= bitIndex'[q]
    BY <2>1, <2>2 DEF SourceInv
  <2> QED
    BY <2>2 DEF SourceInv, Backed
<1> QED
  BY <1>1, <1>2, <1>3, <1>4, <1>5, <1>6, <1>7, <1>8, <1>9, <1>10
  DEF Next, Terminated, Step, UserRun, FreeOutputChunks, Cancel, vars

-----------------------------------------------------------------------------
(* Cancellation for a reason                                               *)

LEMMA ReasonsGrow ==
    ASSUME TypeInv, [Next]_vars
    PROVE  asked \subseteq asked' /\ \A t \in Task : inputs[t] \subseteq inputs'[t]
<1> USE DEF TypeInv, TypeOK, history
<1>1. ASSUME NEW p \in Thread, AddDependencies(p)
      PROVE  asked \subseteq asked' /\ \A t \in Task : inputs[t] \subseteq inputs'[t]
  <2>1. asked \subseteq asked'
    BY <1>1
    DEF AddDependencies, NoMoreDeps, NoBitLeft, LockDep, Register, NoChunkLeft,
        SkipDep, RefuseDep, Mask, GiveUp
  <2>2. \/ inputs' = inputs
        \/ inputs' = [inputs EXCEPT ![cur[p]] = @ \union {Head(todo[p])}]
    BY <1>1
    DEF AddDependencies, NoMoreDeps, NoBitLeft, LockDep, Register, NoChunkLeft,
        SkipDep, RefuseDep, Mask
  <2>3. inputs \in [Task -> SUBSET Dependency]
    OBVIOUS
  <2>4. \A t \in Task : inputs[t] \subseteq inputs'[t]
    <3> HIDE DEF TypeInv, TypeOK, history
    <3> SUFFICES ASSUME NEW t \in Task PROVE inputs[t] \subseteq inputs'[t]
      OBVIOUS
    <3>1. CASE inputs' = inputs
      BY <3>1
    <3>2. CASE inputs' = [inputs EXCEPT ![cur[p]] = @ \union {Head(todo[p])}]
      <4>1. inputs'[t] = IF t = cur[p] THEN inputs[t] \union {Head(todo[p])}
                                       ELSE inputs[t]
        BY <3>2, <2>3
      <4> QED
        BY <4>1
    <3> QED
      BY <2>2, <3>1, <3>2
  <2> QED
    BY <2>1, <2>4
<1>2. ASSUME NEW p \in Thread, Step(p), ~AddDependencies(p)
      PROVE  asked \subseteq asked' /\ inputs' = inputs
  BY <1>2
  DEF Step, InsertTask, Enqueue, AddToQueue, RemoveTask, NotReady, Remove, Start,
      StartCanceled, CancelTask, OnCancel, UserRun, RunReturns, RunThrows,
      OnFailure, FailureLock, Continue, SetContinue, OnFinish, FinishCompleted,
      FinishContinue, FinishCanceled, FreeOutputChunks, CountCanceled, ClearBit,
      FreeDone
<1>3. ASSUME NEW p \in Thread, NEW t \in Task, Run(p, t) \/ Inspect(p, t)
      PROVE  UNCHANGED <<asked, inputs>>
  BY <1>3 DEF Run, Inspect
<1>4. ASSUME NEW t \in Task, Cancel(t) PROVE asked \subseteq asked' /\ inputs' = inputs
  BY <1>4 DEF Cancel
<1>5. CASE UNCHANGED vars
  BY <1>5 DEF vars
<1> QED
  BY <1>1, <1>2, <1>3, <1>4, <1>5 DEF Next, Terminated

\* A reason stays one: an interrupted task keeps its status.
LEMMA ReasonKept ==
    ASSUME IInv, [Next]_vars, NEW t \in Task, Reason(t)
    PROVE  Reason(t)'
<1>1. asked \subseteq asked' /\ inputs[t] \subseteq inputs'[t]
  BY ReasonsGrow DEF IInv
<1>2. ASSUME NEW d \in inputs[t], status[d.on] \in Interrupted
      PROVE  status'[d.on] \in Interrupted
  <2>1. d.on \in Task
    BY DEF IInv, TypeInv, TypeOK, Dependency
  <2> QED
    BY <1>2, <2>1, FinishedKept DEF Interrupted, Finished
<1> QED
  BY <1>1, <1>2 DEF Reason

\* Who may bring a task into cancellation.
LEMMA WhoCancels ==
    ASSUME TypeInv, [Next]_vars, NEW t \in Task,
           status[t] \notin {"Cancellation", "Canceled"},
           status'[t] \in {"Cancellation", "Canceled"}
    PROVE  \/ t \in asked'
           \/ \E p \in Thread : cur[p] = t /\ RefuseDep(p)
           \/ \E p \in Thread : cur[p] = t /\ pc[p] \in {"cancel", "onCancel"}
<1> USE DEF TypeInv, TypeOK, SetStatus, SetCancellation, taskVars, history
<1>1. ASSUME NEW p \in Thread, AddDependencies(p), ~RefuseDep(p)
      PROVE  t \in asked'
  BY <1>1
  DEF AddDependencies, NoMoreDeps, NoBitLeft, LockDep, Register, NoChunkLeft,
      SkipDep, Mask, GiveUp
<1>2. ASSUME NEW p \in Thread, RefuseDep(p) PROVE cur[p] = t
  BY <1>2 DEF RefuseDep, GiveUp
<1>3. ASSUME NEW p \in Thread, InsertTask(p) PROVE FALSE
  BY <1>3 DEF InsertTask, Enqueue, AddToQueue
<1>4. ASSUME NEW p \in Thread, RemoveTask(p)
      PROVE  cur[p] = t /\ pc[p] \in {"cancel", "onCancel"}
  BY <1>4
  DEF RemoveTask, NotReady, Remove, Start, StartCanceled, CancelTask, OnCancel
<1>5. ASSUME NEW p \in Thread, UserRun(p) PROVE t \in asked'
  BY <1>5
  DEF UserRun, RunReturns, RunThrows, OnFailure, FailureLock, Continue,
      SetContinue, Continuing
<1>6. ASSUME NEW p \in Thread, OnFinish(p) \/ FreeOutputChunks(p) PROVE FALSE
  BY <1>6
  DEF OnFinish, FinishCompleted, FinishContinue, FinishCanceled, FreeOutputChunks,
      CountCanceled, ClearBit, FreeDone
<1>7. ASSUME NEW p \in Thread, NEW u \in Task, Run(p, u) \/ Inspect(p, u)
      PROVE  FALSE
  BY <1>7 DEF Run, Inspect
<1>8. ASSUME NEW u \in Task, Cancel(u) PROVE t \in asked'
  BY <1>8 DEF Cancel
<1>9. CASE UNCHANGED vars
  BY <1>9 DEF vars
<1> QED
  BY <1>1, <1>2, <1>3, <1>4, <1>5, <1>6, <1>7, <1>8, <1>9 DEF Next, Terminated, Step

LEMMA CanceledStep ==
    ASSUME IInv, ReasonInv, [Next]_vars
    PROVE  CanceledForReason'
<1> SUFFICES ASSUME NEW t \in Task, status'[t] \in {"Cancellation", "Canceled"}
             PROVE  Reason(t)'
  BY DEF CanceledForReason, Reason
<1>1. CASE status[t] \in {"Cancellation", "Canceled"}
  <2>1. Reason(t)
    BY <1>1 DEF ReasonInv, CanceledForReason, Reason
  <2> QED
    BY <2>1, ReasonKept
<1>2. ASSUME NEW p \in Thread, cur[p] = t, RefuseDep(p) PROVE Reason(t)'
  <2> DEFINE d == Head(todo[p])
  <2>1. d \in inputs'[t] /\ d.strong /\ d.on \in Task
    BY <1>2, DependencyList DEF RefuseDep, IInv, TypeInv, TypeOK, Dependency
  <2>2. status[d.on] \in Interrupted
    BY <1>2 DEF RefuseDep, ReasonInv, CancelingInv, Interrupted, Finished
  <2>3. status'[d.on] = status[d.on]
    BY <2>1, <2>2, FinishedKept DEF Interrupted, Finished
  <2> QED
    BY <2>1, <2>2, <2>3 DEF Reason
<1>3. ASSUME NEW p \in Thread, cur[p] = t, pc[p] \in {"cancel", "onCancel"}
      PROVE  Reason(t)'
  <2>1. Reason(t)
    BY <1>3 DEF ReasonInv, CancelingInv
  <2> QED
    BY <2>1, ReasonKept
<1>4. CASE t \in asked'
  BY <1>4 DEF Reason
<1> QED
  BY <1>1, <1>2, <1>3, <1>4, WhoCancels DEF IInv

LEMMA CountStep ==
    ASSUME IInv, ReasonInv, [Next]_vars
    PROVE  CountInv'
<1> USE DEF waiting, taskVars
<1>1. ASSUME canceledDepsCount' = canceledDepsCount PROVE CountInv'
  BY <1>1, ReasonKept DEF ReasonInv, CountInv
<1>2. ASSUME NEW p \in Thread, CountCanceled(p) PROVE CountInv'
  <2> DEFINE d == cur[p]
             e == Head(output[d])
  <2>1. /\ d \in Task /\ output[d] \in Seq(Entry) /\ output[d] # <<>>
        /\ isCanceled[p] /\ e.strong /\ pc[p] = "free"
        /\ canceledDepsCount' = [canceledDepsCount EXCEPT ![e.task] = @ + 1]
    BY <1>2 DEF CountCanceled, CountsAsCanceled, IInv, TypeInv, TypeOK
  <2>2. 1 \in DOMAIN output[d] /\ output[d][1] = e /\ e.task \in Task
    BY <2>1, TailAt, EntryAt DEF IInv
  <2>3. [on |-> d, strong |-> e.strong] \in inputs[e.task]
    BY <2>1, <2>2 DEF ReasonInv, EntryInv
  <2>4. status[d] \in Interrupted
    BY <2>1 DEF ReasonInv, CancelingInv
  <2>5. Reason(e.task)
    BY <2>1, <2>3, <2>4 DEF Reason
  <2>6. \A t \in Task : canceledDepsCount'[t] > 0 =>
           t = e.task \/ canceledDepsCount[t] > 0
    BY <2>1, <2>2 DEF IInv, TypeInv, TypeOK
  <2>7. \A t \in Task : canceledDepsCount'[t] > 0 => Reason(t)
    BY <2>5, <2>6 DEF ReasonInv, CountInv
  <2> QED
    BY <2>7, ReasonKept DEF CountInv
<1>3. ASSUME NEW p \in Thread, Step(p), ~CountCanceled(p)
      PROVE  canceledDepsCount' = canceledDepsCount
  BY <1>3
  DEF Step, AddDependencies, NoMoreDeps, NoBitLeft, LockDep, Register, NoChunkLeft,
      SkipDep, RefuseDep, GiveUp, Mask, InsertTask, Enqueue, AddToQueue, RemoveTask,
      NotReady, Remove, Start, StartCanceled, CancelTask, OnCancel, UserRun,
      RunReturns, RunThrows, OnFailure, FailureLock, Continue, SetContinue,
      OnFinish, FinishCompleted, FinishContinue, FinishCanceled, FreeOutputChunks,
      ClearBit, FreeDone
<1>4. ASSUME NEW p \in Thread, NEW t \in Task, Run(p, t) \/ Inspect(p, t)
      PROVE  canceledDepsCount' = canceledDepsCount
  BY <1>4 DEF Run, Inspect
<1>5. ASSUME NEW t \in Task, Cancel(t) PROVE canceledDepsCount' = canceledDepsCount
  BY <1>5 DEF Cancel
<1>6. CASE UNCHANGED vars
  BY <1>1, <1>6 DEF vars
<1> QED
  BY <1>1, <1>2, <1>3, <1>4, <1>5, <1>6 DEF Next, Terminated

\* Entries are added as inputs, and go from the front.
LEMMA EntryStep ==
    ASSUME IInv, ReasonInv, [Next]_vars
    PROVE  EntryInv'
<1> USE DEF waiting, taskVars
<1>1. TypeInv /\ \A t \in Task : inputs[t] \subseteq inputs'[t]
  BY ReasonsGrow DEF IInv
<1>2. ASSUME \A d \in Task : \A i \in DOMAIN output'[d] :
                \/ \E j \in DOMAIN output[d] : output'[d][i] = output[d][j]
                \/ [on |-> d, strong |-> output'[d][i].strong]
                      \in inputs'[output'[d][i].task]
      PROVE  EntryInv'
  <2> SUFFICES ASSUME NEW d \in Task, NEW i \in DOMAIN output'[d],
                      NEW j \in DOMAIN output[d], output'[d][i] = output[d][j]
               PROVE  [on |-> d, strong |-> output'[d][i].strong]
                         \in inputs'[output'[d][i].task]
    BY <1>2 DEF EntryInv
  <2>1. output[d][j].task \in Task
    BY <1>1, EntryAt
  <2> QED
    BY <1>1, <2>1 DEF ReasonInv, EntryInv
<1>3. ASSUME NEW p \in Thread, Register(p) PROVE EntryInv'
  <2> DEFINE h == Head(todo[p])
             e == [task |-> cur[p], bit |-> bitIndex[p], strong |-> h.strong]
  <2>1. /\ cur[p] \in Task /\ h \in Dependency
        /\ output[h.on] \in Seq(Entry) /\ e \in Entry /\ h.on \in Task
    BY <1>1, <1>3, DependencyList DEF Register, TypeInv, TypeOK, Dependency, Entry
  <2>2. /\ output'[h.on] = Append(output[h.on], e)
        /\ \A x \in Task \ {h.on} : output'[x] = output[x]
        /\ h \in inputs'[cur[p]]
    BY <1>1, <1>3, <2>1 DEF Register, TypeInv, TypeOK
  <2>3. e.task = cur[p] /\ [on |-> h.on, strong |-> e.strong] = h
    BY <2>1 DEF Dependency
  <2> HIDE DEF e
  <2>4. \A i \in DOMAIN output'[h.on] :
           \/ i \in DOMAIN output[h.on] /\ output'[h.on][i] = output[h.on][i]
           \/ output'[h.on][i] = e
    BY <2>1, <2>2, AppendAt
  <2> QED
    BY <1>2, <2>2, <2>3, <2>4
<1>4. ASSUME NEW p \in Thread, ClearBit(p) PROVE EntryInv'
  <2>1. \A x \in Task : \A i \in DOMAIN output'[x] :
           \E j \in DOMAIN output[x] : output[x][j] = output'[x][i]
    BY <1>4, ClearStep DEF IInv
  <2> QED
    BY <1>2, <2>1
<1>5. ASSUME output' = output PROVE EntryInv'
  BY <1>2, <1>5
<1>6. ASSUME NEW p \in Thread, Step(p), ~Register(p), ~ClearBit(p)
      PROVE  output' = output
  BY <1>6
  DEF Step, AddDependencies, NoMoreDeps, NoBitLeft, LockDep, NoChunkLeft,
      SkipDep, RefuseDep, Mask, InsertTask, Enqueue, AddToQueue, RemoveTask,
      NotReady, Remove, Start, StartCanceled, CancelTask, OnCancel, UserRun,
      RunReturns, RunThrows, OnFailure, FailureLock, Continue, SetContinue,
      OnFinish, FinishCompleted, FinishContinue, FinishCanceled, FreeOutputChunks,
      CountCanceled, FreeDone
<1>7. ASSUME NEW p \in Thread, NEW t \in Task, Run(p, t) \/ Inspect(p, t)
      PROVE  output' = output
  BY <1>7 DEF Run, Inspect
<1>8. ASSUME NEW t \in Task, Cancel(t) PROVE output' = output
  BY <1>8 DEF Cancel
<1>9. CASE UNCHANGED vars
  BY <1>5, <1>9 DEF vars
<1> QED
  BY <1>3, <1>4, <1>5, <1>6, <1>7, <1>8, <1>9 DEF Next, Terminated

\* What the others know stays true.
LEMMA CancelingKept ==
    ASSUME IInv, [Next]_vars, NEW q \in Thread, CancelingInv(q),
           pc'[q] = pc[q], cur'[q] = cur[q], todo'[q] = todo[q],
           depStatus'[q] = depStatus[q], isCanceled'[q] = isCanceled[q]
    PROVE  CancelingInv(q)'
<1>1. CASE pc[q] = "idle"
  BY <1>1 DEF CancelingInv
<1>2. CASE pc[q] # "idle"
  <2>1. cur[q] \in Task
    BY <1>2 DEF IInv, TypeInv, TypeOK
  <2>2. ASSUME Reason(cur[q]) PROVE Reason(cur[q])'
    <3>1. \A t \in Task : Reason(t) => Reason(t)'
      BY ReasonKept
    <3> QED
      BY <2>1, <2>2, <3>1 DEF Reason
  <2>3. status[cur[q]] \in Finished => status'[cur[q]] = status[cur[q]]
    BY <2>1, FinishedKept
  <2>4. pc[q] = "register" /\ depStatus[q] \in Finished
           => status'[Head(todo[q]).on] = depStatus[q]
    <3>1. pc[q] = "register" => Head(todo[q]).on \in Task
      BY DependencyList DEF IInv, TypeInv, TypeOK, Dependency
    <3> QED
      BY <3>1, FinishedKept DEF CancelingInv
  <2> QED
    BY <2>2, <2>3, <2>4 DEF CancelingInv, Interrupted, Finished
<1> QED
  BY <1>1, <1>2

LEMMA CancelingStep ==
    ASSUME IInv, ReasonInv, [Next]_vars
    PROVE  \A q \in Thread : CancelingInv(q)'
<1> USE DEF TypeInv, TypeOK, Goto, Locals, NoLocals, Leave, locals
<1>1. TypeInv
  BY DEF IInv
<1>2. ASSUME NEW p \in Thread,
             Step(p) \/ \E t \in Task : Run(p, t) \/ Inspect(p, t),
             CancelingInv(p)'
      PROVE  \A q \in Thread : CancelingInv(q)'
  <2> SUFFICES ASSUME NEW q \in Thread \ {p} PROVE CancelingInv(q)'
    BY <1>2
  <2> QED
    BY <1>1, <1>2, StepOthers, CancelingKept DEF Others, ReasonInv
\* The thread gets to a place at which it has not read a cancellation.
<1>3. ASSUME NEW p \in Thread, ~isCanceled'[p],
             pc'[p] \notin {"cancel", "onCancel", "failed", "register"}
      PROVE  CancelingInv(p)'
  BY <1>3 DEF CancelingInv
<1>4. \A p \in Thread : /\ CancelingInv(p)
                        /\ pc[p] # "idle" => cur[p] \in Task
                        /\ pc[p] # "idle" /\ Reason(cur[p]) /\ cur'[p] = cur[p]
                              => Reason(cur[p])'
  <2>1. \A t \in Task : Reason(t) => Reason(t)'
    BY ReasonKept
  <2> QED
    BY <1>1, <2>1 DEF ReasonInv, Reason
<1>5. ASSUME NEW p \in Thread, AddDependencies(p) PROVE CancelingInv(p)'
  <2>1. CASE LockDep(p)
    BY <1>1, <1>4, <2>1 DEF LockDep, CancelingInv, taskVars
  <2>2. CASE ~LockDep(p)
    <3>1. pc[p] \in {"addDep", "register", "mask"} /\ ~isCanceled[p]
      BY <1>4, <1>5
      DEF AddDependencies, NoMoreDeps, NoBitLeft, LockDep, Register, NoChunkLeft,
          SkipDep, RefuseDep, Mask, CancelingInv
    <3>2. CASE NoBitLeft(p) \/ NoChunkLeft(p) \/ RefuseDep(p)
      <4>1. pc'[p] \in {"mask", "returned"} /\ ~isCanceled'[p]
        BY <1>1, <3>2 DEF NoBitLeft, NoChunkLeft, RefuseDep, GiveUp
      <4> QED
        BY <1>3, <4>1
    <3>3. CASE NoMoreDeps(p) \/ Register(p) \/ SkipDep(p) \/ Mask(p)
      BY <1>1, <1>3, <3>1, <3>3 DEF NoMoreDeps, Register, SkipDep, Mask, NextDep
    <3> QED
      BY <1>5, <2>2, <3>2, <3>3 DEF AddDependencies
  <2> QED
    BY <2>1, <2>2
<1>6. ASSUME NEW p \in Thread, InsertTask(p) PROVE CancelingInv(p)'
  <2>1. pc[p] \in {"enqueue", "add"}
    BY <1>6 DEF InsertTask, Enqueue, AddToQueue
  <2>2. pc'[p] \in {"add", "idle"} /\ (isCanceled'[p] => isCanceled[p])
    BY <1>1, <1>6 DEF InsertTask, Enqueue, AddToQueue
  <2> QED
    BY <1>3, <1>4, <2>1, <2>2 DEF CancelingInv
<1>7. ASSUME NEW p \in Thread, RemoveTask(p) PROVE CancelingInv(p)'
  <2>1. CASE NotReady(p) \/ Start(p)
    BY <1>1, <1>3, <2>1 DEF NotReady, Start
  <2>2. CASE Remove(p) \/ CancelTask(p)
    <3>1. /\ cur'[p] = cur[p] /\ isCanceled'[p] = isCanceled[p]
          /\ \/ pc[p] = "bits" /\ pc'[p] = "start"
             \/ pc[p] = "cancel" /\ pc'[p] = "onCancel"
      BY <1>1, <2>2 DEF Remove, CancelTask
    <3> QED
      BY <1>4, <3>1 DEF CancelingInv
  <2>3. CASE StartCanceled(p)
    <3>1. pc[p] = "start" /\ Reason(cur[p])
      BY <1>4, <2>3 DEF StartCanceled, CancelingInv, ReasonInv, CanceledForReason, Reason
    <3> QED
      BY <1>1, <1>4, <2>3, <3>1 DEF StartCanceled, CancelingInv
  <2>4. CASE OnCancel(p)
    BY <1>1, <1>4, <2>4 DEF OnCancel, SetStatus, CancelingInv, Interrupted
  <2> QED
    BY <1>7, <2>1, <2>2, <2>3, <2>4 DEF RemoveTask
<1>8. ASSUME NEW p \in Thread, UserRun(p) PROVE CancelingInv(p)'
  <2>1. CASE RunReturns(p) \/ RunThrows(p) \/ Continue(p) \/ SetContinue(p)
    <3>1. pc[p] \in {"run", "returned", "continue"}
      BY <2>1 DEF RunReturns, RunThrows, Continue, SetContinue
    <3>2. pc'[p] \in {"finish", "addDep", "continue", "returned"}
      BY <1>1, <2>1 DEF RunReturns, RunThrows, Continue, WaitAgain, SetContinue
    <3>3. isCanceled'[p] => isCanceled[p]
      BY <1>1, <2>1 DEF RunReturns, RunThrows, Continue, WaitAgain, SetContinue
    <3> QED
      BY <1>3, <1>4, <3>1, <3>2, <3>3 DEF CancelingInv
  <2>2. CASE OnFailure(p)
    BY <1>1, <1>4, <2>2 DEF OnFailure, SetStatus, CancelingInv
  <2>3. CASE FailureLock(p)
    BY <1>1, <1>4, <2>3 DEF FailureLock, CancelingInv, Interrupted, taskVars
  <2> QED
    BY <1>8, <2>1, <2>2, <2>3 DEF UserRun
<1>9. ASSUME NEW p \in Thread, OnFinish(p) PROVE CancelingInv(p)'
  <2>1. CASE FinishCompleted(p) \/ FinishContinue(p)
    <3>1. /\ pc[p] = "finish" /\ pc'[p] \in {"free", "enqueue"}
          /\ isCanceled'[p] = isCanceled[p]
      BY <1>1, <2>1 DEF FinishCompleted, FinishContinue
    <3> QED
      BY <1>3, <1>4, <3>1 DEF CancelingInv
  <2>2. CASE FinishCanceled(p)
    <3>1. pc[p] = "finish" /\ Reason(cur[p])
      BY <1>4, <2>2 DEF FinishCanceled, ReasonInv, CanceledForReason, Reason
    <3> QED
      BY <1>1, <1>4, <2>2, <3>1 DEF FinishCanceled, CancelingInv
  <2> QED
    BY <1>9, <2>1, <2>2 DEF OnFinish
<1>10. ASSUME NEW p \in Thread, FreeOutputChunks(p) PROVE CancelingInv(p)'
  <2>1. CASE CountCanceled(p) \/ ClearBit(p)
    <3>1. /\ pc[p] \in {"free", "clear"} /\ pc'[p] \in {"free", "clear"}
          /\ cur'[p] = cur[p] /\ isCanceled'[p] = isCanceled[p]
          /\ status' = status
      BY <1>1, <2>1 DEF CountCanceled, ClearBit
    <3> QED
      BY <1>4, <3>1 DEF CancelingInv
  <2>2. CASE FreeDone(p)
    <3>1. pc'[p] \in {"returned", "idle"} /\ isCanceled'[p] = FALSE
      BY <1>1, <2>2 DEF FreeDone
    <3> QED
      BY <3>1 DEF CancelingInv
  <2> QED
    BY <1>10, <2>1, <2>2 DEF FreeOutputChunks
<1>11. ASSUME NEW p \in Thread, NEW t \in Task, Run(p, t) PROVE CancelingInv(p)'
  BY <1>1, <1>3, <1>11 DEF Run
<1>12. ASSUME NEW p \in Thread, NEW t \in Task, Inspect(p, t) PROVE CancelingInv(p)'
  <2>1. canceledDepsCount[t] > 0 => Reason(t)'
    BY ReasonKept DEF ReasonInv, CountInv
  <2>2. /\ pc'[p] = "bits" /\ cur'[p] = t
        /\ isCanceled'[p] = (canceledDepsCount[t] > 0)
    BY <1>1, <1>12 DEF Inspect
  <2> QED
    BY <2>1, <2>2 DEF CancelingInv, Reason
<1>13. CASE UNCHANGED threadVars
  BY <1>4, <1>13, CancelingKept DEF threadVars
<1> QED
  BY <1>2, <1>5, <1>6, <1>7, <1>8, <1>9, <1>10, <1>11, <1>12, <1>13
  DEF Next, Terminated, Step, Cancel, vars

-----------------------------------------------------------------------------
(* Run() without OnFailure()                                               *)

\* No task is finished before its Run() has returned.
RunInv ==
    /\ \A p \in Thread : pc[p] # "failed" /\ ret[p] # "returned"
    /\ \A p \in Thread : pc[p] = "returned" => status[cur[p]] \notin Finished

\* A thread whose Run() is to return keeps its task, and nobody else finishes it.
LEMMA ReturnedStep ==
    ASSUME IInv, RunInv, [Next]_vars, NEW q \in Thread, pc'[q] = "returned"
    PROVE  status'[cur'[q]] \notin Finished
<1> USE DEF IInv, TypeInv, TypeOK, Goto, NoLocals, Locals, Leave, taskVars
<1>1. ASSUME NEW p \in Thread \ {q},
             Step(p) \/ \E t \in Task : Run(p, t) \/ Inspect(p, t)
      PROVE  /\ pc[q] = "returned" /\ cur'[q] = cur[q] /\ cur[q] \in Task
             /\ cur[p] # cur[q] \/ pc[p] = "idle"
  <2>1. pc[q] = "returned" /\ cur'[q] = cur[q] /\ cur[q] \in Task
    BY <1>1, StepOthers DEF Others
  <2> QED
    BY <2>1 DEF OwnerInv, OneOwner
<1>2. ASSUME NEW p \in Thread \ {q},
             Step(p) \/ \E t \in Task : Run(p, t) \/ Inspect(p, t)
      PROVE  status'[cur'[q]] \notin Finished
  <2>1. status[cur[q]] \notin Finished
    BY <1>1, <1>2 DEF RunInv
  <2>2. ASSUME status'[cur[q]] \in Finished PROVE FALSE
    <3>1. PICK r \in Thread :
             cur[r] = cur[q] /\ pc[r] \in {"onCancel", "finish", "run"}
      BY <1>1, <1>2, <2>1, <2>2, WhoFinishes
    <3>2. r # q
      BY <1>1, <1>2, <3>1
    <3> QED
      BY <1>1, <1>2, <3>1, <3>2 DEF OwnerInv, OneOwner
  <2> QED
    BY <1>1, <1>2, <2>2
<1>3. CASE Step(q)
  <2>1. CASE AddDependencies(q)
    <3>1. /\ cur'[q] = cur[q] /\ cur[q] \in Task /\ pc[q] \in LiveLabel
          /\ status' \in {status, [status EXCEPT ![cur[q]] = Canceling(@)]}
      BY <2>1
      DEF AddDependencies, NoMoreDeps, NoBitLeft, LockDep, Register, NoChunkLeft,
          SkipDep, RefuseDep, Mask, GiveUp, SetCancellation, SetStatus, LiveLabel
    <3>2. status[cur[q]] \notin Finished
      BY <3>1 DEF LiveInv
    <3> QED
      BY <3>1, <3>2 DEF Canceling, Finished
  <2>2. CASE SetContinue(q)
    <3>1. /\ cur'[q] = cur[q] /\ cur[q] \in Task /\ pc[q] \in LiveLabel
          /\ status' = [status EXCEPT ![cur[q]] = Continuing(@)]
      BY <2>2 DEF SetContinue, SetStatus, LiveLabel
    <3>2. status[cur[q]] \notin Finished
      BY <3>1 DEF LiveInv
    <3> QED
      BY <3>1, <3>2 DEF Continuing, Finished
  <2>3. CASE FreeDone(q)
    BY <2>3 DEF FreeDone, RunInv
  <2>4. CASE InsertTask(q) \/ RemoveTask(q)
    BY <2>4
    DEF InsertTask, Enqueue, AddToQueue, RemoveTask, NotReady, Remove, Start,
        StartCanceled, CancelTask, OnCancel
  <2>5. CASE UserRun(q) /\ ~SetContinue(q)
    BY <2>5
    DEF UserRun, RunReturns, RunThrows, OnFailure, FailureLock, Continue, WaitAgain
  <2>6. CASE OnFinish(q) \/ CountCanceled(q) \/ ClearBit(q)
    BY <2>6
    DEF OnFinish, FinishCompleted, FinishContinue, FinishCanceled, CountCanceled,
        ClearBit
  <2> QED
    BY <1>3, <2>1, <2>2, <2>3, <2>4, <2>5, <2>6 DEF Step, FreeOutputChunks
<1>4. ASSUME NEW t \in Task, Run(q, t) \/ Inspect(q, t) PROVE FALSE
  BY <1>4 DEF Run, Inspect
<1>5. CASE UNCHANGED threadVars
  <2>1. pc[q] = "returned" /\ cur'[q] = cur[q] /\ cur[q] \in Task
    BY <1>5 DEF threadVars
  <2>2. status[cur[q]] \notin Finished
    BY <2>1 DEF RunInv
  <2>3. ASSUME status'[cur[q]] \in Finished PROVE FALSE
    <3>1. PICK r \in Thread : pc[r] # "free" /\ pc'[r] \in {"free", "failed"} /\ pc[r] # "failed"
      BY <2>1, <2>2, <2>3, WhoFinishes
    <3> QED
      BY <1>5, <3>1 DEF threadVars
  <2> QED
    BY <2>1, <2>3
<1> QED
  BY <1>2, <1>3, <1>4, <1>5 DEF Next, Terminated, Cancel, vars

LEMMA RunStep ==
    ASSUME MayFail = {}, IInv, RunInv, [Next]_vars
    PROVE  RunInv'
<1> USE DEF IInv, TypeInv, TypeOK, Goto, NoLocals, Locals, Leave, locals
<1>1. ASSUME NEW q \in Thread PROVE pc'[q] # "failed" /\ ret'[q] # "returned"
  <2>1. pc[q] # "failed" /\ ret[q] # "returned"
    BY DEF RunInv
  <2>2. ASSUME NEW p \in Thread, AddDependencies(p)
        PROVE  pc'[q] # "failed" /\ ret'[q] # "returned"
    <3>1. CASE NoBitLeft(p) \/ NoChunkLeft(p) \/ RefuseDep(p)
      <4>1. /\ pc' \in {[pc EXCEPT ![p] = "mask"], [pc EXCEPT ![p] = "returned"]}
            /\ ret' \in {[ret EXCEPT ![p] = "enqueue"], [ret EXCEPT ![p] = "idle"]}
        BY <3>1 DEF NoBitLeft, NoChunkLeft, RefuseDep, GiveUp
      <4> QED
        BY <2>1, <4>1
    <3>2. CASE NoMoreDeps(p) \/ LockDep(p) \/ Register(p) \/ SkipDep(p) \/ Mask(p)
      BY <2>1, <3>2 DEF NoMoreDeps, LockDep, Register, SkipDep, Mask, NextDep
    <3> QED
      BY <2>2, <3>1, <3>2 DEF AddDependencies
  <2>3. ASSUME NEW p \in Thread, InsertTask(p) \/ RemoveTask(p) \/ OnFinish(p)
        PROVE  pc'[q] # "failed" /\ ret'[q] # "returned"
    BY <2>1, <2>3
    DEF InsertTask, Enqueue, AddToQueue, RemoveTask, NotReady, Remove, Start,
        StartCanceled, CancelTask, OnCancel, OnFinish, FinishCompleted,
        FinishContinue, FinishCanceled
  <2>4. ASSUME NEW p \in Thread, UserRun(p)
        PROVE  pc'[q] # "failed" /\ ret'[q] # "returned"
    <3>1. ~OnFailure(p) /\ ~FailureLock(p)
      BY DEF OnFailure, FailureLock, RunInv
    <3> QED
      BY <2>1, <2>4, <3>1
      DEF UserRun, RunReturns, RunThrows, Continue, WaitAgain, SetContinue
  <2>5. ASSUME NEW p \in Thread, FreeOutputChunks(p)
        PROVE  pc'[q] # "failed" /\ ret'[q] # "returned"
    BY <2>1, <2>5 DEF FreeOutputChunks, CountCanceled, ClearBit, FreeDone
  <2>6. ASSUME NEW p \in Thread, NEW t \in Task, Run(p, t) \/ Inspect(p, t)
        PROVE  pc'[q] # "failed" /\ ret'[q] # "returned"
    BY <2>1, <2>6 DEF Run, Inspect
  <2>7. CASE UNCHANGED threadVars
    BY <2>1, <2>7 DEF threadVars
  <2> QED
    BY <2>2, <2>3, <2>4, <2>5, <2>6, <2>7
    DEF Next, Terminated, Step, Cancel, vars
<1> QED
  BY <1>1, ReturnedStep DEF RunInv

-----------------------------------------------------------------------------
(* The theorems                                                            *)

\* IInv with what says why a task waits, and why it is canceled.
WaitsInv == IInv /\ LockInv /\ LateInv /\ SourceInv /\ ReasonInv

LEMMA WaitsInvAlways == Spec => []WaitsInv
<1>1. Init => WaitsInv
  <2> SUFFICES ASSUME Init PROVE WaitsInv
    OBVIOUS
  <2>1. IInv
    BY IInvInit
  <2>2. LockInv /\ LateInv
    BY DEF Init, LockInv, LateInv, NoLateEntry, SeenInv
  <2>3. SourceInv
    <3>1. PICK ready \in SUBSET MayBeReady : MakeTasks(ready)
      BY DEF Init
    <3>2. \A t \in submitted : t \in Task /\ waitBits[t] = {}
      BY <3>1, UserAssumption DEF MakeTasks
    <3> QED
      BY <3>2 DEF SourceInv
  <2>4. ReasonInv
    BY UserAssumption
    DEF Init, MakeTasks, ReasonInv, CanceledForReason, CountInv, EntryInv,
        CancelingInv
  <2> QED
    BY <2>1, <2>2, <2>3, <2>4 DEF WaitsInv
<1>2. WaitsInv /\ [Next]_vars => WaitsInv'
  BY IInvStep, LockStep, NoLateStep, SeenStep, SourceStep, CanceledStep, CountStep,
     EntryStep, CancelingStep
  DEF WaitsInv, IInv, LateInv, ReasonInv
<1> QED
  BY <1>1, <1>2, PTL DEF Spec

\* Nobody is registered on a task that has released its output: the check of
\* the status and the registration are under the lock that _OnFinish takes.
THEOREM NobodyLate == Spec => []NoLateEntry
<1>1. WaitsInv => NoLateEntry
  BY DEF WaitsInv, LateInv
<1> QED
  BY WaitsInvAlways, <1>1, PTL

\* No wait is lost: a bit that a queued task waits for has an entry in the
\* output of a task that will clear it.
THEOREM NoWaitLost == Spec => []EveryWaitHasSource
<1>1. ASSUME WaitsInv, NEW t \in queue, status[t] = "Pending", NEW k \in waitBits[t]
      PROVE  \E d \in Task :
                /\ status[d] \notin Finished \/ Releasing(d)
                /\ \E i \in DOMAIN output[d] : /\ output[d][i].task = t
                                              /\ output[d][i].bit = k
  <2>1. t \in Task /\ t \in submitted /\ ~Dead(t)
    BY <1>1
    DEF WaitsInv, IInv, OwnerInv, Unsubmitted, TypeInv, TypeOK, Dead, Finished
  <2>2. \A p \in Thread : ~(pc[p] \in Adding /\ cur[p] = t)
    BY <1>1 DEF WaitsInv, IInv, OwnerInv, OneOwner, Adding
  <2>3. Backed(t, k)
    BY <1>1, <2>1, <2>2 DEF WaitsInv, SourceInv
  <2>4. PICK d \in Task : \E i \in DOMAIN output[d] :
           output[d][i].task = t /\ output[d][i].bit = k
    BY <2>3 DEF Backed
  <2>5. output[d] # <<>>
    BY <2>4
  <2>6. status[d] \notin Finished \/ Releasing(d)
    BY <1>1, <2>5 DEF WaitsInv, LateInv, NoLateEntry
  <2> QED
    BY <2>4, <2>6
<1>2. WaitsInv => EveryWaitHasSource
  BY <1>1 DEF EveryWaitHasSource
<1> QED
  BY WaitsInvAlways, <1>2, PTL

\* A task is canceled only because it was asked for, it threw, its dependencies
\* could not be added, or a strong dependency was canceled or failed.
THEOREM NeverCanceledForNothing == Spec => []CanceledForReason
<1>1. WaitsInv => CanceledForReason
  BY DEF WaitsInv, ReasonInv
<1> QED
  BY WaitsInvAlways, <1>1, PTL

\* "Run() will be called after all input dependencies Run() or OnCancel()
\* methods have completed" (TaskScheduler.h) is true of programs that do not
\* call OnFailure().
THEOREM RunAfterRun ==
    ASSUME MayFail = {} PROVE Spec => RunAfterRunOfInputs
<1>1. Init => RunInv
  BY DEF Init, RunInv
<1>2. IInv /\ RunInv /\ [Next]_vars => RunInv'
  BY RunStep
<1>3. ASSUME IInv, RunInv, NEW p \in Thread, NEW q \in Thread, Start(p),
             pc[q] = "onCancel" \/ InRun(q), NEW d \in inputs[cur[p]]
      PROVE  d.on # cur[q]
  <2>1. status[d.on] \in Finished
    BY <1>3, StartsLate
  <2>2. status[cur[q]] \notin Finished
    BY <1>3 DEF IInv, LiveInv, LiveLabel, RunInv, InRun
  <2> QED
    BY <2>1, <2>2
<1>4. IInv /\ RunInv /\ [Next]_vars => [\A p \in Thread : Start(p) =>
         \A q \in Thread : pc[q] = "onCancel" \/ InRun(q) =>
            \A d \in inputs[cur[p]] : d.on # cur[q]]_vars
  BY <1>3
<1> QED
  BY IInvAlways, <1>1, <1>2, <1>4, PTL DEF Spec, RunAfterRunOfInputs
=============================================================================
