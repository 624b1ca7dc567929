-------------------------- MODULE CommandBatchProofs --------------------------
(***************************************************************************)
(* Proofs about CommandBatch, for every set of batches and tasks and any   *)
(* number of lives.                                                        *)
(***************************************************************************)
EXTENDS CommandBatch, TLAPS

\* The places where the GPU may still have to signal the batch.
Signalling == {"sent", "onSubmit", "tracked"}

\* The status follows the place: the scheduler has only batches that are
\* pending or submitted, and has all that are submitted.
PlaceInv ==
    \A b \in Batch :
        /\ at[b] \in {"submit", "queued", "sent"} => status[b] = "Pending"
        /\ at[b] \in {"onSubmit", "tracked", "onComplete", "completing"} =>
                status[b] = "Submitted"
        /\ life[b] \in 0..MaxLives
        /\ status[b] # "Destroyed" => life[b] > 0

\* The value of the semaphore tells the lives of a batch apart.
GpuInv ==
    \A b \in Batch :
        /\ gpuSignal[b] # 0 => /\ gpuSignal[b] = tlSemaphoreVal[b]
                               /\ gpuCounter[b] < tlSemaphoreVal[b]
                               /\ at[b] \in Signalling
        /\ gpuCounter[b] <= tlSemaphoreVal[b]
        /\ gpuCounter[b] = tlSemaphoreVal[b] =>
                at[b] \in Signalling /\ life[b] \in executed[b]
        /\ \/ at[b] \in {"onComplete", "completing"}
           \/ status[b] = "Completed"
           => life[b] \in executed[b]

\* Every life that is over was executed or given up.
PastInv ==
    \A b \in Batch : \A l \in 1..life[b] :
        \/ l = life[b] /\ status[b] # "Destroyed"
        \/ l \in executed[b] \union abandoned[b]

Registered(t, b, e) ==
    /\ waits[t] # None
    /\ waits[t].batch = b
    /\ waits[t].event = e
    /\ waits[t].life \in 1..life[b]

\* A task in a list is registered for what the list is for, in this life of
\* the batch or an earlier one, and is not released.
DepsInv ==
    /\ \A t \in released : waits[t] # None
    /\ \A b \in Batch :
        /\ \A t \in onSubmitDeps[b] :
                t \notin released /\ Registered(t, b, "submit")
        /\ \A t \in onCompleteDeps[b] :
                t \notin released /\ Registered(t, b, "complete")

\* LeftBehindOnlyLate, from the moment the list is released.
LeftInv ==
    \A b \in Batch :
        at[b] = "completing" \/ status[b] = "Completed" =>
            onCompleteDeps[b] \subseteq late

BatchInv == /\ BatchTypeOK
            /\ PlaceInv
            /\ GpuInv
            /\ PastInv
            /\ DepsInv
            /\ LeftInv
            /\ NoEarlyComplete
-----------------------------------------------------------------------------
LEMMA InitInv == BatchInit => BatchInv
  BY BatchAssumption
  DEF BatchInit, BatchInv, BatchTypeOK, PlaceInv, GpuInv, PastInv, DepsInv,
      LeftInv, NoEarlyComplete, Status, Place

LEMMA StepType ==
    ASSUME BatchTypeOK, NEW b \in Batch, Step(b)
    PROVE  BatchTypeOK'
<1> USE DEF BatchTypeOK, Status, Place, Set, Move, gpuVars, taskVars, lifeVars
<1>1. CASE Create(b)
  BY <1>1 DEF Create
<1>2. CASE EndRecording(b)
  BY <1>2 DEF EndRecording
<1>3. CASE SubmitBegin(b)
  BY <1>3 DEF SubmitBegin
<1>4. CASE SubmitError(b)
  BY <1>4 DEF SubmitError
<1>5. CASE Enqueue(b)
  BY <1>5 DEF Enqueue
<1>6. CASE GpuSignal(b)
  BY <1>6 DEF GpuSignal
<1>7. CASE OnSubmit(b)
  BY <1>7 DEF OnSubmit
<1>8. CASE OnSubmitRelease(b)
  BY <1>8 DEF OnSubmitRelease
<1>9. CASE OnComplete(b)
  BY <1>9 DEF OnComplete
<1>10. CASE OnCompleteRelease(b)
  BY <1>10 DEF OnCompleteRelease
<1>11. CASE OnCompleteDone(b)
  BY <1>11 DEF OnCompleteDone
<1>12. CASE ReleaseObject(b)
  BY <1>12 DEF ReleaseObject
<1> QED
  BY <1>1, <1>2, <1>3, <1>4, <1>5, <1>6, <1>7, <1>8, <1>9, <1>10, <1>11,
     <1>12 DEF Step

LEMMA StepPlace ==
    ASSUME BatchInv, NEW b \in Batch, Step(b)
    PROVE  PlaceInv'
<1> USE DEF BatchInv, BatchTypeOK, Set, Move, gpuVars, taskVars,
           lifeVars, PlaceInv, Status, Place
<1>1. CASE Create(b)
  BY <1>1, BatchAssumption DEF Create
<1>2. CASE EndRecording(b)
  BY <1>2 DEF EndRecording
<1>3. CASE SubmitBegin(b)
  BY <1>3 DEF SubmitBegin
<1>4. CASE SubmitError(b)
  BY <1>4 DEF SubmitError
<1>5. CASE Enqueue(b)
  BY <1>5 DEF Enqueue
<1>6. CASE GpuSignal(b)
  BY <1>6 DEF GpuSignal
<1>7. CASE OnSubmit(b)
  BY <1>7 DEF OnSubmit
<1>8. CASE OnSubmitRelease(b)
  BY <1>8 DEF OnSubmitRelease
<1>9. CASE OnComplete(b)
  BY <1>9 DEF OnComplete
<1>10. CASE OnCompleteRelease(b)
  BY <1>10 DEF OnCompleteRelease
<1>11. CASE OnCompleteDone(b)
  BY <1>11 DEF OnCompleteDone
<1>12. CASE ReleaseObject(b)
  BY <1>12 DEF ReleaseObject
<1> QED
  BY <1>1, <1>2, <1>3, <1>4, <1>5, <1>6, <1>7, <1>8, <1>9, <1>10, <1>11,
     <1>12 DEF Step

LEMMA StepGpu ==
    ASSUME BatchInv, NEW b \in Batch, Step(b)
    PROVE  GpuInv'
<1> USE DEF BatchInv, BatchTypeOK, Set, Move, gpuVars, taskVars,
           lifeVars, PlaceInv, GpuInv, Signalling,
           OnCompleteGuard
<1>1. CASE Create(b)
  BY <1>1 DEF Create
<1>2. CASE EndRecording(b)
  BY <1>2 DEF EndRecording
<1>3. CASE SubmitBegin(b)
  BY <1>3 DEF SubmitBegin
<1>4. CASE SubmitError(b)
  BY <1>4 DEF SubmitError
<1>5. CASE Enqueue(b)
  BY <1>5 DEF Enqueue
<1>6. CASE GpuSignal(b)
  BY <1>6 DEF GpuSignal
<1>7. CASE OnSubmit(b)
  BY <1>7 DEF OnSubmit
<1>8. CASE OnSubmitRelease(b)
  BY <1>8 DEF OnSubmitRelease
<1>9. CASE OnComplete(b)
  BY <1>9 DEF OnComplete
<1>10. CASE OnCompleteRelease(b)
  BY <1>10 DEF OnCompleteRelease
<1>11. CASE OnCompleteDone(b)
  BY <1>11 DEF OnCompleteDone
<1>12. CASE ReleaseObject(b)
  BY <1>12 DEF ReleaseObject
<1> QED
  BY <1>1, <1>2, <1>3, <1>4, <1>5, <1>6, <1>7, <1>8, <1>9, <1>10, <1>11,
     <1>12 DEF Step

LEMMA StepPast ==
    ASSUME BatchInv, NEW b \in Batch, Step(b)
    PROVE  PastInv'
<1> USE DEF BatchInv, BatchTypeOK, Set, Move, gpuVars, taskVars,
           lifeVars, PlaceInv, GpuInv, PastInv
<1>1. CASE Create(b)
  <2> SUFFICES ASSUME NEW c \in Batch, NEW l \in 1..life'[c],
                      ~(l = life'[c] /\ status'[c] # "Destroyed")
               PROVE  l \in executed[c] \union abandoned[c]
    BY <1>1 DEF Create
  <2>1. (status[c] = status'[c] /\ life[c] = life'[c]) \/ c = b
    BY <1>1 DEF Create
  <2>2. c = b => l \in 1..life[c] /\ status[c] = "Destroyed"
    BY <1>1 DEF Create
  <2> QED
    BY <2>1, <2>2
<1>2. CASE EndRecording(b)
  BY <1>2 DEF EndRecording
<1>3. CASE SubmitBegin(b)
  BY <1>3 DEF SubmitBegin
<1>4. CASE SubmitError(b)
  BY <1>4 DEF SubmitError
<1>5. CASE Enqueue(b)
  BY <1>5 DEF Enqueue
<1>6. CASE GpuSignal(b)
  BY <1>6 DEF GpuSignal
<1>7. CASE OnSubmit(b)
  BY <1>7 DEF OnSubmit
<1>8. CASE OnSubmitRelease(b)
  BY <1>8 DEF OnSubmitRelease
<1>9. CASE OnComplete(b)
  BY <1>9 DEF OnComplete
<1>10. CASE OnCompleteRelease(b)
  BY <1>10 DEF OnCompleteRelease
<1>11. CASE OnCompleteDone(b)
  BY <1>11 DEF OnCompleteDone
<1>12. CASE ReleaseObject(b)
  BY <1>12 DEF ReleaseObject
<1> QED
  BY <1>1, <1>2, <1>3, <1>4, <1>5, <1>6, <1>7, <1>8, <1>9, <1>10, <1>11,
     <1>12 DEF Step

LEMMA StepLeft ==
    ASSUME BatchInv, NEW b \in Batch, Step(b)
    PROVE  LeftInv'
<1> USE DEF BatchInv, BatchTypeOK, Set, Move, gpuVars, taskVars,
           lifeVars, PlaceInv, LeftInv
<1>1. CASE Create(b)
  BY <1>1 DEF Create
<1>2. CASE EndRecording(b)
  BY <1>2 DEF EndRecording
<1>3. CASE SubmitBegin(b)
  BY <1>3 DEF SubmitBegin
<1>4. CASE SubmitError(b)
  BY <1>4 DEF SubmitError
<1>5. CASE Enqueue(b)
  BY <1>5 DEF Enqueue
<1>6. CASE GpuSignal(b)
  BY <1>6 DEF GpuSignal
<1>7. CASE OnSubmit(b)
  BY <1>7 DEF OnSubmit
<1>8. CASE OnSubmitRelease(b)
  BY <1>8 DEF OnSubmitRelease
<1>9. CASE OnComplete(b)
  BY <1>9 DEF OnComplete
<1>10. CASE OnCompleteRelease(b)
  BY <1>10 DEF OnCompleteRelease
<1>11. CASE OnCompleteDone(b)
  BY <1>11 DEF OnCompleteDone
<1>12. CASE ReleaseObject(b)
  BY <1>12 DEF ReleaseObject
<1> QED
  BY <1>1, <1>2, <1>3, <1>4, <1>5, <1>6, <1>7, <1>8, <1>9, <1>10, <1>11,
     <1>12 DEF Step

LEMMA StepDeps ==
    ASSUME BatchInv, NEW b \in Batch, Step(b)
    PROVE  DepsInv'
<1> USE DEF BatchInv, BatchTypeOK, Set, Move, gpuVars, taskVars,
           lifeVars, DepsInv, Registered
<1>1. CASE Create(b)
  BY <1>1 DEF Create
<1>2. CASE EndRecording(b)
  BY <1>2 DEF EndRecording
<1>3. CASE SubmitBegin(b)
  BY <1>3 DEF SubmitBegin
<1>4. CASE SubmitError(b)
  BY <1>4 DEF SubmitError
<1>5. CASE Enqueue(b)
  BY <1>5 DEF Enqueue
<1>6. CASE GpuSignal(b)
  BY <1>6 DEF GpuSignal
<1>7. CASE OnSubmit(b)
  BY <1>7 DEF OnSubmit
<1>8. CASE OnSubmitRelease(b)
  BY <1>8 DEF OnSubmitRelease
<1>9. CASE OnComplete(b)
  BY <1>9 DEF OnComplete
<1>10. CASE OnCompleteRelease(b)
  BY <1>10 DEF OnCompleteRelease
<1>11. CASE OnCompleteDone(b)
  BY <1>11 DEF OnCompleteDone
<1>12. CASE ReleaseObject(b)
  BY <1>12 DEF ReleaseObject
<1> QED
  BY <1>1, <1>2, <1>3, <1>4, <1>5, <1>6, <1>7, <1>8, <1>9, <1>10, <1>11,
     <1>12 DEF Step

LEMMA StepEarly ==
    ASSUME BatchInv, NEW b \in Batch, Step(b)
    PROVE  NoEarlyComplete'
<1> USE DEF BatchInv, BatchTypeOK, Set, Move, gpuVars, taskVars,
           lifeVars, PlaceInv, GpuInv, PastInv,
           DepsInv, Registered, NoEarlyComplete, IsCompleted
<1>1. CASE Create(b)
  BY <1>1 DEF Create
<1>2. CASE EndRecording(b)
  BY <1>2 DEF EndRecording
<1>3. CASE SubmitBegin(b)
  BY <1>3 DEF SubmitBegin
<1>4. CASE SubmitError(b)
  BY <1>4 DEF SubmitError
<1>5. CASE Enqueue(b)
  BY <1>5 DEF Enqueue
<1>6. CASE GpuSignal(b)
  BY <1>6 DEF GpuSignal
<1>7. CASE OnSubmit(b)
  BY <1>7 DEF OnSubmit
<1>8. CASE OnSubmitRelease(b)
  BY <1>8 DEF OnSubmitRelease
<1>9. CASE OnComplete(b)
  BY <1>9 DEF OnComplete
<1>10. CASE OnCompleteRelease(b)
  BY <1>10 DEF OnCompleteRelease
<1>11. CASE OnCompleteDone(b)
  BY <1>11 DEF OnCompleteDone
<1>12. CASE ReleaseObject(b)
  BY <1>12 DEF ReleaseObject
<1> QED
  BY <1>1, <1>2, <1>3, <1>4, <1>5, <1>6, <1>7, <1>8, <1>9, <1>10, <1>11,
     <1>12 DEF Step

LEMMA WaitType ==
    ASSUME BatchTypeOK, NEW b \in Batch, NEW t \in Task, Wait(t, b)
    PROVE  BatchTypeOK'
<1> USE DEF BatchTypeOK, Waiting, Event, MayWait, NewWait, gpuVars, lifeVars
<1>1. CASE AddOnSubmitDependency(t, b)
  BY <1>1 DEF AddOnSubmitDependency
<1>2. CASE AddOnCompleteDependency(t, b)
  BY <1>2 DEF AddOnCompleteDependency
<1> QED
  BY <1>1, <1>2 DEF Wait

LEMMA ManyType ==
    ASSUME BatchTypeOK, NEW B \in SUBSET Batch, Drop(B) \/ QueueSubmit(B)
    PROVE  BatchTypeOK'
<1> USE DEF BatchTypeOK, Place, MoveAll, gpuVars, taskVars, lifeVars
<1>1. CASE Drop(B)
  BY <1>1 DEF Drop
<1>2. CASE QueueSubmit(B)
  <2>1. gpuSignal' \in [Batch -> Nat] /\ sent' \in [Batch -> SUBSET Nat]
    BY <1>2 DEF QueueSubmit
  <2> QED
    BY <1>2, <2>1 DEF QueueSubmit
<1> QED
  BY <1>1, <1>2

LEMMA WaitInv ==
    ASSUME BatchInv, NEW b \in Batch, NEW t \in Task, Wait(t, b)
    PROVE  BatchInv'
<1> USE NoneAssumption
    DEF BatchInv, BatchTypeOK, MayWait, NewWait, gpuVars, lifeVars
<1>0. BatchTypeOK'
  BY WaitType
<1>1. PlaceInv'
  <2>1. CASE AddOnSubmitDependency(t, b)
    BY <2>1 DEF AddOnSubmitDependency, PlaceInv, Status, Place
  <2>2. CASE AddOnCompleteDependency(t, b)
    BY <2>2 DEF AddOnCompleteDependency, PlaceInv, Status, Place
  <2> QED
    BY <2>1, <2>2 DEF Wait
<1>2. GpuInv'
  <2>1. CASE AddOnSubmitDependency(t, b)
    BY <2>1 DEF AddOnSubmitDependency, GpuInv, Signalling
  <2>2. CASE AddOnCompleteDependency(t, b)
    BY <2>2 DEF AddOnCompleteDependency, GpuInv, Signalling
  <2> QED
    BY <2>1, <2>2 DEF Wait
<1>3. PastInv'
  <2>1. CASE AddOnSubmitDependency(t, b)
    BY <2>1 DEF AddOnSubmitDependency, PastInv
  <2>2. CASE AddOnCompleteDependency(t, b)
    BY <2>2 DEF AddOnCompleteDependency, PastInv
  <2> QED
    BY <2>1, <2>2 DEF Wait
<1>4. LeftInv'
  <2>1. CASE AddOnSubmitDependency(t, b)
    BY <2>1 DEF AddOnSubmitDependency, LeftInv, PlaceInv, IsCompleted
  <2>2. CASE AddOnCompleteDependency(t, b)
    BY <2>2 DEF AddOnCompleteDependency, LeftInv, PlaceInv, IsCompleted
  <2> QED
    BY <2>1, <2>2 DEF Wait
<1>5. DepsInv'
  <2>1. CASE AddOnSubmitDependency(t, b)
    BY <2>1 DEF AddOnSubmitDependency, DepsInv, PlaceInv, Registered, Waiting, Event
  <2>2. CASE AddOnCompleteDependency(t, b)
    <3>1. /\ t \notin released
          /\ \A c \in Batch : t \notin onSubmitDeps[c] \union onCompleteDeps[c]
      BY <2>2 DEF AddOnCompleteDependency, DepsInv, Registered
    <3>2. /\ Registered(t, b, "complete")'
          /\ \A u \in Task \ {t} : waits'[u] = waits[u]
          /\ life' = life
      BY <2>2
      DEF AddOnCompleteDependency, PlaceInv, Registered, Waiting, Event
    <3>3. /\ released' \subseteq released \union {t}
          /\ onSubmitDeps' = onSubmitDeps
          /\ \/ onCompleteDeps' = onCompleteDeps
             \/ /\ onCompleteDeps' = [onCompleteDeps EXCEPT
                                            ![b] = @ \union {t}]
                /\ released' = released
      BY <2>2 DEF AddOnCompleteDependency
    <3>4. \A u \in Task \ {t}, c \in Batch, e \in Event :
            Registered(u, c, e) => Registered(u, c, e)'
      BY <3>2 DEF Registered
    <3> QED
      BY <3>1, <3>2, <3>3, <3>4 DEF DepsInv, Event, Registered
  <2> QED
    BY <2>1, <2>2 DEF Wait
<1>6. NoEarlyComplete'
  <2>1. CASE AddOnSubmitDependency(t, b)
    BY <2>1 DEF AddOnSubmitDependency, NoEarlyComplete, DepsInv, GpuInv, PlaceInv, IsCompleted, Waiting, Event
  <2>2. CASE AddOnCompleteDependency(t, b)
    BY <2>2 DEF AddOnCompleteDependency, NoEarlyComplete, DepsInv, GpuInv, PlaceInv, IsCompleted, Waiting, Event
  <2> QED
    BY <2>1, <2>2 DEF Wait
<1> QED
  BY <1>0, <1>1, <1>2, <1>3, <1>4, <1>5, <1>6

LEMMA ManyInv ==
    ASSUME BatchInv, NEW B \in SUBSET Batch, Drop(B) \/ QueueSubmit(B)
    PROVE  BatchInv'
<1> USE DEF BatchInv, BatchTypeOK, MoveAll, gpuVars, taskVars, lifeVars
<1>0. BatchTypeOK'
  BY ManyType
<1>1. PlaceInv'
  <2>1. CASE Drop(B)
    BY <2>1 DEF Drop, PlaceInv, Status, Place
  <2>2. CASE QueueSubmit(B)
    BY <2>2 DEF QueueSubmit, PlaceInv, Status, Place
  <2> QED
    BY <2>1, <2>2
<1>2. GpuInv'
  <2>1. CASE Drop(B)
    BY <2>1 DEF Drop, GpuInv, Signalling
  <2>2. CASE QueueSubmit(B)
    BY <2>2 DEF QueueSubmit, GpuInv, Signalling
  <2> QED
    BY <2>1, <2>2
<1>3. PastInv'
  <2>1. CASE Drop(B)
    BY <2>1 DEF Drop, PastInv
  <2>2. CASE QueueSubmit(B)
    BY <2>2 DEF QueueSubmit, PastInv
  <2> QED
    BY <2>1, <2>2
<1>4. LeftInv'
  <2>1. CASE Drop(B)
    BY <2>1 DEF Drop, LeftInv, PlaceInv
  <2>2. CASE QueueSubmit(B)
    BY <2>2 DEF QueueSubmit, LeftInv, PlaceInv
  <2> QED
    BY <2>1, <2>2
<1>5. DepsInv'
  <2>1. CASE Drop(B)
    BY <2>1 DEF Drop, DepsInv, Registered
  <2>2. CASE QueueSubmit(B)
    BY <2>2 DEF QueueSubmit, DepsInv, Registered
  <2> QED
    BY <2>1, <2>2
<1>6. NoEarlyComplete'
  <2>1. CASE Drop(B)
    BY <2>1 DEF Drop, NoEarlyComplete
  <2>2. CASE QueueSubmit(B)
    BY <2>2 DEF QueueSubmit, NoEarlyComplete
  <2> QED
    BY <2>1, <2>2
<1> QED
  BY <1>0, <1>1, <1>2, <1>3, <1>4, <1>5, <1>6

LEMMA InvStep == BatchInv /\ [BatchNext]_batchVars => BatchInv'
<1> SUFFICES ASSUME BatchInv, [BatchNext]_batchVars
             PROVE  BatchInv'
  OBVIOUS
<1>1. CASE UNCHANGED batchVars
  BY <1>1
  DEF batchVars, BatchInv, BatchTypeOK, PlaceInv, GpuInv, PastInv, DepsInv,
      Registered, LeftInv, NoEarlyComplete
<1>2. ASSUME NEW b \in Batch, Step(b)
      PROVE  BatchInv'
  BY <1>2, StepType, StepPlace, StepGpu, StepPast, StepDeps, StepLeft,
     StepEarly DEF BatchInv
<1>3. ASSUME NEW b \in Batch, NEW t \in Task, Wait(t, b)
      PROVE  BatchInv'
  BY <1>3, WaitInv
<1>4. ASSUME NEW B \in SUBSET Batch, Drop(B) \/ QueueSubmit(B)
      PROVE  BatchInv'
  BY <1>4, ManyInv
<1> QED
  BY <1>1, <1>2, <1>3, <1>4 DEF BatchNext

LEMMA InvHolds == BatchSpec => []BatchInv
  BY InitInv, InvStep, PTL DEF BatchSpec
-----------------------------------------------------------------------------
\* Every variable keeps its type.
THEOREM BatchTypeCorrect == BatchSpec => []BatchTypeOK
<1>1. BatchInv => BatchTypeOK
  BY DEF BatchInv
<1> QED
  BY <1>1, InvHolds, PTL

\* A task that waits for a batch to be complete goes on only after the GPU
\* has executed the life it waits for, or that life was given up (_OnComplete,
\* _AddOnCompleteDependency).
THEOREM NeverEarly == BatchSpec => []NoEarlyComplete
<1>1. BatchInv => NoEarlyComplete
  BY DEF BatchInv
<1> QED
  BY <1>1, InvHolds, PTL

\* The one semaphore of an object of the pool tells its lives apart: a status
\* Completed is never due to the signal of an earlier life.
THEOREM SemaphoreTellsLife == BatchSpec => []SemaphoreOfLife
<1>1. BatchInv => SemaphoreOfLife
  BY DEF BatchInv, BatchTypeOK, GpuInv, SemaphoreOfLife
<1> QED
  BY <1>1, InvHolds, PTL

\* A complete batch leaves only those tasks waiting that have registered in
\* the gap between the release of the list and the change of the status.
THEOREM OnlyLateIsLeft == BatchSpec => []LeftBehindOnlyLate
<1>1. BatchInv => LeftBehindOnlyLate
  BY DEF BatchInv, LeftInv, LeftBehindOnlyLate
<1> QED
  BY <1>1, InvHolds, PTL
-----------------------------------------------------------------------------
(* The tasks that wait for a submission see a CompletionSource.            *)

Lives == Batch \X (1..MaxLives)

\* The life s[2] of the batch s[1] counts as submitted.
Over(s) ==
    \/ s[2] < life[s[1]]
    \/ s[2] = life[s[1]] /\ status[s[1]] \notin {"Initial", "Recorded"}

Finished == {s \in Lives : Over(s)}

WaitsFor == [t \in Task |-> IF waits[t] # None /\ waits[t].event = "submit"
                            THEN <<waits[t].batch, waits[t].life>>
                            ELSE None]

Released == {t \in released : waits[t].event = "submit"}

sourceVars == <<Finished, WaitsFor, Released>>

LEMMA SameWaits ==
    ASSUME waits' = waits, released' = released
    PROVE  WaitsFor' = WaitsFor /\ Released' = Released
  BY DEF WaitsFor, Released

\* A step of a batch changes nothing, or finishes its life, or releases tasks.
LEMMA StepSource ==
    ASSUME BatchInv, NEW b \in Batch, Step(b)
    PROVE  SubmitSource!Next \/ UNCHANGED sourceVars
<1> USE DEF BatchInv, BatchTypeOK, Set, Move, gpuVars, taskVars, lifeVars,
            sourceVars
<1>1. CASE \/ Create(b) \/ EndRecording(b) \/ SubmitError(b) \/ Enqueue(b)
           \/ GpuSignal(b) \/ OnSubmit(b) \/ OnComplete(b)
           \/ OnCompleteDone(b)
  <2>1. WaitsFor' = WaitsFor /\ Released' = Released
    BY <1>1, SameWaits
    DEF Create, EndRecording, SubmitError, Enqueue, GpuSignal, OnSubmit,
        OnComplete, OnCompleteDone
  <2>2. ASSUME NEW s \in Lives
        PROVE  Over(s)' <=> Over(s)
    BY <1>1, <2>2
    DEF Create, EndRecording, SubmitError, Enqueue, GpuSignal, OnSubmit,
        OnComplete, OnCompleteDone, Over, Lives
  <2>3. Finished' = Finished
    BY <2>2 DEF Finished, Lives
  <2> QED
    BY <2>1, <2>3
<1>2. CASE SubmitBegin(b) \/ ReleaseObject(b)
  <2>1. WaitsFor' = WaitsFor /\ Released' = Released
    BY <1>2, SameWaits DEF SubmitBegin, ReleaseObject
  <2>0. life[b] \in 1..MaxLives
    BY <1>2, BatchAssumption DEF SubmitBegin, ReleaseObject, PlaceInv
  <2>2. PICK s \in Lives : s = <<b, life[b]>>
    BY <2>0 DEF Lives
  <2>3. ASSUME NEW r \in Lives
        PROVE  Over(r)' <=> Over(r) \/ r = s
    <3>1. life' = life /\ status' = [status EXCEPT ![b] = status'[b]]
      BY <1>2 DEF SubmitBegin, ReleaseObject
    <3>2. status'[b] \notin {"Initial", "Recorded"}
      BY <1>2 DEF SubmitBegin, ReleaseObject
    <3>3. r[1] \in Batch /\ r[2] \in 1..MaxLives /\ r = <<r[1], r[2]>>
      BY <2>3 DEF Lives
    <3>4. CASE r = s
      BY <2>2, <3>1, <3>2, <3>4 DEF Over
    <3>5. CASE r # s
      BY <2>2, <3>1, <3>3, <3>5 DEF Over
    <3> QED
      BY <3>4, <3>5
  <2>4. Finished' = Finished \union {s}
    BY <2>2, <2>3 DEF Finished, Lives
  <2>5. CASE Over(s)
    <3>1. Finished' = Finished
      BY <2>2, <2>4, <2>5 DEF Finished
    <3> QED
      BY <2>1, <3>1
  <2>6. CASE ~Over(s)
    <3>1. s \notin Finished
      BY <2>6 DEF Finished
    <3>2. SubmitSource!Finish(s)
      BY <2>1, <2>4, <3>1
      DEF SubmitSource!Finish, Finished, WaitsFor, Released, Lives, Over
    <3> QED
      BY <2>2, <3>2 DEF SubmitSource!Next, Lives
  <2> QED
    BY <2>5, <2>6
<1>3. CASE OnSubmitRelease(b)
  <2>0. PICK T \in SUBSET Task : T = onSubmitDeps[b]
    OBVIOUS
  <2>1. WaitsFor' = WaitsFor /\ Finished' = Finished
    BY <1>3 DEF OnSubmitRelease, WaitsFor, Finished, Over
  <2>2. \A t \in T : t \notin released /\ Registered(t, b, "submit")
    BY <2>0 DEF DepsInv
  <2>3. Released' = Released \union T
    BY <1>3, <2>0, <2>2 DEF OnSubmitRelease, Released, Registered
  <2>4. ASSUME NEW t \in T
        PROVE  WaitsFor[t] \in Finished
    <3>1. WaitsFor[t] = <<b, waits[t].life>> /\ waits[t].life \in 1..life[b]
      BY <2>2 DEF WaitsFor, Registered
    <3>2. status[b] = "Submitted" /\ life[b] \in 1..MaxLives
      BY <1>3, BatchAssumption DEF OnSubmitRelease, PlaceInv
    <3> QED
      BY <3>1, <3>2, BatchAssumption DEF Finished, Over, Lives
  <2>5. T \intersect Released = {}
    BY <2>2 DEF Released
  <2>6. SubmitSource!Release(T)
    BY <2>1, <2>3, <2>4, <2>5
    DEF SubmitSource!Release, Finished, WaitsFor, Released, Lives, Over
  <2> QED
    BY <2>0, <2>1, <2>3, <2>6 DEF SubmitSource!Next
<1>4. CASE OnCompleteRelease(b)
  <2>1. \A t \in onCompleteDeps[b] : waits[t].event = "complete"
    BY DEF DepsInv, Registered
  <2> QED
    BY <1>4, <2>1 DEF OnCompleteRelease, WaitsFor, Released, Finished, Over
<1> QED
  BY <1>1, <1>2, <1>3, <1>4 DEF Step

\* The registration of a task for the submission is one of the abstraction.
LEMMA WaitSource ==
    ASSUME BatchInv, NEW b \in Batch, NEW t \in Task, Wait(t, b)
    PROVE  SubmitSource!Next \/ UNCHANGED sourceVars
<1> USE DEF BatchInv, BatchTypeOK, MayWait, NewWait, gpuVars, lifeVars,
            sourceVars
<1>1. t \notin released /\ waits[t] = None /\ status[b] # "Destroyed"
  BY DEF Wait, AddOnSubmitDependency, AddOnCompleteDependency, DepsInv
<1>2. Finished' = Finished
  BY DEF Wait, AddOnSubmitDependency, AddOnCompleteDependency, Finished, Over
<1>3. CASE AddOnCompleteDependency(t, b)
  <2>1. waits'[t] # None => waits'[t].event = "complete"
    BY <1>3 DEF AddOnCompleteDependency
  <2>2. WaitsFor' = WaitsFor
    BY <1>1, <1>3, <2>1 DEF AddOnCompleteDependency, WaitsFor
  <2>3. Released' = Released
    BY <1>1, <1>3 DEF AddOnCompleteDependency, Released
  <2> QED
    BY <1>2, <2>2, <2>3
<1>4. CASE AddOnSubmitDependency(t, b)
  <2>1. life[b] \in 1..MaxLives
    BY <1>1, BatchAssumption DEF PlaceInv
  <2>2. PICK s \in Lives : s = <<b, life[b]>>
    BY <2>1 DEF Lives
  <2>3. s \in Finished <=> IsSubmitted(b)
    BY <1>1, <2>2 DEF Finished, Over, IsSubmitted, Status
  <2>4. waits'[t] = [batch |-> b, event |-> "submit", life |-> life[b]]
    BY <1>4 DEF AddOnSubmitDependency
  <2>5. waits'[t] # None
    BY <2>4, NoneAssumption DEF Waiting, Event
  <2>6. WaitsFor' = [WaitsFor EXCEPT ![t] = s]
    BY <1>4, <2>2, <2>4, <2>5 DEF AddOnSubmitDependency, WaitsFor
  <2>7. Released' = Released \union (IF s \in Finished THEN {t} ELSE {})
    BY <1>1, <1>4, <2>3, <2>4 DEF AddOnSubmitDependency, Released
  <2>8. WaitsFor[t] = None
    BY <1>1 DEF WaitsFor
  <2>9. SubmitSource!Register(t, s)
    BY <1>2, <2>6, <2>7, <2>8
    DEF SubmitSource!Register, Finished, WaitsFor, Released, Lives, Over
  <2> QED
    BY <2>2, <2>9 DEF SubmitSource!Next, Lives
<1> QED
  BY <1>3, <1>4 DEF Wait

LEMMA ManySource ==
    ASSUME BatchInv, NEW B \in SUBSET Batch, Drop(B) \/ QueueSubmit(B)
    PROVE  UNCHANGED sourceVars
<1>1. WaitsFor' = WaitsFor /\ Released' = Released
  BY SameWaits DEF Drop, QueueSubmit, taskVars
<1>2. Finished' = Finished
  BY DEF Drop, QueueSubmit, lifeVars, Finished, Over
<1> QED
  BY <1>1, <1>2 DEF sourceVars

\* Who waits for a submission is released after the batch is submitted, is
\* pending or is given up, and only then (_AddOnSubmitDependency, _OnSubmit2).
THEOREM ImplementsSource == BatchSpec => OnSubmitSource
<1>1. BatchInit => SubmitSource!Init
  BY BatchAssumption DEF BatchInit, SubmitSource!Init
<1>2. BatchInv /\ [BatchNext]_batchVars => [SubmitSource!Next]_SubmitSource!vars
  <2> SUFFICES ASSUME BatchInv, [BatchNext]_batchVars
               PROVE  SubmitSource!Next \/ UNCHANGED sourceVars
    BY DEF sourceVars, SubmitSource!vars, Finished, WaitsFor, Released, Lives,
           Over
  <2>1. CASE UNCHANGED batchVars
    BY <2>1 DEF batchVars, sourceVars, Finished, WaitsFor, Released, Over
  <2> QED
    BY <2>1, StepSource, WaitSource, ManySource DEF BatchNext
<1> QED
  BY <1>1, <1>2, InvHolds, PTL
  DEF BatchSpec, OnSubmitSource, SubmitSource!SafeSpec
=============================================================================
