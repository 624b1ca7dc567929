---------------------- MODULE RenderTaskSchedulerProofs -----------------------
(***************************************************************************)
(* Proofs about RenderTaskScheduler, for every set of batches and readers  *)
(* and any number of submit indices and frames: the types, that the batches*)
(* of the scheduler are command batches, that the memory of a frame is     *)
(* used again only when the scheduler and the GPU are done with it, that   *)
(* the GPU is given the batches of a frame in their order (OrderOnGpu),    *)
(* that a readback goes on only after its batch (ReadBackAfterGpu), and    *)
(* that the end of a frame drops no batch (NothingDropped).                *)
(***************************************************************************)
EXTENDS RenderTaskScheduler, CommandBatchProofs, FiniteSetTheorems,
        SequenceTheorems

Label == {"free", "idle", "record", "recorded", "submit", "check", "lock",
          "mark", "send", "notify", "insert", "done", "wait", "exchange",
          "cancel", "end", "skip", "skipped", "poll", "scan", "begin",
          "release"}

\* What the threads have at hand.
LocalInv ==
    /\ pc \in [Process -> Label]
    /\ desc \in [Batch -> [frame : Nat, idx : Idx, mode : Modes \union {"Immediately"}]]
    /\ range \in [Process -> SUBSET Idx]
    /\ taken \in [Process -> Seq(Batch)]
    /\ onGpu \in Seq(Batch)
    /\ todo \in SUBSET Batch
    /\ polled \in Nat
    /\ pc[Main] = "begin" => frameId < LastFrame

RtsInv == RtsTypeOK /\ LocalInv
-----------------------------------------------------------------------------
LEMMA MapSeq ==
    ASSUME NEW k \in Nat, NEW S \in SUBSET Idx, NEW s \in [1..k -> S],
           \A i \in S : slot[i] \in Batch
    PROVE  [n \in DOMAIN s |-> slot[s[n]]] \in Seq(Batch)
<1>1. DOMAIN s = 1..k
  OBVIOUS
<1>2. [n \in 1..k |-> slot[s[n]]] \in [1..k -> Batch]
  OBVIOUS
<1>3. [1..k -> Batch] \subseteq Seq(Batch)
  BY SeqDef
<1> QED
  BY <1>1, <1>2, <1>3

LEMMA SetOfSeq ==
    ASSUME NEW s \in Seq(Batch)
    PROVE  ToSet(s) \subseteq Batch
  BY DEF ToSet

LEMMA FiniteIdx ==
    ASSUME NEW S \in SUBSET Idx
    PROVE  Cardinality(S) \in Nat
<1>1. IsFiniteSet(Idx)
  BY FrameAssumption, FS_Interval DEF Idx
<1> QED
  BY <1>1, FS_Subset, FS_CardinalityType

LEMMA IndexOfFrame ==
    ASSUME NEW f \in Nat
    PROVE  FrameIndex(f) \in FrameIdx
  BY FrameAssumption DEF FrameIndex, FrameIdx

LEMMA RtsInitInv == Init => RtsInv
<1> SUFFICES ASSUME Init PROVE RtsInv
  OBVIOUS
<1>1. RtsTypeOK
  BY FrameAssumption DEF Init, RtsTypeOK, NoBits
<1>2. NoDesc \in [frame : Nat, idx : Idx, mode : Modes \union {"Immediately"}]
  BY FrameAssumption DEF NoDesc, Idx
<1>3. /\ desc \in [Batch -> [frame : Nat, idx : Idx, mode : Modes \union {"Immediately"}]]
      /\ range \in [Process -> SUBSET Idx]
      /\ todo \in SUBSET Batch
      /\ polled \in Nat
  BY <1>2 DEF Init
<1>4. /\ taken \in [Process -> Seq(Batch)]
      /\ onGpu \in Seq(Batch)
  BY DEF Init
<1>5. /\ pc \in [Process -> Label]
      /\ pc[Main] # "begin"
  BY DEF Init, Label, Process
<1> QED
  BY <1>1, <1>3, <1>4, <1>5 DEF RtsInv, LocalInv
-----------------------------------------------------------------------------
(* Every step keeps the types. *)

\* The steps outside _FlushQueue() of the task that submits b.
LEMMA BatchTaskInv ==
    ASSUME RtsInv, NEW b \in Batch,
           \/ Record(b) \/ Submit(b) \/ SubmitFails(b)
           \/ SubmitToQueue(b) \/ Recycle(b)
    PROVE  RtsInv'
<1> USE ProcessAssumption
    DEF RtsInv, RtsTypeOK, LocalInv, Goto, Process, Label, frameVars,
        queueVars, localVars
<1>1. CASE Record(b)
  <2>1. PICK R \in SUBSET Reader :
          nextCycle' = [nextCycle EXCEPT
                            ![FrameIndex(desc[b].frame)] = @ \union R]
    BY <1>1 DEF Record
  <2>2. nextCycle' \in [FrameIdx -> SUBSET Reader]
    BY <2>1
  <2> QED
    BY <1>1, <2>2 DEF Record
<1>2. CASE Submit(b)
  BY <1>2 DEF Submit
<1>3. CASE SubmitFails(b)
  BY <1>3 DEF SubmitFails
<1>4. CASE SubmitToQueue(b)
  <2>1. desc[b].idx \in Idx
    OBVIOUS
  <2>2. /\ slot' \in [Idx -> Batch \union {None}]
        /\ bits' \in [required : SUBSET Idx, pending : SUBSET Idx,
                      submitted : SUBSET Idx]
    BY <1>4, <2>1 DEF SubmitToQueue
  <2> QED
    BY <1>4, <2>2 DEF SubmitToQueue
<1>5. CASE Recycle(b)
  <2>1. NoDesc \in [frame : Nat, idx : Idx, mode : Modes \union {"Immediately"}]
    BY FrameAssumption DEF NoDesc, Idx
  <2>2. desc' \in [Batch -> [frame : Nat, idx : Idx, mode : Modes \union {"Immediately"}]]
    BY <1>5, <2>1 DEF Recycle
  <2> QED
    BY <1>5, <2>2 DEF Recycle
<1> QED
  BY <1>1, <1>2, <1>3, <1>4, <1>5

\* The batches that a flush takes out of the queue.
LEMMA MarkTakes ==
    ASSUME RtsInv, NEW p \in Process, FlushMark(p)
    PROVE  /\ taken' \in [Process -> Seq(Batch)]
           /\ slot' \in [Idx -> Batch \union {None}]
<1>1. PICK s \in InOrder(Extracted(p)) :
        taken' = [taken EXCEPT ![p] = [n \in DOMAIN s |-> slot[s[n]]]]
  BY DEF FlushMark
<1>2. /\ Extracted(p) \in SUBSET Idx
      /\ \A i \in Extracted(p) : slot[i] \in Batch
  BY DEF RtsInv, RtsTypeOK, LocalInv, Extracted
<1>3. s \in [1..Cardinality(Extracted(p)) -> Extracted(p)]
  BY DEF InOrder
<1>4. [n \in DOMAIN s |-> slot[s[n]]] \in Seq(Batch)
  BY <1>2, <1>3, FiniteIdx, MapSeq
<1> QED
  BY <1>1, <1>4 DEF RtsInv, RtsTypeOK, LocalInv, FlushMark

LEMMA FlushInv ==
    ASSUME RtsInv, NEW p \in Process, FlushQueue(p)
    PROVE  RtsInv'
<1> USE ProcessAssumption
    DEF RtsInv, RtsTypeOK, LocalInv, Goto, Process, Label, Return, frameVars,
        queueVars, localVars
<1>1. CASE FlushCheck(p)
  BY <1>1 DEF FlushCheck
<1>2. CASE FlushTryLockFails(p)
  BY <1>2 DEF FlushTryLockFails
<1>3. CASE FlushLock(p)
  <2>1. FlushRange \in SUBSET Idx
    BY DEF FlushRange
  <2>2. range' \in [Process -> SUBSET Idx]
    BY <1>3, <2>1 DEF FlushLock
  <2> QED
    BY <1>3, <2>2 DEF FlushLock
<1>4. CASE FlushMark(p)
  <2>1. range' \in [Process -> SUBSET Idx]
    BY <1>4 DEF FlushMark
  <2>2. bits' \in [required : SUBSET Idx, pending : SUBSET Idx,
                   submitted : SUBSET Idx]
    BY <1>4 DEF FlushMark
  <2>3. queueGuard' \in Process \union {None} /\ pc' \in [Process -> Label]
        /\ (pc'[Main] = "begin" => frameId < LastFrame)
    BY <1>4 DEF FlushMark
  <2> QED
    BY <1>4, <2>1, <2>2, <2>3, MarkTakes DEF FlushMark
<1>5. CASE FlushSend(p)
  <2>1. onGpu' \in Seq(Batch)
    BY <1>5 DEF FlushSend
  <2> QED
    BY <1>5, <2>1 DEF FlushSend
<1>6. CASE FlushNotify(p)
  BY <1>6 DEF FlushNotify, rtsVars
<1>7. CASE FlushUnlock(p)
  BY <1>7 DEF FlushUnlock
<1>8. CASE FlushInsert(p)
  <2>1. ToSet(taken[p]) \subseteq Batch
    BY SetOfSeq
  <2>2. submitted' \in [FrameIdx -> SUBSET Batch]
    BY <1>8, <2>1 DEF FlushInsert
  <2>3. taken' \in [Process -> Seq(Batch)]
    BY <1>8 DEF FlushInsert
  <2> QED
    BY <1>8, <2>2, <2>3 DEF FlushInsert
<1> QED
  BY <1>1, <1>2, <1>3, <1>4, <1>5, <1>6, <1>7, <1>8 DEF FlushQueue

LEMMA EndTaskInv ==
    ASSUME RtsInv,
           \/ EndTaskStart \/ EndTaskExchange \/ EndTaskDone \/ EndTaskReset
    PROVE  RtsInv'
<1> USE ProcessAssumption
    DEF RtsInv, RtsTypeOK, LocalInv, Goto, Process, Label, Clear, NoBits,
        frameVars, queueVars, localVars
<1>1. CASE EndTaskStart
  BY <1>1 DEF EndTaskStart
<1>2. CASE EndTaskExchange
  BY <1>2 DEF EndTaskExchange
<1>3. CASE EndTaskDone
  BY <1>3 DEF EndTaskDone
<1>4. CASE EndTaskReset
  BY <1>4 DEF EndTaskReset
<1> QED
  BY <1>1, <1>2, <1>3, <1>4

LEMMA CreateInv ==
    ASSUME RtsInv, MainCreates
    PROVE  RtsInv'
<1> USE ProcessAssumption
    DEF RtsInv, RtsTypeOK, LocalInv, Goto, Process, Label, frameVars,
        queueVars, localVars
<1>1. ASSUME NEW b \in Batch, NEW i \in Idx, NEW m \in Modes,
             BeginCmdBatch(b, i, m)
      PROVE  RtsInv'
  <2>1. frameId \in Nat
    BY FrameAssumption
  <2>2. desc' \in [Batch -> [frame : Nat, idx : Idx, mode : Modes \union {"Immediately"}]]
    BY <1>1, <2>1 DEF BeginCmdBatch
  <2>3. bits' \in [required : SUBSET Idx, pending : SUBSET Idx,
                   submitted : SUBSET Idx]
    BY <1>1 DEF BeginCmdBatch
  <2> QED
    BY <1>1, <2>2, <2>3 DEF BeginCmdBatch
<1>2. CASE SkipCmdBatches
  BY <1>2 DEF SkipCmdBatches, Skipped
<1> QED
  BY <1>1, <1>2 DEF MainCreates

LEMMA GoesOnInv ==
    ASSUME RtsInv, MainGoesOn
    PROVE  RtsInv'
<1> USE FrameAssumption, ProcessAssumption
    DEF RtsInv, RtsTypeOK, LocalInv, Goto, Process, Label, frameVars,
        queueVars, localVars, OnNextFrame
<1>1. CASE EndFrame
  BY <1>1 DEF EndFrame
<1>2. CASE WaitNextFrame
  BY <1>2 DEF WaitNextFrame
<1>3. CASE Deinitialize
  BY <1>3 DEF Deinitialize
<1>4. CASE Poll
  <2>1. FrameIndex(polled) \in FrameIdx
    BY IndexOfFrame
  <2>2. todo' \in SUBSET Batch
    BY <1>4, <2>1 DEF Poll
  <2>3. frameGuard' \in [FrameIdx -> {None, Main}]
    BY <1>4 DEF Poll
  <2> QED
    BY <1>4, <2>2, <2>3 DEF Poll
<1>5. ASSUME NEW b \in Batch,
             ScanPending(b) \/ ScanComplete(b) \/ ScanCompleted(b)
      PROVE  RtsInv'
  <2>1. CASE ScanPending(b)
    BY <2>1 DEF ScanPending
  <2>2. CASE ScanComplete(b)
    BY <2>2 DEF ScanComplete, rtsVars
  <2>3. CASE ScanCompleted(b)
    <3>1. submitted' \in [FrameIdx -> SUBSET Batch]
      BY <2>3 DEF ScanCompleted
    <3> QED
      BY <2>3, <3>1 DEF ScanCompleted
  <2> QED
    BY <1>5, <2>1, <2>2, <2>3
<1>6. CASE PollEnd
  BY <1>6 DEF PollEnd
<1>7. CASE BeginFrame
  BY <1>7 DEF BeginFrame
<1>8. CASE FrameBegun
  BY <1>8 DEF FrameBegun
<1>9. CASE WaitAll
  <2>1. polled' \in Nat
    BY <1>9 DEF WaitAll
  <2>3. nextCycle' = [nextCycle EXCEPT ![FrameIndex(polled)] = {}]
    BY <1>9 DEF WaitAll
  <2>2. pc' \in [Process -> Label] /\ pc'[Main] # "begin"
    BY <1>9 DEF WaitAll
  <2> QED
    BY <1>9, <2>1, <2>2, <2>3 DEF WaitAll
<1> QED
  BY <1>1, <1>2, <1>3, <1>4, <1>5, <1>6, <1>7, <1>8, <1>9 DEF MainGoesOn

LEMMA ExecuteInv ==
    ASSUME RtsInv, Execute
    PROVE  RtsInv'
<1>1. onGpu' \in Seq(Batch)
  BY DEF RtsInv, LocalInv, Execute
<1> QED
  BY <1>1
  DEF RtsInv, RtsTypeOK, LocalInv, Execute, frameVars, queueVars, localVars

LEMMA RtsInvStep == RtsInv /\ [Next]_vars => RtsInv'
<1> SUFFICES ASSUME RtsInv, [Next]_vars
             PROVE  RtsInv'
  OBVIOUS
<1>1. CASE UNCHANGED vars
  BY <1>1 DEF RtsInv, RtsTypeOK, LocalInv, vars, rtsVars
<1>2. ASSUME NEW b \in Batch, BatchTask(b)
      PROVE  RtsInv'
  BY <1>2, BatchTaskInv, FlushInv DEF BatchTask, Process
<1>3. CASE EndFrameTask
  BY <1>3, EndTaskInv, FlushInv DEF EndFrameTask, Process
<1> QED
  BY <1>1, <1>2, <1>3, CreateInv, GoesOnInv, ExecuteInv DEF Next

LEMMA RtsInvHolds == Spec => []RtsInv
  BY RtsInitInv, RtsInvStep, PTL DEF Spec
-----------------------------------------------------------------------------
\* Every variable of the scheduler keeps its type.
THEOREM RtsTypeCorrect == Spec => []RtsTypeOK
<1>1. RtsInv => RtsTypeOK
  BY DEF RtsInv
<1> QED
  BY <1>1, RtsInvHolds, PTL
-----------------------------------------------------------------------------
(* The scheduler implements the life of its batches (BatchSpec). *)

LEMMA BatchTaskSteps ==
    ASSUME NEW b \in Batch,
           \/ Record(b) \/ Submit(b) \/ SubmitFails(b)
           \/ SubmitToQueue(b) \/ Recycle(b)
    PROVE  Step(b)
  BY DEF Record, Submit, SubmitFails, SubmitToQueue, Recycle, Step

LEMMA FlushSteps ==
    ASSUME RtsInv, NEW p \in Process, FlushQueue(p)
    PROVE  BatchNext \/ UNCHANGED batchVars
<1>1. taken[p] \in Seq(Batch)
  BY DEF RtsInv, LocalInv
<1>2. CASE FlushSend(p)
  <2>1. QueueSubmit(ToSet(taken[p]))
    BY <1>2 DEF FlushSend
  <2>2. PICK B \in SUBSET Batch : QueueSubmit(B)
    BY <1>1, <2>1, SetOfSeq
  <2> QED
    BY <2>2 DEF BatchNext
<1>3. CASE FlushNotify(p)
  <2>1. PICK n \in DOMAIN taken[p] :
            OnSubmit(taken[p][n]) \/ OnSubmitRelease(taken[p][n])
    BY <1>3 DEF FlushNotify
  <2>2. PICK b \in Batch : OnSubmit(b) \/ OnSubmitRelease(b)
    BY <1>1, <2>1
  <2>3. Step(b)
    BY <2>2 DEF Step
  <2> QED
    BY <2>3 DEF BatchNext
<1> QED
  BY <1>2, <1>3
  DEF FlushQueue, FlushCheck, FlushTryLockFails, FlushLock, FlushMark,
      FlushUnlock, FlushInsert

LEMMA ClearSteps ==
    ASSUME RtsInv, Clear
    PROVE  BatchNext
<1>1. PICK B \in SUBSET Batch : B = {slot[i] : i \in Idx} \ {None}
  BY DEF RtsInv, RtsTypeOK
<1>2. Drop(B)
  BY <1>1 DEF Clear
<1> QED
  BY <1>2 DEF BatchNext

LEMMA MainSteps ==
    ASSUME MainCreates \/ MainGoesOn
    PROVE  BatchNext \/ UNCHANGED batchVars
<1>1. ASSUME NEW b \in Batch, NEW i \in Idx, NEW m \in Modes,
             BeginCmdBatch(b, i, m)
      PROVE  Step(b)
  BY <1>1 DEF BeginCmdBatch, Step
<1>2. ASSUME NEW b \in Batch,
             ScanPending(b) \/ ScanComplete(b) \/ ScanCompleted(b)
      PROVE  Step(b) \/ UNCHANGED batchVars
  BY <1>2 DEF ScanPending, ScanComplete, ScanCompleted, Step
<1> QED
  BY <1>1, <1>2
  DEF MainCreates, MainGoesOn, SkipCmdBatches, EndFrame, WaitNextFrame,
      Deinitialize, Poll, PollEnd, BeginFrame, FrameBegun, WaitAll, BatchNext

LEMMA ExecuteSteps ==
    ASSUME RtsInv, Execute
    PROVE  BatchNext
<1>1. onGpu \in Seq(Batch) /\ onGpu # <<>>
  BY DEF RtsInv, LocalInv, Execute
<1>2. PICK b \in Batch : b = Head(onGpu)
  BY <1>1
<1>3. Step(b)
  BY <1>2 DEF Execute, Step
<1> QED
  BY <1>3 DEF BatchNext

LEMMA NextSteps == RtsInv /\ [Next]_vars => [BatchNext]_batchVars
<1> SUFFICES ASSUME RtsInv, [Next]_vars
             PROVE  BatchNext \/ UNCHANGED batchVars
  OBVIOUS
<1>1. ASSUME NEW b \in Batch, BatchTask(b)
      PROVE  BatchNext \/ UNCHANGED batchVars
  <2>1. CASE FlushQueue(b)
    BY <2>1, FlushSteps DEF Process
  <2> QED
    BY <1>1, <2>1, BatchTaskSteps DEF BatchTask, BatchNext
<1>2. CASE EndFrameTask
  <2>1. CASE FlushQueue(EndTask)
    BY <2>1, FlushSteps DEF Process
  <2> QED
    BY <1>2, <2>1, ClearSteps
    DEF EndFrameTask, EndTaskStart, EndTaskExchange, EndTaskDone, EndTaskReset
<1>3. CASE UNCHANGED vars
  BY <1>3 DEF vars
<1> QED
  BY <1>1, <1>2, <1>3, MainSteps, ExecuteSteps DEF Next

\* What the scheduler does with a batch is what a batch allows: every life of
\* it passes through _Submit(), _OnSubmit2() and _OnComplete() in this order,
\* and what is proved of BatchSpec holds for the batches of a frame.
THEOREM ImplementsBatches == Spec => BatchSpec
<1>1. Init => BatchInit
  BY DEF Init
<1> QED
  BY <1>1, NextSteps, RtsInvHolds, PTL DEF Spec, BatchSpec

\* So a batch of a frame is complete only after the GPU has signalled the
\* semaphore for this life of it.
COROLLARY FramesTellLife == Spec => []SemaphoreOfLife
  BY ImplementsBatches, SemaphoreTellsLife, PTL
-----------------------------------------------------------------------------
(* A frame begins with all indices free. *)

\* Main and the EndFrameTask take turns, and the indices are given back when
\* the EndFrameTask ends, in whichever way.
TurnInv ==
    /\ pc[Main] # "skip"
    /\ pc[Main] \in {"poll", "scan", "begin", "release", "end", "record",
                     "skipped"} => pc[EndTask] = "free"
    /\ pc[EndTask] = "free"
       /\ pc[Main] \in {"idle", "poll", "scan", "begin", "release", "end"}
       => bits.required = {}
    /\ pc[EndTask] = "end" => bits.required = {}
    /\ rtsStatus = "BeginFrame" => pc[Main] = "release"

LEMMA TurnInit == Init => TurnInv
  BY ProcessAssumption DEF Init, TurnInv, NoBits, Process

\* A task that flushes takes no part in this, but for the EndFrameTask.
LEMMA FlushTurn ==
    ASSUME RtsInv, TurnInv, NEW p \in Batch \union {EndTask}, FlushQueue(p)
    PROVE  TurnInv'
<1> USE ProcessAssumption
    DEF RtsInv, RtsTypeOK, LocalInv, TurnInv, Goto, Process, Return,
        frameVars, queueVars, localVars
<1>1. CASE FlushCheck(p)
  BY <1>1 DEF FlushCheck
<1>2. CASE FlushTryLockFails(p)
  BY <1>2 DEF FlushTryLockFails
<1>3. CASE FlushLock(p)
  BY <1>3 DEF FlushLock
<1>4. CASE FlushMark(p)
  <2>1. bits'.required = bits.required
    BY <1>4 DEF FlushMark
  <2> QED
    BY <1>4, <2>1 DEF FlushMark
<1>5. CASE FlushSend(p)
  BY <1>5 DEF FlushSend
<1>6. CASE FlushNotify(p)
  BY <1>6 DEF FlushNotify, rtsVars
<1>7. CASE FlushUnlock(p)
  BY <1>7 DEF FlushUnlock
<1>8. CASE FlushInsert(p)
  BY <1>8 DEF FlushInsert
<1> QED
  BY <1>1, <1>2, <1>3, <1>4, <1>5, <1>6, <1>7, <1>8 DEF FlushQueue

LEMMA BatchTaskTurn ==
    ASSUME RtsInv, TurnInv, NEW b \in Batch,
           \/ Record(b) \/ Submit(b) \/ SubmitFails(b)
           \/ SubmitToQueue(b) \/ Recycle(b)
    PROVE  TurnInv'
<1>1. /\ pc'[Main] = pc[Main] /\ pc'[EndTask] = pc[EndTask]
      /\ rtsStatus' = rtsStatus
  BY ProcessAssumption
  DEF RtsInv, LocalInv, Process, Goto, Record, Submit, SubmitFails,
      SubmitToQueue, Recycle, frameVars
<1>2. bits'.required = bits.required
  BY DEF RtsInv, RtsTypeOK, Record, Submit, SubmitFails, SubmitToQueue,
         Recycle, queueVars
<1> QED
  BY <1>1, <1>2 DEF TurnInv

LEMMA EndTaskTurn ==
    ASSUME RtsInv, TurnInv,
           \/ EndTaskStart \/ EndTaskExchange \/ EndTaskDone \/ EndTaskReset
    PROVE  TurnInv'
<1> USE ProcessAssumption
    DEF RtsInv, RtsTypeOK, LocalInv, TurnInv, Goto, Process, Clear, NoBits,
        frameVars, queueVars, localVars
<1>1. CASE EndTaskStart
  BY <1>1 DEF EndTaskStart
<1>2. CASE EndTaskExchange
  BY <1>2 DEF EndTaskExchange
<1>3. CASE EndTaskDone
  BY <1>3 DEF EndTaskDone
<1>4. CASE EndTaskReset
  BY <1>4 DEF EndTaskReset
<1> QED
  BY <1>1, <1>2, <1>3, <1>4

LEMMA CreateTurn ==
    ASSUME RtsInv, TurnInv, Skip # "after EndFrame", MainCreates
    PROVE  TurnInv'
<1> USE ProcessAssumption
    DEF RtsInv, RtsTypeOK, LocalInv, TurnInv, Goto, Process, frameVars,
        queueVars, localVars
<1>1. ASSUME NEW b \in Batch, NEW i \in Idx, NEW m \in Modes,
             BeginCmdBatch(b, i, m)
      PROVE  TurnInv'
  BY <1>1 DEF BeginCmdBatch
<1>2. CASE SkipCmdBatches
  BY <1>2 DEF SkipCmdBatches
<1> QED
  BY <1>1, <1>2 DEF MainCreates

LEMMA GoesOnTurn ==
    ASSUME RtsInv, TurnInv, Skip # "after EndFrame", MainGoesOn
    PROVE  TurnInv'
<1> USE ProcessAssumption
    DEF RtsInv, RtsTypeOK, LocalInv, TurnInv, Goto, Process, frameVars,
        queueVars, localVars
<1>1. CASE EndFrame
  BY <1>1 DEF EndFrame
<1>2. CASE WaitNextFrame
  BY <1>2 DEF WaitNextFrame
<1>3. CASE Deinitialize
  BY <1>3 DEF Deinitialize
<1>4. CASE Poll
  BY <1>4 DEF Poll
<1>5. ASSUME NEW b \in Batch,
             ScanPending(b) \/ ScanComplete(b) \/ ScanCompleted(b)
      PROVE  TurnInv'
  BY <1>5 DEF ScanPending, ScanComplete, ScanCompleted, rtsVars
<1>6. CASE PollEnd
  BY <1>6 DEF PollEnd
<1>7. CASE BeginFrame
  BY <1>7 DEF BeginFrame
<1>8. CASE FrameBegun
  BY <1>8 DEF FrameBegun
<1>9. CASE WaitAll
  BY <1>9 DEF WaitAll
<1> QED
  BY <1>1, <1>2, <1>3, <1>4, <1>5, <1>6, <1>7, <1>8, <1>9 DEF MainGoesOn

LEMMA TurnStep ==
    ASSUME Skip # "after EndFrame", RtsInv, TurnInv, [Next]_vars
    PROVE  TurnInv'
<1>1. CASE UNCHANGED vars
  BY <1>1 DEF TurnInv, vars, rtsVars
<1>2. CASE Execute
  BY <1>2 DEF TurnInv, Execute, frameVars, queueVars
<1>3. ASSUME NEW b \in Batch, BatchTask(b)
      PROVE  TurnInv'
  BY <1>3, BatchTaskTurn, FlushTurn DEF BatchTask
<1>4. CASE EndFrameTask
  BY <1>4, EndTaskTurn, FlushTurn DEF EndFrameTask
<1> QED
  BY <1>1, <1>2, <1>3, <1>4, CreateTurn, GoesOnTurn DEF Next

LEMMA TurnHolds == Skip # "after EndFrame" => (Spec => []TurnInv)
<1> SUFFICES ASSUME Skip # "after EndFrame"
             PROVE  Spec => []TurnInv
  OBVIOUS
<1>1. RtsInv /\ TurnInv /\ [Next]_vars => TurnInv'
  BY TurnStep
<1> QED
  BY <1>1, TurnInit, RtsInvHolds, PTL DEF Spec

\* Where SkipCmdBatches() comes before EndFrame(), if it comes at all, a frame
\* begins with all indices free, whatever the last one was left with.
THEOREM FrameBeginsFree ==
    ASSUME Skip # "after EndFrame"
    PROVE  Spec => []IndexIsFree
<1>1. TurnInv => IndexIsFree
  BY DEF TurnInv, IndexIsFree
<1> QED
  BY <1>1, TurnHolds, PTL

-----------------------------------------------------------------------------
(* FrameMemoryIsFree: who may still have a batch of a frame.               *)

\* The render tasks of the frame may run: the EndFrameTask has not begun.
Recording == pc[Main] \in {"record", "skipped"} \/ pc[EndTask] = "wait"

Early == {"record", "recorded", "submit"}

Held(b) == \E p \in Process : b \in ToSet(taken[p])

\* Where the batches are that p has taken out of the queue.
InHands(p) == {x \in Place : \/ pc[p] = "send" /\ x = "queued"
                             \/ pc[p] = "notify"
                                /\ x \in {"sent", "onSubmit", "tracked"}
                             \/ pc[p] = "insert" /\ x = "tracked"}

AlternateInv ==
    /\ pc[Main] \in {"idle", "poll", "scan", "begin", "release", "end",
                     "record", "skipped", "skip"}
    /\ pc[Main] \in {"poll", "scan", "begin", "release", "end", "record",
                     "skipped"} => pc[EndTask] = "free"
    /\ rtsStatus = "BeginFrame" => pc[Main] = "release"
    /\ rtsStatus = "Destroyed" => frameId = LastFrame

GuardInv ==
    \A p \in Process : pc[p] \in {"mark", "send", "notify"} => queueGuard = p

\* Who flushes has batches of the current frame only.
HandsInv ==
    \A p \in Process : \A b \in ToSet(taken[p]) :
        desc[b].frame = frameId /\ at[b] \in InHands(p)

\* A render task runs in the frame of its batch.
TaskInv ==
    \A b \in Batch :
        /\ status[b] = "Destroyed" => pc[b] = "free"
        /\ pc[b] \in {"free", "record", "recorded"} => at[b] = "user"
        /\ pc[b] \notin {"free", "done"} => desc[b].frame = frameId /\ Recording

\* A batch that is not submitted yet has a submit index for itself.
EarlyInv ==
    \A b \in Batch : pc[b] \in Early =>
        desc[b].idx \in bits.required /\ slot[desc[b].idx] = None

ApartInv ==
    \A b, c \in Batch :
        pc[b] \in Early /\ pc[c] \in Early /\ b # c =>
            desc[b].idx # desc[c].idx

\* The batches of the queue are not in anybody's hands.
InSlot(i) == slot[i] # None =>
                /\ at[slot[i]] = "queued"
                /\ desc[slot[i]].idx = i
                /\ i \in bits.required \/ pc[EndTask] = "cancel"
                /\ ~Held(slot[i])

SlotInv == \A i \in Idx : InSlot(i)

\* Who has a batch that is in the hands of the scheduler.
At(b) ==
    /\ at[b] = "submit" => pc[b] = "submit"
    /\ at[b] = "queued" => slot[desc[b].idx] = b \/ Held(b)
    /\ at[b] = "queued" =>
          /\ desc[b].frame = frameId
          /\ \/ pc[Main] \in {"record", "skipped"}
             \/ pc[EndTask] \notin {"free", "end"}
    /\ at[b] \in {"sent", "onSubmit"} => Held(b)
    /\ at[b] = "tracked" =>
          Held(b) \/ b \in submitted[FrameIndex(desc[b].frame)]
    /\ at[b] \in {"onComplete", "completing"} =>
          pc[Main] = "scan" /\ b \in todo

WhereInv == \A b \in Batch : At(b)

\* The list of a frame has the batches of one frame, of the last MaxFrames.
TrackInv ==
    \A x \in FrameIdx : \A b \in submitted[x] :
        /\ x = FrameIndex(desc[b].frame)
        /\ at[b] \in {"tracked", "onComplete", "completing"}
        /\ desc[b].frame <= frameId
        /\ frameId < desc[b].frame + MaxFrames

LookInv ==
    /\ pc[Main] = "scan" => todo \subseteq submitted[FrameIndex(polled)]
    /\ pc[Main] \in {"poll", "scan"} /\ frameId < LastFrame =>
          polled = frameId + 1
    /\ pc[Main] = "begin" => submitted[FrameIndex(frameId + 1)] = {}

FrameInv == /\ RtsInv
            /\ BatchTypeOK
            /\ AlternateInv
            /\ GuardInv
            /\ HandsInv
            /\ TaskInv
            /\ EarlyInv
            /\ ApartInv
            /\ SlotInv
            /\ WhereInv
            /\ TrackInv
            /\ LookInv

\* What is still to show for a step.
FrameRest == /\ AlternateInv
             /\ GuardInv
             /\ HandsInv
             /\ TaskInv
             /\ EarlyInv
             /\ ApartInv
             /\ SlotInv
             /\ WhereInv
             /\ TrackInv
             /\ LookInv
-----------------------------------------------------------------------------
LEMMA HeldAreBatches ==
    ASSUME RtsInv, NEW p \in Process
    PROVE  ToSet(taken[p]) \subseteq Batch
  BY SetOfSeq DEF RtsInv, LocalInv

\* While a frame is recorded or ended, Main is not on its way to the next.
LEMMA BusyMain ==
    ASSUME FrameInv, NEW p \in Batch \union {EndTask},
           pc[p] \notin {"free", "done"}
    PROVE  pc[Main] \notin {"poll", "scan", "begin", "release", "end"}
  BY DEF FrameInv, AlternateInv, TaskInv, Recording

\* Nobody has a batch in his hands that is not queued, sent or tracked.
LEMMA NotHeld ==
    ASSUME FrameInv, NEW b \in Batch,
           at[b] \in {"user", "submit", "onComplete", "completing"}
    PROVE  ~Held(b)
  BY DEF FrameInv, HandsInv, InHands, Held

LEMMA RemainderUnique ==
    ASSUME NEW m \in Nat \ {0}, NEW a \in Nat, NEW q \in Nat,
           NEW r \in 0..(m - 1), a = q * m + r
    PROVE  a % m = r
  OBVIOUS

LEMMA Remainder ==
    ASSUME NEW m \in Nat \ {0}, NEW a \in Nat
    PROVE  a = m * (a \div m) + (a % m)
  BY Z3

LEMMA Quotient ==
    ASSUME NEW m \in Nat \ {0}, NEW a \in Nat
    PROVE  a \div m \in Nat /\ a % m \in 0..(m - 1)
  OBVIOUS

\* The index of a frame comes round after MaxFrames frames.
LEMMA NextRound ==
    ASSUME NEW f \in Nat
    PROVE  FrameIndex(f + MaxFrames) = FrameIndex(f)
<1>0. MaxFrames \in Nat \ {0}
  BY FrameAssumption
<1>1. PICK q \in Nat, r \in 0..(MaxFrames - 1) :
        q = f \div MaxFrames /\ r = f % MaxFrames
  BY <1>0, Quotient
<1>2. f = MaxFrames * q + r
  BY <1>0, <1>1, Remainder
<1>3. f + MaxFrames = (q + 1) * MaxFrames + r
  BY <1>0, <1>1, <1>2
<1>4. f + MaxFrames \in Nat /\ q + 1 \in Nat
  BY <1>0, <1>1
<1>5. (f + MaxFrames) % MaxFrames = r
  BY <1>0, <1>1, <1>3, <1>4, RemainderUnique
<1> QED
  BY <1>1, <1>5 DEF FrameIndex

\* _FlushQueue() takes exactly the batches of the range.
LEMMA OrderIsWhole ==
    ASSUME NEW S \in SUBSET Idx, NEW s \in InOrder(S)
    PROVE  {s[n] : n \in DOMAIN s} = S
<1>1. IsFiniteSet(S) /\ Cardinality(S) \in Nat
  <2>1. IsFiniteSet(Idx)
    BY FrameAssumption, FS_Interval DEF Idx
  <2> QED
    BY <2>1, FS_Subset, FS_CardinalityType
<1> DEFINE D == 1..Cardinality(S)
<1>2. s \in [D -> S] /\ \A m, n \in D : m < n => s[m] < s[n]
  BY DEF InOrder
<1>3. \A n \in D : s[n] \in Int /\ n \in Int
  <2>1. Idx \subseteq Int
    BY FrameAssumption DEF Idx
  <2>2. \A n \in D : s[n] \in S
    BY <1>2
  <2>3. \A n \in D : n \in Int
    BY <1>1
  <2> QED
    BY <2>1, <2>2, <2>3
<1>4. \A m, n \in D : s[m] = s[n] => m = n
  BY <1>2, <1>3
<1>5. s \in Injection(D, S)
  BY <1>2, <1>4 DEF Injection, IsInjective
<1>6. IsFiniteSet(D) /\ Cardinality(D) = Cardinality(S)
  BY <1>1, FS_Interval
<1>7. s \in Surjection(D, S)
  BY <1>1, <1>5, <1>6, FS_Injection
<1> QED
  BY <1>2, <1>7 DEF Surjection
-----------------------------------------------------------------------------
LEMMA BeginCmdBatchFrame ==
    ASSUME FrameInv, NEW b \in Batch, NEW i \in Idx, NEW m \in Modes,
           BeginCmdBatch(b, i, m)
    PROVE  FrameRest'
<1>0. \A q \in Process : ToSet(taken[q]) \subseteq Batch
  BY HeldAreBatches DEF FrameInv
<1>1. /\ pc[Main] = "record" /\ pc[EndTask] = "free" /\ pc[b] = "free"
      /\ i \notin bits.required
      /\ at[b] = "user"
  BY DEF FrameInv, AlternateInv, TaskInv, BeginCmdBatch, Create, Set
<1>2. UNCHANGED <<at, slot, queueGuard, taken, todo, polled, submitted,
                  rtsStatus, frameId>>
  BY DEF BeginCmdBatch, Create, frameVars, localVars
<1>3. /\ \A p \in Process \ {b} : pc'[p] = pc[p]
      /\ pc'[b] = "record" /\ b \in Process
      /\ Main \in Process \ {b} /\ EndTask \in Process \ {b}
  BY ProcessAssumption DEF FrameInv, RtsInv, LocalInv, BeginCmdBatch, Process
<1>4. /\ \A c \in Batch \ {b} : desc'[c] = desc[c] /\ status'[c] = status[c]
      /\ desc'[b].frame = frameId /\ desc'[b].idx = i
      /\ status'[b] = "Initial"
  BY DEF FrameInv, RtsInv, LocalInv, BatchTypeOK, BeginCmdBatch, Create, Set
<1>5. bits'.required = bits.required \union {i}
  BY DEF FrameInv, RtsInv, RtsTypeOK, BeginCmdBatch
<1>6. ~Held(b) /\ Held(b)' = Held(b)
  BY <1>1, <1>2, NotHeld DEF Held
<1>7. slot[i] = None /\ \A k \in Idx : slot[k] # b
  BY <1>1, ProcessAssumption DEF FrameInv, SlotInv, InSlot, Process
<1>8. \A x \in FrameIdx : b \notin submitted[x]
  BY <1>1 DEF FrameInv, TrackInv
<1>9. Batch \subseteq Process
  BY DEF Process
<1>11. AlternateInv'
  BY <1>1, <1>2, <1>3 DEF FrameInv, AlternateInv
<1>12. GuardInv'
  BY <1>1, <1>2, <1>3 DEF FrameInv, GuardInv
<1>13. HandsInv'
  <2> SUFFICES ASSUME NEW q \in Process, NEW c \in ToSet(taken'[q])
               PROVE  desc'[c].frame = frameId' /\ at'[c] \in InHands(q)'
    BY DEF HandsInv
  <2>1. c \in ToSet(taken[q]) /\ c \in Batch /\ c # b /\ q # b
    BY <1>0, <1>1, <1>2, <1>6 DEF Held, FrameInv, HandsInv, InHands
  <2> QED
    BY <1>2, <1>3, <1>4, <2>1 DEF FrameInv, HandsInv, InHands
<1>14. TaskInv'
  BY <1>1, <1>2, <1>3, <1>4, <1>9 DEF FrameInv, TaskInv, Recording
<1>15. EarlyInv'
  BY <1>2, <1>3, <1>4, <1>5, <1>7, <1>9 DEF FrameInv, EarlyInv
<1>16. ApartInv'
  BY <1>1, <1>3, <1>4, <1>9 DEF FrameInv, ApartInv, EarlyInv
<1>17. SlotInv'
  <2> SUFFICES ASSUME NEW k \in Idx
               PROVE  InSlot(k)'
    BY DEF SlotInv
  <2>1. InSlot(k) /\ slot[k] \in Batch \union {None}
    BY DEF FrameInv, SlotInv, RtsInv, RtsTypeOK
  <2> QED
    BY <1>1, <1>2, <1>3, <1>4, <1>5, <1>7, <2>1 DEF InSlot, Held
<1>18. WhereInv'
  <2> SUFFICES ASSUME NEW c \in Batch
               PROVE  At(c)'
    BY DEF WhereInv
  <2>1. At(c)
    BY DEF FrameInv, WhereInv
  <2>2. CASE c = b
    BY <1>1, <1>2, <2>2 DEF At
  <2>3. CASE c # b
    <3>1. Held(c)' <=> Held(c)
      BY <1>2 DEF Held
    <3> QED
      BY <1>1, <1>2, <1>3, <1>4, <1>9, <2>1, <2>3, <3>1 DEF At
  <2> QED
    BY <2>2, <2>3
<1>19. TrackInv'
  <2>1. \A x \in FrameIdx : submitted[x] \subseteq Batch \ {b}
    BY <1>8 DEF FrameInv, RtsInv, RtsTypeOK
  <2> QED
    BY <1>2, <1>4, <2>1 DEF FrameInv, TrackInv
<1>20. LookInv'
  BY <1>1, <1>2, <1>3 DEF FrameInv, LookInv
<1> QED
  BY <1>11, <1>12, <1>13, <1>14, <1>15, <1>16, <1>17, <1>18, <1>19, <1>20
  DEF FrameRest

LEMMA RecordFrame ==
    ASSUME FrameInv, NEW b \in Batch, Record(b)
    PROVE  FrameRest'
<1>1. /\ pc[b] = "record"
      /\ UNCHANGED <<at, slot, queueGuard, taken, todo, polled, submitted,
                     rtsStatus, frameId, bits, desc>>
  BY DEF Record, EndRecording, Goto, queueVars, localVars
<1>2. /\ \A p \in Process \ {b} : pc'[p] = pc[p]
      /\ pc'[b] = "recorded" /\ b \in Process
      /\ Main \in Process \ {b} /\ EndTask \in Process \ {b}
      /\ Batch \subseteq Process
  BY ProcessAssumption
  DEF FrameInv, RtsInv, LocalInv, Record, Goto, Process
<1>3. \A c \in Batch : status'[c] = "Destroyed" => status[c] = "Destroyed"
  BY DEF FrameInv, BatchTypeOK, Record, EndRecording, Set
<1>4. \A c \in Batch : Held(c)' <=> Held(c)
  BY <1>1 DEF Held
<1>5. AlternateInv' /\ GuardInv' /\ LookInv'
  BY <1>1, <1>2 DEF FrameInv, AlternateInv, GuardInv, LookInv
<1>6. HandsInv' /\ TrackInv'
  BY <1>1, <1>2 DEF FrameInv, HandsInv, InHands, TrackInv
<1>7. TaskInv'
  BY <1>1, <1>2, <1>3 DEF FrameInv, TaskInv, Recording
<1>8. EarlyInv' /\ ApartInv'
  BY <1>1, <1>2 DEF FrameInv, EarlyInv, ApartInv, Early
<1>9. SlotInv'
  <2>1. \A i \in Idx : slot[i] # None => slot[i] \in Batch
    BY DEF FrameInv, RtsInv, RtsTypeOK
  <2> QED
    BY <1>1, <1>2, <1>4, <2>1 DEF FrameInv, SlotInv, InSlot
<1>10. WhereInv'
  BY <1>1, <1>2, <1>4 DEF FrameInv, WhereInv, At
<1> QED
  BY <1>5, <1>6, <1>7, <1>8, <1>9, <1>10 DEF FrameRest

LEMMA SubmitFrame ==
    ASSUME FrameInv, NEW b \in Batch,
           Submit(b) \/ SubmitFails(b)
    PROVE  FrameRest'
<1>1. /\ pc[b] \in {"recorded", "submit"}
      /\ UNCHANGED <<slot, queueGuard, taken, todo, polled, submitted,
                     rtsStatus, frameId, bits, desc>>
      /\ at[b] \in {"user", "submit"}
  BY DEF Submit, SubmitFails, SubmitBegin, SubmitError, Move, Goto, queueVars,
         frameVars, localVars
<1>2. /\ \A p \in Process \ {b} : pc'[p] = pc[p]
      /\ b \in Process
      /\ Main \in Process \ {b} /\ EndTask \in Process \ {b}
      /\ Batch \subseteq Process
  BY ProcessAssumption
  DEF FrameInv, RtsInv, LocalInv, Submit, SubmitFails, Goto, Process
<1>3. /\ \A c \in Batch \ {b} : at'[c] = at[c]
      /\ \/ pc'[b] = "submit" /\ at'[b] = "submit"
         \/ pc'[b] = "done" /\ at'[b] = "user"
  BY DEF FrameInv, RtsInv, LocalInv, BatchTypeOK, Submit, SubmitFails,
         SubmitBegin, SubmitError, Move, Goto, Process
<1>4. \A c \in Batch : status'[c] = "Destroyed" => status[c] = "Destroyed"
  BY DEF FrameInv, BatchTypeOK, Submit, SubmitFails, SubmitBegin,
         SubmitError, Set
<1>5. /\ \A c \in Batch : Held(c)' <=> Held(c)
      /\ ~Held(b)
  BY <1>1, NotHeld DEF Held
<1>6. AlternateInv' /\ GuardInv' /\ LookInv'
  BY <1>1, <1>2, <1>3 DEF FrameInv, AlternateInv, GuardInv, LookInv
<1>7. HandsInv'
  <2> SUFFICES ASSUME NEW q \in Process, NEW c \in ToSet(taken'[q])
               PROVE  desc'[c].frame = frameId' /\ at'[c] \in InHands(q)'
    BY DEF HandsInv
  <2>1. c \in ToSet(taken[q]) /\ c \in Batch /\ c # b
    BY <1>1, <1>5, HeldAreBatches DEF Held, FrameInv
  <2> QED
    BY <1>1, <1>2, <1>3, <2>1 DEF FrameInv, HandsInv, InHands
<1>8. TrackInv'
  <2>1. \A x \in FrameIdx : submitted[x] \subseteq Batch \ {b}
    BY <1>1 DEF FrameInv, TrackInv, RtsInv, RtsTypeOK
  <2> QED
    BY <1>1, <1>3, <2>1 DEF FrameInv, TrackInv
<1>9. TaskInv'
  BY <1>1, <1>2, <1>3, <1>4 DEF FrameInv, TaskInv, Recording
<1>10. EarlyInv' /\ ApartInv'
  BY <1>1, <1>2, <1>3 DEF FrameInv, EarlyInv, ApartInv, Early
<1>11. SlotInv'
  <2>1. \A i \in Idx : slot[i] # None => slot[i] \in Batch
    BY DEF FrameInv, RtsInv, RtsTypeOK
  <2> QED
    BY <1>1, <1>2, <1>3, <1>5, <2>1 DEF FrameInv, SlotInv, InSlot
<1>12. WhereInv'
  BY <1>1, <1>2, <1>3, <1>5 DEF FrameInv, WhereInv, At
<1> QED
  BY <1>6, <1>7, <1>8, <1>9, <1>10, <1>11, <1>12 DEF FrameRest

LEMMA SubmitToQueueFrame ==
    ASSUME FrameInv, NEW b \in Batch, SubmitToQueue(b)
    PROVE  FrameRest'
<1> DEFINE d == desc[b].idx
<1>1. /\ pc[b] = "submit" /\ at[b] = "submit"
      /\ UNCHANGED <<status, queueGuard, taken, todo, polled, submitted,
                     rtsStatus, frameId, desc>>
      /\ bits'.required = bits.required
  BY DEF FrameInv, RtsInv, RtsTypeOK, SubmitToQueue, Enqueue, Move, Goto,
         frameVars, localVars
<1>2. /\ \A p \in Process \ {b} : pc'[p] = pc[p]
      /\ pc'[b] \in {"done", "check"} /\ b \in Process
      /\ Main \in Process \ {b} /\ EndTask \in Process \ {b}
      /\ Batch \subseteq Process
  BY ProcessAssumption
  DEF FrameInv, RtsInv, LocalInv, SubmitToQueue, Goto, Process
<1>3. /\ \A c \in Batch \ {b} : at'[c] = at[c]
      /\ at'[b] = "queued"
  BY DEF FrameInv, BatchTypeOK, SubmitToQueue, Enqueue, Move
<1>4. /\ d \in Idx
      /\ \A i \in Idx \ {d} : slot'[i] = slot[i]
      /\ slot'[d] = b
      /\ b # None
  BY ProcessAssumption
  DEF FrameInv, RtsInv, RtsTypeOK, LocalInv, SubmitToQueue, Process
<1>5. /\ \A c \in Batch : Held(c)' <=> Held(c)
      /\ ~Held(b)
  BY <1>1, NotHeld DEF Held
<1>6. /\ d \in bits.required /\ slot[d] = None
      /\ \A c \in Batch \ {b} : pc[c] \in Early => desc[c].idx # d
      /\ desc[b].frame = frameId /\ Recording
  BY <1>1 DEF FrameInv, EarlyInv, ApartInv, TaskInv, Early
<1>7. AlternateInv' /\ GuardInv' /\ LookInv'
  BY <1>1, <1>2 DEF FrameInv, AlternateInv, GuardInv, LookInv
<1>8. HandsInv'
  <2> SUFFICES ASSUME NEW q \in Process, NEW c \in ToSet(taken'[q])
               PROVE  desc'[c].frame = frameId' /\ at'[c] \in InHands(q)'
    BY DEF HandsInv
  <2>1. c \in ToSet(taken[q]) /\ c \in Batch /\ c # b
    BY <1>1, <1>5, HeldAreBatches DEF Held, FrameInv
  <2> QED
    BY <1>1, <1>2, <1>3, <2>1 DEF FrameInv, HandsInv, InHands
<1>9. TrackInv'
  <2>1. \A x \in FrameIdx : submitted[x] \subseteq Batch \ {b}
    BY <1>1 DEF FrameInv, TrackInv, RtsInv, RtsTypeOK
  <2> QED
    BY <1>1, <1>3, <2>1 DEF FrameInv, TrackInv
<1>10. TaskInv'
  BY <1>1, <1>2, <1>3 DEF FrameInv, TaskInv, Recording
<1>11. EarlyInv'
  <2>1. \A c \in Batch : desc[c].idx \in Idx
    BY DEF FrameInv, RtsInv, LocalInv
  <2> QED
    BY <1>1, <1>2, <1>4, <1>6, <2>1 DEF FrameInv, EarlyInv, Early
<1>12. ApartInv'
  BY <1>1, <1>2 DEF FrameInv, ApartInv, Early
<1>13. SlotInv'
  <2> SUFFICES ASSUME NEW k \in Idx
               PROVE  InSlot(k)'
    BY DEF SlotInv
  <2>1. CASE k = d
    BY <1>1, <1>3, <1>4, <1>5, <1>6, <2>1 DEF InSlot
  <2>2. CASE k # d
    <3>1. InSlot(k) /\ (slot[k] # None => slot[k] \in Batch \ {b})
      BY <1>1 DEF FrameInv, SlotInv, InSlot, RtsInv, RtsTypeOK
    <3> QED
      BY <1>1, <1>2, <1>3, <1>4, <1>5, <2>2, <3>1 DEF InSlot
  <2> QED
    BY <2>1, <2>2
<1>14. WhereInv'
  <2> SUFFICES ASSUME NEW c \in Batch
               PROVE  At(c)'
    BY DEF WhereInv
  <2>1. CASE c = b
    BY <1>1, <1>2, <1>3, <1>4, <1>6, <2>1 DEF At, Recording
  <2>2. CASE c # b
    <3>1. At(c) /\ desc[c].idx \in Idx
      BY DEF FrameInv, WhereInv, RtsInv, LocalInv
    <3>2. slot[desc[c].idx] = c => slot'[desc[c].idx] = c
      BY <1>4, <1>6, <3>1, ProcessAssumption DEF Process
    <3> QED
      BY <1>1, <1>2, <1>3, <1>5, <2>2, <3>1, <3>2 DEF At
  <2> QED
    BY <2>1, <2>2
<1> QED
  BY <1>7, <1>8, <1>9, <1>10, <1>11, <1>12, <1>13, <1>14 DEF FrameRest

LEMMA RecycleFrame ==
    ASSUME FrameInv, NEW b \in Batch, Recycle(b)
    PROVE  FrameRest'
<1>1. /\ pc[b] = "done" /\ at[b] = "user"
      /\ UNCHANGED <<at, slot, queueGuard, taken, todo, polled, submitted,
                     rtsStatus, frameId, bits>>
  BY DEF Recycle, ReleaseObject, Goto, queueVars, frameVars, localVars
<1>2. /\ \A p \in Process \ {b} : pc'[p] = pc[p]
      /\ pc'[b] = "free" /\ b \in Process
      /\ Main \in Process \ {b} /\ EndTask \in Process \ {b}
      /\ Batch \subseteq Process
  BY ProcessAssumption
  DEF FrameInv, RtsInv, LocalInv, Recycle, Goto, Process
<1>3. \A c \in Batch \ {b} : desc'[c] = desc[c] /\ status'[c] = status[c]
  BY DEF FrameInv, RtsInv, LocalInv, BatchTypeOK, Recycle, ReleaseObject
<1>4. /\ \A c \in Batch : Held(c)' <=> Held(c)
      /\ ~Held(b)
  BY <1>1, NotHeld DEF Held
<1>5. AlternateInv' /\ GuardInv' /\ LookInv'
  BY <1>1, <1>2 DEF FrameInv, AlternateInv, GuardInv, LookInv
<1>6. HandsInv'
  <2> SUFFICES ASSUME NEW q \in Process, NEW c \in ToSet(taken'[q])
               PROVE  desc'[c].frame = frameId' /\ at'[c] \in InHands(q)'
    BY DEF HandsInv
  <2>1. c \in ToSet(taken[q]) /\ c \in Batch /\ c # b
    BY <1>1, <1>4, HeldAreBatches DEF Held, FrameInv
  <2> QED
    BY <1>1, <1>2, <1>3, <2>1 DEF FrameInv, HandsInv, InHands
<1>7. TrackInv'
  <2>1. \A x \in FrameIdx : submitted[x] \subseteq Batch \ {b}
    BY <1>1 DEF FrameInv, TrackInv, RtsInv, RtsTypeOK
  <2> QED
    BY <1>1, <1>3, <2>1 DEF FrameInv, TrackInv
<1>8. TaskInv'
  BY <1>1, <1>2, <1>3 DEF FrameInv, TaskInv, Recording
<1>9. EarlyInv' /\ ApartInv'
  BY <1>1, <1>2, <1>3 DEF FrameInv, EarlyInv, ApartInv, Early
<1>10. SlotInv'
  <2>1. \A i \in Idx : InSlot(i) /\ (slot[i] # None => slot[i] \in Batch \ {b})
    BY <1>1 DEF FrameInv, SlotInv, InSlot, RtsInv, RtsTypeOK
  <2> QED
    BY <1>1, <1>2, <1>3, <1>4, <2>1 DEF SlotInv, InSlot
<1>11. WhereInv'
  BY <1>1, <1>2, <1>3, <1>4 DEF FrameInv, WhereInv, At
<1> QED
  BY <1>5, <1>6, <1>7, <1>8, <1>9, <1>10, <1>11 DEF FrameRest
-----------------------------------------------------------------------------
(* _FlushQueue() *)

\* Nothing moves but the one who flushes, and the lock.
LEMMA FlushBeginsFrame ==
    ASSUME FrameInv, NEW p \in Batch \union {EndTask},
           FlushCheck(p) \/ FlushTryLockFails(p) \/ FlushLock(p)
    PROVE  FrameRest'
<1>1. /\ pc[p] \in {"check", "lock"}
      /\ UNCHANGED <<status, at, slot, taken, todo, polled, submitted,
                     rtsStatus, frameId, bits, desc>>
  BY DEF FlushCheck, FlushTryLockFails, FlushLock, Goto, batchVars, queueVars,
         frameVars, localVars
<1>2. /\ \A q \in Process \ {p} : pc'[q] = pc[q]
      /\ pc'[p] \in {"done", "exchange", "lock", "mark"} /\ p \in Process
      /\ p \in Batch => pc'[p] # "exchange"
      /\ p = EndTask => pc'[p] # "done"
      /\ Main \in Process \ {p} /\ EndTask \in Process
      /\ Batch \subseteq Process
  BY ProcessAssumption
  DEF FrameInv, RtsInv, LocalInv, FlushCheck, FlushTryLockFails, FlushLock,
      Goto, Return, Process
<1>3. /\ pc'[p] = "mark" => queueGuard = None /\ queueGuard' = p
      /\ queueGuard' # queueGuard => queueGuard = None
  BY <1>1
  DEF FrameInv, RtsInv, LocalInv, FlushCheck, FlushTryLockFails, FlushLock,
      Goto, Return, Process, queueVars
<1>4. \A c \in Batch : Held(c)' <=> Held(c)
  BY <1>1 DEF Held
<1>5. AlternateInv' /\ LookInv'
  BY <1>1, <1>2, ProcessAssumption DEF FrameInv, AlternateInv, LookInv
<1>6. GuardInv'
  BY <1>1, <1>2, <1>3, ProcessAssumption DEF FrameInv, GuardInv
<1>7. HandsInv' /\ TrackInv'
  BY <1>1, <1>2 DEF FrameInv, HandsInv, InHands, TrackInv
<1>8. TaskInv'
  BY <1>1, <1>2, ProcessAssumption DEF FrameInv, TaskInv, Recording
<1>9. EarlyInv' /\ ApartInv'
  BY <1>1, <1>2 DEF FrameInv, EarlyInv, ApartInv, Early
<1>10. SlotInv'
  <2>1. \A i \in Idx : slot[i] # None => slot[i] \in Batch
    BY DEF FrameInv, RtsInv, RtsTypeOK
  <2> QED
    BY <1>1, <1>2, <1>4, <2>1 DEF FrameInv, SlotInv, InSlot
<1>11. WhereInv'
  BY <1>1, <1>2, <1>4, ProcessAssumption DEF FrameInv, WhereInv, At
<1> QED
  BY <1>5, <1>6, <1>7, <1>8, <1>9, <1>10, <1>11 DEF FrameRest

LEMMA FlushMarkFrame ==
    ASSUME FrameInv, NEW p \in Batch \union {EndTask}, FlushMark(p)
    PROVE  FrameRest'
<1> DEFINE E == Extracted(p)
<1>1. /\ pc[p] = "mark"
      /\ UNCHANGED <<status, at, todo, polled, submitted, rtsStatus, frameId,
                     desc>>
      /\ bits'.required = bits.required
  BY DEF FrameInv, RtsInv, RtsTypeOK, FlushMark, Goto, batchVars, frameVars
<1>2. /\ \A q \in Process \ {p} : pc'[q] = pc[q] /\ taken'[q] = taken[q]
      /\ p \in Process
      /\ E = {} => pc'[p] \in {"done", "exchange"} /\ queueGuard' = None
      /\ E # {} => pc'[p] = "send" /\ queueGuard' = p
      /\ p \in Batch => pc'[p] # "exchange"
      /\ p = EndTask => pc'[p] # "done"
      /\ Main \in Process \ {p} /\ EndTask \in Process
      /\ Batch \subseteq Process
  BY ProcessAssumption
  DEF FrameInv, RtsInv, LocalInv, FlushMark, Goto, Return, Process
<1>3. /\ E \subseteq Idx
      /\ \A i \in E : slot[i] \in Batch /\ slot'[i] = None
      /\ \A i \in Idx \ E : slot'[i] = slot[i]
  <2>1. \A i \in E : i \in Idx /\ slot[i] # None
    BY <1>2 DEF FrameInv, RtsInv, LocalInv, Extracted
  <2>2. slot' = [i \in Idx |-> IF i \in E THEN None ELSE slot[i]]
    BY DEF FlushMark
  <2> QED
    BY <2>1, <2>2 DEF FrameInv, RtsInv, RtsTypeOK
<1>4. ToSet(taken'[p]) = {slot[i] : i \in E}
  <2>1. PICK s \in InOrder(E) :
          taken' = [taken EXCEPT ![p] = [n \in DOMAIN s |-> slot[s[n]]]]
    BY DEF FlushMark
  <2>2. taken'[p] = [n \in DOMAIN s |-> slot[s[n]]]
    BY <1>2, <2>1 DEF FrameInv, RtsInv, LocalInv
  <2>3. {s[n] : n \in DOMAIN s} = E
    BY <1>3, <2>1, OrderIsWhole
  <2> QED
    BY <2>2, <2>3 DEF ToSet
<1>5. /\ ToSet(taken[p]) = {}
      /\ \A q \in Process \ {p} : pc[q] \notin {"mark", "send", "notify"}
      /\ \A q \in Process : ToSet(taken[q]) \subseteq Batch
  BY <1>1, <1>2, HeldAreBatches DEF FrameInv, HandsInv, InHands, GuardInv
<1>6. \A i \in E : /\ at[slot[i]] = "queued"
                   /\ desc[slot[i]].idx = i
                   /\ desc[slot[i]].frame = frameId
  BY <1>3, ProcessAssumption
  DEF FrameInv, SlotInv, InSlot, WhereInv, At, Process
<1>7. \A c \in Batch :
        Held(c)' <=> Held(c) \/ \E i \in E : slot[i] = c
  BY <1>2, <1>4, <1>5 DEF Held
<1>8. AlternateInv' /\ LookInv'
  BY <1>1, <1>2, ProcessAssumption DEF FrameInv, AlternateInv, LookInv
<1>9. GuardInv'
  BY <1>2, <1>5 DEF GuardInv
<1>10. HandsInv'
  <2> SUFFICES ASSUME NEW q \in Process, NEW c \in ToSet(taken'[q])
               PROVE  desc'[c].frame = frameId' /\ at'[c] \in InHands(q)'
    BY DEF HandsInv
  <2>1. CASE q = p
    <3>1. PICK i \in E : c = slot[i]
      BY <1>4, <2>1
    <3>2. pc'[p] = "send"
      BY <1>2, <3>1
    <3> QED
      BY <1>1, <1>6, <2>1, <3>1, <3>2 DEF InHands, Place
  <2>2. CASE q # p
    BY <1>1, <1>2, <2>2 DEF FrameInv, HandsInv, InHands
  <2> QED
    BY <2>1, <2>2
<1>11. TrackInv'
  BY <1>1 DEF FrameInv, TrackInv
<1>12. TaskInv'
  BY <1>1, <1>2, ProcessAssumption DEF FrameInv, TaskInv, Recording
<1>13. EarlyInv' /\ ApartInv'
  <2>1. \A c \in Batch : desc[c].idx \in Idx
    BY DEF FrameInv, RtsInv, LocalInv
  <2> QED
    BY <1>1, <1>2, <1>3, <2>1 DEF FrameInv, EarlyInv, ApartInv, Early
<1>14. SlotInv'
  <2> SUFFICES ASSUME NEW k \in Idx, slot'[k] # None
               PROVE  InSlot(k)'
    BY DEF SlotInv, InSlot
  <2>1. k \notin E /\ slot'[k] = slot[k] /\ slot[k] \in Batch
    BY <1>3 DEF FrameInv, RtsInv, RtsTypeOK
  <2>2. InSlot(k)
    BY DEF FrameInv, SlotInv
  <2>3. \A i \in E : slot[i] # slot[k]
    BY <1>6, <2>1, <2>2 DEF InSlot
  <2> QED
    BY <1>1, <1>2, <1>7, <2>1, <2>2, <2>3 DEF InSlot
<1>15. WhereInv'
  <2> SUFFICES ASSUME NEW c \in Batch
               PROVE  At(c)'
    BY DEF WhereInv
  <2>1. At(c) /\ desc[c].idx \in Idx
    BY DEF FrameInv, WhereInv, RtsInv, LocalInv
  <2>2. slot[desc[c].idx] = c => slot'[desc[c].idx] = c \/ Held(c)'
    BY <1>3, <1>7, <2>1
  <2> QED
    BY <1>1, <1>2, <1>7, <2>1, <2>2, ProcessAssumption DEF At
<1> QED
  BY <1>8, <1>9, <1>10, <1>11, <1>12, <1>13, <1>14, <1>15 DEF FrameRest

LEMMA FlushSendFrame ==
    ASSUME FrameInv, NEW p \in Batch \union {EndTask}, FlushSend(p)
    PROVE  FrameRest'
<1> DEFINE T == ToSet(taken[p])
<1>1. /\ pc[p] = "send"
      /\ UNCHANGED <<status, slot, queueGuard, taken, todo, polled, submitted,
                     rtsStatus, frameId, bits, desc>>
  BY DEF FlushSend, QueueSubmit, Goto, queueVars, frameVars, localVars
<1>2. /\ \A q \in Process \ {p} : pc'[q] = pc[q]
      /\ pc'[p] = "notify" /\ p \in Process
      /\ Main \in Process \ {p} /\ EndTask \in Process
      /\ Batch \subseteq Process
  BY ProcessAssumption
  DEF FrameInv, RtsInv, LocalInv, FlushSend, Goto, Process
<1>3. /\ \A c \in Batch \ T : at'[c] = at[c]
      /\ \A c \in T : at[c] = "queued" /\ at'[c] = "sent"
      /\ T \subseteq Batch
  BY <1>2, HeldAreBatches DEF FrameInv, FlushSend, QueueSubmit, MoveAll
<1>4. /\ \A c \in Batch : Held(c)' <=> Held(c)
      /\ \A c \in T : Held(c)
      /\ \A q \in Process \ {p} : pc[q] \notin {"mark", "send", "notify"}
  BY <1>1, <1>2 DEF Held, FrameInv, GuardInv
<1>5. AlternateInv' /\ GuardInv' /\ LookInv'
  BY <1>1, <1>2, ProcessAssumption DEF FrameInv, AlternateInv, GuardInv, LookInv
<1>6. HandsInv'
  <2> SUFFICES ASSUME NEW q \in Process, NEW c \in ToSet(taken'[q])
               PROVE  desc'[c].frame = frameId' /\ at'[c] \in InHands(q)'
    BY DEF HandsInv
  <2>1. /\ c \in ToSet(taken[q]) /\ c \in Batch
        /\ desc[c].frame = frameId /\ at[c] \in InHands(q)
    BY <1>1, HeldAreBatches DEF FrameInv, HandsInv
  <2>2. CASE q = p
    BY <1>1, <1>2, <1>3, <2>1, <2>2 DEF InHands, Place
  <2>3. CASE q # p
    BY <1>1, <1>2, <1>3, <1>4, <2>1, <2>3 DEF InHands
  <2> QED
    BY <2>2, <2>3
<1>7. TrackInv'
  <2>1. \A x \in FrameIdx : submitted[x] \subseteq Batch \ T
    BY <1>3 DEF FrameInv, TrackInv, RtsInv, RtsTypeOK
  <2> QED
    BY <1>1, <1>3, <2>1 DEF FrameInv, TrackInv
<1>8. TaskInv'
  BY <1>1, <1>2, <1>3, ProcessAssumption DEF FrameInv, TaskInv, Recording
<1>9. EarlyInv' /\ ApartInv'
  BY <1>1, <1>2 DEF FrameInv, EarlyInv, ApartInv, Early
<1>10. SlotInv'
  <2> SUFFICES ASSUME NEW k \in Idx, slot[k] # None
               PROVE  InSlot(k)'
    BY <1>1 DEF SlotInv, InSlot
  <2>1. InSlot(k) /\ slot[k] \in Batch
    BY DEF FrameInv, SlotInv, RtsInv, RtsTypeOK
  <2>2. slot[k] \notin T
    BY <1>4, <2>1 DEF InSlot
  <2> QED
    BY <1>1, <1>2, <1>3, <1>4, <2>1, <2>2 DEF InSlot
<1>11. WhereInv'
  <2> SUFFICES ASSUME NEW c \in Batch
               PROVE  At(c)'
    BY DEF WhereInv
  <2>1. At(c)
    BY DEF FrameInv, WhereInv
  <2> QED
    BY <1>1, <1>2, <1>3, <1>4, <2>1, ProcessAssumption DEF At
<1> QED
  BY <1>5, <1>6, <1>7, <1>8, <1>9, <1>10, <1>11 DEF FrameRest

LEMMA FlushNotifyFrame ==
    ASSUME FrameInv, NEW p \in Batch \union {EndTask}, FlushNotify(p)
    PROVE  FrameRest'
<1>1. /\ pc[p] = "notify" /\ p \in Process
      /\ UNCHANGED <<slot, queueGuard, taken, todo, polled, submitted,
                     rtsStatus, frameId, bits, desc, pc>>
  BY DEF FlushNotify, rtsVars, Process
<1>2. PICK b \in Batch :
        /\ b \in ToSet(taken[p])
        /\ OnSubmit(b) \/ OnSubmitRelease(b)
  BY <1>1, HeldAreBatches DEF FlushNotify, FrameInv, ToSet
<1>3. /\ \A c \in Batch \ {b} : at'[c] = at[c]
      /\ at[b] \in {"sent", "onSubmit"}
      /\ at'[b] \in {"onSubmit", "tracked"}
      /\ \A c \in Batch : status'[c] = "Destroyed" => status[c] = "Destroyed"
  BY <1>2 DEF FrameInv, BatchTypeOK, OnSubmit, OnSubmitRelease, Set, Move
<1>4. \A c \in Batch : Held(c)' <=> Held(c)
  BY <1>1 DEF Held
<1>5. Held(b)
  BY <1>1, <1>2 DEF Held
<1>6. AlternateInv' /\ GuardInv' /\ LookInv'
  BY <1>1 DEF FrameInv, AlternateInv, GuardInv, LookInv
<1>7. HandsInv'
  <2> SUFFICES ASSUME NEW q \in Process, NEW c \in ToSet(taken'[q])
               PROVE  desc'[c].frame = frameId' /\ at'[c] \in InHands(q)'
    BY DEF HandsInv
  <2>1. /\ c \in ToSet(taken[q]) /\ c \in Batch
        /\ desc[c].frame = frameId /\ at[c] \in InHands(q)
    BY <1>1, HeldAreBatches DEF FrameInv, HandsInv
  <2> QED
    BY <1>1, <1>3, <2>1 DEF InHands, Place
<1>8. TrackInv'
  <2>1. \A x \in FrameIdx : submitted[x] \subseteq Batch \ {b}
    BY <1>3 DEF FrameInv, TrackInv, RtsInv, RtsTypeOK
  <2> QED
    BY <1>1, <1>3, <2>1 DEF FrameInv, TrackInv
<1>9. TaskInv'
  BY <1>1, <1>3 DEF FrameInv, TaskInv, Recording
<1>10. EarlyInv' /\ ApartInv'
  BY <1>1 DEF FrameInv, EarlyInv, ApartInv
<1>11. SlotInv'
  <2>1. \A i \in Idx : InSlot(i) /\ (slot[i] # None => slot[i] \in Batch \ {b})
    BY <1>3 DEF FrameInv, SlotInv, InSlot, RtsInv, RtsTypeOK
  <2> QED
    BY <1>1, <1>3, <1>4, <2>1 DEF SlotInv, InSlot
<1>12. WhereInv'
  BY <1>1, <1>3, <1>4, <1>5 DEF FrameInv, WhereInv, At
<1> QED
  BY <1>6, <1>7, <1>8, <1>9, <1>10, <1>11, <1>12 DEF FrameRest

LEMMA FlushUnlockFrame ==
    ASSUME FrameInv, NEW p \in Batch \union {EndTask}, FlushUnlock(p)
    PROVE  FrameRest'
<1>1. /\ pc[p] = "notify"
      /\ UNCHANGED <<status, at, slot, taken, todo, polled, submitted,
                     rtsStatus, frameId, bits, desc>>
      /\ \A c \in ToSet(taken[p]) : at[c] = "tracked"
  BY DEF FlushUnlock, Goto, batchVars, frameVars, localVars
<1>2. /\ \A q \in Process \ {p} : pc'[q] = pc[q]
      /\ pc'[p] = "insert" /\ p \in Process
      /\ Main \in Process \ {p} /\ EndTask \in Process
      /\ Batch \subseteq Process
  BY ProcessAssumption
  DEF FrameInv, RtsInv, LocalInv, FlushUnlock, Goto, Process
<1>3. \A c \in Batch : Held(c)' <=> Held(c)
  BY <1>1 DEF Held
<1>4. AlternateInv' /\ LookInv'
  BY <1>1, <1>2, ProcessAssumption DEF FrameInv, AlternateInv, LookInv
<1>5. GuardInv'
  BY <1>1, <1>2 DEF FrameInv, GuardInv
<1>6. HandsInv' /\ TrackInv'
  BY <1>1, <1>2 DEF FrameInv, HandsInv, InHands, Place, TrackInv
<1>7. TaskInv'
  BY <1>1, <1>2, ProcessAssumption DEF FrameInv, TaskInv, Recording
<1>8. EarlyInv' /\ ApartInv'
  BY <1>1, <1>2 DEF FrameInv, EarlyInv, ApartInv, Early
<1>9. SlotInv'
  <2>1. \A i \in Idx : slot[i] # None => slot[i] \in Batch
    BY DEF FrameInv, RtsInv, RtsTypeOK
  <2> QED
    BY <1>1, <1>2, <1>3, <2>1 DEF FrameInv, SlotInv, InSlot
<1>10. WhereInv'
  BY <1>1, <1>2, <1>3, ProcessAssumption DEF FrameInv, WhereInv, At
<1> QED
  BY <1>4, <1>5, <1>6, <1>7, <1>8, <1>9, <1>10 DEF FrameRest

LEMMA FlushInsertFrame ==
    ASSUME FrameInv, NEW p \in Batch \union {EndTask}, FlushInsert(p)
    PROVE  FrameRest'
<1> DEFINE T == ToSet(taken[p])
           x == FrameIndex(frameId)
<1>1. /\ pc[p] = "insert"
      /\ UNCHANGED <<status, at, slot, queueGuard, todo, polled, rtsStatus,
                     frameId, bits, desc>>
  BY DEF FlushInsert, Goto, batchVars, queueVars
<1>2. /\ \A q \in Process \ {p} : pc'[q] = pc[q] /\ taken'[q] = taken[q]
      /\ pc'[p] \in {"done", "exchange"} /\ p \in Process
      /\ p \in Batch => pc'[p] # "exchange"
      /\ p = EndTask => pc'[p] # "done"
      /\ taken'[p] = <<>>
      /\ Main \in Process \ {p} /\ EndTask \in Process
      /\ Batch \subseteq Process
  BY ProcessAssumption
  DEF FrameInv, RtsInv, LocalInv, FlushInsert, Goto, Return, Process
<1>3. FrameOf(p) = frameId /\ frameId \in Nat /\ x \in FrameIdx
  <2>1. frameId \in Nat
    BY FrameAssumption DEF FrameInv, RtsInv, RtsTypeOK
  <2>2. p # EndTask => desc[p].frame = frameId
    BY <1>1 DEF FrameInv, TaskInv
  <2> QED
    BY <2>1, <2>2, IndexOfFrame DEF FrameOf
<1>4. /\ submitted'[x] = submitted[x] \union T
      /\ \A y \in FrameIdx \ {x} : submitted'[y] = submitted[y]
  BY <1>3 DEF FrameInv, RtsInv, RtsTypeOK, FlushInsert
<1>5. \A c \in T : /\ c \in Batch
                   /\ desc[c].frame = frameId
                   /\ at[c] = "tracked"
  BY <1>1, <1>2, HeldAreBatches DEF FrameInv, HandsInv, InHands
<1>6. \A c \in Batch : /\ Held(c)' => Held(c)
                       /\ Held(c) => Held(c)' \/ c \in T
  <2>1. ToSet(taken'[p]) = {}
    BY <1>2 DEF ToSet
  <2> QED
    BY <1>2, <2>1 DEF Held
<1>7. pc[Main] \notin {"poll", "scan", "begin", "release", "end"}
  BY <1>1, BusyMain
<1>8. AlternateInv' /\ LookInv'
  BY <1>1, <1>2, <1>7, ProcessAssumption DEF FrameInv, AlternateInv, LookInv
<1>9. GuardInv'
  BY <1>1, <1>2 DEF FrameInv, GuardInv
<1>10. HandsInv'
  <2>1. ToSet(taken'[p]) = {}
    BY <1>2 DEF ToSet
  <2> QED
    BY <1>1, <1>2, <2>1 DEF FrameInv, HandsInv, InHands
<1>11. TrackInv'
  <2> SUFFICES ASSUME NEW y \in FrameIdx, NEW c \in submitted'[y]
               PROVE  /\ y = FrameIndex(desc[c].frame)
                      /\ at[c] \in {"tracked", "onComplete", "completing"}
                      /\ desc[c].frame <= frameId
                      /\ frameId < desc[c].frame + MaxFrames
    BY <1>1 DEF TrackInv
  <2>1. CASE c \in submitted[y]
    BY <2>1 DEF FrameInv, TrackInv
  <2>2. CASE c \notin submitted[y]
    BY <1>3, <1>4, <1>5, <2>2, FrameAssumption
  <2> QED
    BY <2>1, <2>2
<1>12. TaskInv'
  BY <1>1, <1>2, ProcessAssumption DEF FrameInv, TaskInv, Recording
<1>13. EarlyInv' /\ ApartInv'
  BY <1>1, <1>2 DEF FrameInv, EarlyInv, ApartInv, Early
<1>14. SlotInv'
  <2>1. \A i \in Idx : slot[i] # None => slot[i] \in Batch
    BY DEF FrameInv, RtsInv, RtsTypeOK
  <2> QED
    BY <1>1, <1>2, <1>6, <2>1 DEF FrameInv, SlotInv, InSlot
<1>15. WhereInv'
  <2> SUFFICES ASSUME NEW c \in Batch
               PROVE  At(c)'
    BY DEF WhereInv
  <2>1. At(c)
    BY DEF FrameInv, WhereInv
  <2>2. at[c] = "tracked" =>
            Held(c)' \/ c \in submitted'[FrameIndex(desc[c].frame)]
    <3>1. FrameIndex(desc[c].frame) \in FrameIdx
      BY IndexOfFrame DEF FrameInv, RtsInv, LocalInv
    <3> QED
      BY <1>4, <1>5, <1>6, <2>1, <3>1 DEF At
  <2> QED
    BY <1>1, <1>2, <1>5, <1>6, <2>1, <2>2, ProcessAssumption DEF At
<1> QED
  BY <1>8, <1>9, <1>10, <1>11, <1>12, <1>13, <1>14, <1>15 DEF FrameRest
-----------------------------------------------------------------------------
(* The end of a frame. *)

\* No flush is under way and no render task runs once the EndFrameTask is past
\* its dependencies and is not flushing itself.
LEMMA EndTaskAlone ==
    ASSUME FrameInv, pc[EndTask] \in {"exchange", "cancel", "end"}
    PROVE  /\ \A b \in Batch : pc[b] \in {"free", "done"}
           /\ \A b \in Batch : ~Held(b)
           /\ pc[Main] \in Label \ {"poll", "scan", "begin", "release", "end",
                                    "record", "skipped"}
<1>1. pc[Main] \in Label \ {"poll", "scan", "begin", "release", "end",
                            "record", "skipped"}
  BY DEF FrameInv, AlternateInv, RtsInv, LocalInv, Process
<1>2. \A b \in Batch : pc[b] \in {"free", "done"}
  BY <1>1 DEF FrameInv, TaskInv, Recording
<1>3. \A q \in Process : InHands(q) = {}
  <2>1. InHands(EndTask) = {}
    BY DEF InHands
  <2>2. InHands(Main) = {}
    <3>1. pc[Main] \notin {"send", "notify", "insert"}
      BY DEF FrameInv, AlternateInv
    <3> QED
      BY <3>1 DEF InHands
  <2>3. \A b \in Batch : InHands(b) = {}
    BY <1>2 DEF InHands
  <2> QED
    BY <2>1, <2>2, <2>3 DEF Process
<1> QED
  BY <1>1, <1>2, <1>3 DEF FrameInv, HandsInv, Held

LEMMA EndFrameFrame ==
    ASSUME FrameInv, EndFrame
    PROVE  FrameRest'
<1>1. /\ pc[Main] \in {"record", "skipped"} /\ pc[EndTask] = "free"
      /\ UNCHANGED <<status, at, slot, queueGuard, taken, todo, polled,
                     submitted, rtsStatus, frameId, bits, desc>>
  BY DEF FrameInv, AlternateInv, EndFrame, batchVars, queueVars, frameVars,
         localVars
<1>2. /\ \A q \in Process \ {Main, EndTask} : pc'[q] = pc[q]
      /\ pc'[EndTask] = "wait" /\ pc'[Main] \in {"skip", "idle"}
      /\ Batch \subseteq Process \ {Main, EndTask}
      /\ Main \in Process /\ EndTask \in Process
  BY ProcessAssumption DEF FrameInv, RtsInv, LocalInv, EndFrame, Process
<1>3. \A c \in Batch : Held(c)' <=> Held(c)
  BY <1>1 DEF Held
<1>4. AlternateInv' /\ GuardInv' /\ LookInv'
  BY <1>1, <1>2 DEF FrameInv, AlternateInv, GuardInv, LookInv
<1>5. HandsInv' /\ TrackInv'
  BY <1>1, <1>2 DEF FrameInv, HandsInv, InHands, TrackInv
<1>6. TaskInv'
  BY <1>1, <1>2 DEF FrameInv, TaskInv, Recording
<1>7. EarlyInv' /\ ApartInv'
  BY <1>1, <1>2 DEF FrameInv, EarlyInv, ApartInv
<1>8. SlotInv'
  <2>1. \A i \in Idx : slot[i] # None => slot[i] \in Batch
    BY DEF FrameInv, RtsInv, RtsTypeOK
  <2> QED
    BY <1>1, <1>2, <1>3, <2>1 DEF FrameInv, SlotInv, InSlot
<1>9. WhereInv'
  BY <1>1, <1>2, <1>3 DEF FrameInv, WhereInv, At
<1> QED
  BY <1>4, <1>5, <1>6, <1>7, <1>8, <1>9 DEF FrameRest

LEMMA SkipCmdBatchesFrame ==
    ASSUME FrameInv, SkipCmdBatches
    PROVE  FrameRest'
<1>1. /\ UNCHANGED <<status, at, slot, queueGuard, taken, todo, polled,
                     submitted, rtsStatus, frameId, desc>>
      /\ bits'.required = Idx
  BY DEF FrameInv, RtsInv, RtsTypeOK, SkipCmdBatches, Skipped, batchVars,
         frameVars, localVars
<1>2. /\ \A q \in Process \ {Main} : pc'[q] = pc[q]
      /\ \/ pc[Main] = "record" /\ pc'[Main] = "skipped"
         \/ pc[Main] = "skip" /\ pc'[Main] = "idle"
      /\ Batch \subseteq Process \ {Main}
      /\ Main \in Process /\ EndTask \in Process \ {Main}
  BY ProcessAssumption
  DEF FrameInv, RtsInv, LocalInv, SkipCmdBatches, Goto, Process
<1>3. \A c \in Batch : Held(c)' <=> Held(c)
  BY <1>1 DEF Held
<1>4. AlternateInv' /\ GuardInv' /\ LookInv'
  BY <1>1, <1>2 DEF FrameInv, AlternateInv, GuardInv, LookInv
<1>5. HandsInv' /\ TrackInv'
  BY <1>1, <1>2 DEF FrameInv, HandsInv, InHands, TrackInv
<1>6. TaskInv'
  BY <1>1, <1>2 DEF FrameInv, TaskInv, Recording
<1>7. EarlyInv' /\ ApartInv'
  <2>1. \A c \in Batch : desc[c].idx \in Idx
    BY DEF FrameInv, RtsInv, LocalInv
  <2> QED
    BY <1>1, <1>2, <2>1 DEF FrameInv, EarlyInv, ApartInv
<1>8. SlotInv'
  <2>1. \A i \in Idx : slot[i] # None => slot[i] \in Batch
    BY DEF FrameInv, RtsInv, RtsTypeOK
  <2> QED
    BY <1>1, <1>2, <1>3, <2>1 DEF FrameInv, SlotInv, InSlot
<1>9. WhereInv'
  BY <1>1, <1>2, <1>3 DEF FrameInv, WhereInv, At
<1> QED
  BY <1>4, <1>5, <1>6, <1>7, <1>8, <1>9 DEF FrameRest

LEMMA EndTaskStartFrame ==
    ASSUME FrameInv, EndTaskStart
    PROVE  FrameRest'
<1>1. /\ pc[EndTask] = "wait"
      /\ \A b \in Batch : pc[b] \in {"free", "done"}
      /\ UNCHANGED <<status, at, slot, queueGuard, taken, todo, polled,
                     submitted, rtsStatus, frameId, bits, desc>>
  BY DEF EndTaskStart, Goto, batchVars, queueVars, frameVars, localVars
<1>2. /\ \A q \in Process \ {EndTask} : pc'[q] = pc[q]
      /\ pc'[EndTask] \in {"cancel", "check"}
      /\ Batch \subseteq Process \ {EndTask}
      /\ Main \in Process \ {EndTask} /\ EndTask \in Process
  BY ProcessAssumption
  DEF FrameInv, RtsInv, LocalInv, EndTaskStart, Goto, Process
<1>3. \A c \in Batch : Held(c)' <=> Held(c)
  BY <1>1 DEF Held
<1>4. AlternateInv' /\ GuardInv' /\ LookInv'
  BY <1>1, <1>2 DEF FrameInv, AlternateInv, GuardInv, LookInv
<1>5. HandsInv' /\ TrackInv'
  BY <1>1, <1>2 DEF FrameInv, HandsInv, InHands, TrackInv
<1>6. TaskInv'
  BY <1>1, <1>2 DEF FrameInv, TaskInv
<1>7. EarlyInv' /\ ApartInv'
  BY <1>1, <1>2 DEF FrameInv, EarlyInv, ApartInv, Early
<1>8. SlotInv'
  <2>1. \A i \in Idx : slot[i] # None => slot[i] \in Batch
    BY DEF FrameInv, RtsInv, RtsTypeOK
  <2> QED
    BY <1>1, <1>2, <1>3, <2>1 DEF FrameInv, SlotInv, InSlot
<1>9. WhereInv'
  BY <1>1, <1>2, <1>3 DEF FrameInv, WhereInv, At
<1> QED
  BY <1>4, <1>5, <1>6, <1>7, <1>8, <1>9 DEF FrameRest

\* What Clear leaves: no batch is queued any more.
LEMMA Cleared ==
    ASSUME FrameInv, Clear, \A b \in Batch : ~Held(b)
    PROVE  /\ \A i \in Idx : slot'[i] = None
           /\ \A b \in Batch : /\ at'[b] # "queued"
                               /\ at[b] # "queued" => at'[b] = at[b]
                               /\ at[b] = "queued" => at'[b] = "user"
           /\ UNCHANGED status
<1> DEFINE D == {slot[i] : i \in Idx} \ {None}
<1>1. /\ \A b \in Batch : at'[b] = IF b \in D THEN "user" ELSE at[b]
      /\ \A b \in D : at[b] = "queued"
  BY DEF Clear, Drop, MoveAll
<1>2. \A b \in Batch : at[b] = "queued" => b \in D
  <2> SUFFICES ASSUME NEW b \in Batch, at[b] = "queued"
               PROVE  b \in D
    OBVIOUS
  <2>1. desc[b].idx \in Idx /\ slot[desc[b].idx] = b
    BY DEF FrameInv, RtsInv, LocalInv, WhereInv, At
  <2> QED
    BY <2>1, ProcessAssumption DEF Process
<1> QED
  BY <1>1, <1>2 DEF Clear, Drop

LEMMA EndTaskClearsFrame ==
    ASSUME FrameInv, EndTaskExchange \/ EndTaskReset
    PROVE  FrameRest'
<1>1. /\ pc[EndTask] \in {"exchange", "cancel"}
      /\ UNCHANGED <<status, queueGuard, taken, todo, polled, submitted,
                     frameId, desc>>
      /\ rtsStatus' \in {rtsStatus, "Idle"}
  BY DEF EndTaskExchange, EndTaskReset, Clear, Drop, Goto, batchVars,
         frameVars, localVars
<1>2. /\ \A q \in Process \ {EndTask} : pc'[q] = pc[q]
      /\ pc'[EndTask] \in {"end", "cancel", "free"}
      /\ Batch \subseteq Process \ {EndTask}
      /\ Main \in Process \ {EndTask} /\ EndTask \in Process
  BY ProcessAssumption
  DEF FrameInv, RtsInv, LocalInv, EndTaskExchange, EndTaskReset, Goto, Process
<1>3. /\ \A b \in Batch : pc[b] \in {"free", "done"}
      /\ \A b \in Batch : ~Held(b)
      /\ pc[Main] \in Label \ {"poll", "scan", "begin", "release", "end",
                               "record", "skipped"}
  BY <1>1, EndTaskAlone
<1>4. \/ Clear
      \/ pc'[EndTask] = "cancel" /\ UNCHANGED <<at, slot>>
  BY ProcessAssumption
  DEF FrameInv, RtsInv, LocalInv, EndTaskExchange, EndTaskReset, Goto,
      batchVars, Process
<1>5. \/ /\ \A i \in Idx : slot'[i] = None
         /\ \A b \in Batch : /\ at'[b] # "queued"
                             /\ at[b] # "queued" => at'[b] = at[b]
                             /\ at[b] = "queued" => at'[b] = "user"
      \/ pc'[EndTask] = "cancel" /\ UNCHANGED <<at, slot>>
  BY <1>3, <1>4, Cleared
<1>6. \A c \in Batch : ~Held(c)'
  BY <1>1, <1>3 DEF Held
<1>7. AlternateInv' /\ GuardInv' /\ LookInv'
  BY <1>1, <1>2, <1>3 DEF FrameInv, AlternateInv, GuardInv, LookInv
<1>8. HandsInv'
  BY <1>1, <1>3, HeldAreBatches DEF FrameInv, HandsInv, Held
<1>9. TrackInv'
  <2>1. \A x \in FrameIdx : submitted[x] \subseteq Batch
    BY DEF FrameInv, RtsInv, RtsTypeOK
  <2> QED
    BY <1>1, <1>5, <2>1 DEF FrameInv, TrackInv
<1>10. TaskInv'
  BY <1>1, <1>2, <1>3, <1>5 DEF FrameInv, TaskInv
<1>11. EarlyInv' /\ ApartInv'
  BY <1>2, <1>3 DEF EarlyInv, ApartInv, Early
<1>12. SlotInv'
  <2>1. \A i \in Idx : slot[i] # None => slot[i] \in Batch
    BY DEF FrameInv, RtsInv, RtsTypeOK
  <2> QED
    BY <1>1, <1>2, <1>5, <1>6, <2>1 DEF FrameInv, SlotInv, InSlot
<1>13. WhereInv'
  <2> SUFFICES ASSUME NEW c \in Batch
               PROVE  At(c)'
    BY DEF WhereInv
  <2>1. At(c)
    BY DEF FrameInv, WhereInv
  <2> QED
    BY <1>1, <1>2, <1>3, <1>5, <1>6, <2>1 DEF At
<1> QED
  BY <1>7, <1>8, <1>9, <1>10, <1>11, <1>12, <1>13 DEF FrameRest

LEMMA EndTaskDoneFrame ==
    ASSUME FrameInv, EndTaskDone
    PROVE  FrameRest'
<1>1. /\ pc[EndTask] = "end"
      /\ rtsStatus' = "Idle"
      /\ UNCHANGED <<status, at, slot, queueGuard, taken, todo, polled,
                     submitted, frameId, bits, desc>>
  BY DEF EndTaskDone, Goto, batchVars, queueVars, localVars
<1>2. /\ \A q \in Process \ {EndTask} : pc'[q] = pc[q]
      /\ pc'[EndTask] = "free"
      /\ Batch \subseteq Process \ {EndTask}
      /\ Main \in Process \ {EndTask} /\ EndTask \in Process
  BY ProcessAssumption
  DEF FrameInv, RtsInv, LocalInv, EndTaskDone, Goto, Process
<1>3. /\ \A b \in Batch : pc[b] \in {"free", "done"}
      /\ \A b \in Batch : ~Held(b)
  BY <1>1, EndTaskAlone
<1>4. \A c \in Batch : Held(c)' <=> Held(c)
  BY <1>1 DEF Held
<1>5. AlternateInv' /\ GuardInv' /\ LookInv'
  BY <1>1, <1>2 DEF FrameInv, AlternateInv, GuardInv, LookInv
<1>6. HandsInv' /\ TrackInv'
  BY <1>1, <1>2 DEF FrameInv, HandsInv, InHands, TrackInv
<1>7. TaskInv'
  BY <1>1, <1>2, <1>3 DEF FrameInv, TaskInv
<1>8. EarlyInv' /\ ApartInv'
  BY <1>1, <1>2 DEF FrameInv, EarlyInv, ApartInv
<1>9. SlotInv'
  <2>1. \A i \in Idx : slot[i] # None => slot[i] \in Batch
    BY DEF FrameInv, RtsInv, RtsTypeOK
  <2> QED
    BY <1>1, <1>2, <1>4, <2>1 DEF FrameInv, SlotInv, InSlot
<1>10. WhereInv'
  BY <1>1, <1>2, <1>4 DEF FrameInv, WhereInv, At
<1> QED
  BY <1>5, <1>6, <1>7, <1>8, <1>9, <1>10 DEF FrameRest
-----------------------------------------------------------------------------
(* Main goes on to the next frame. *)

LEMMA MainWalksFrame ==
    ASSUME FrameInv,
           \/ WaitNextFrame \/ Deinitialize \/ Poll \/ PollEnd \/ FrameBegun
           \/ WaitAll
    PROVE  FrameRest'
<1>1. UNCHANGED <<status, at, slot, queueGuard, taken, submitted, frameId,
                  bits, desc>>
  BY DEF WaitNextFrame, Deinitialize, Poll, PollEnd, FrameBegun, WaitAll,
         batchVars, queueVars, frameVars, localVars
<1>2. /\ \A q \in Process \ {Main} : pc'[q] = pc[q]
      /\ pc'[Main] \in {"poll", "scan", "begin", "release", "record", "end"}
      /\ Batch \subseteq Process \ {Main}
      /\ Main \in Process /\ EndTask \in Process \ {Main}
  BY ProcessAssumption
  DEF FrameInv, RtsInv, LocalInv, WaitNextFrame, Deinitialize, Poll, PollEnd,
      FrameBegun, WaitAll, Goto, Process
<1>3. /\ pc[EndTask] = "free"
      /\ pc[Main] \in {"idle", "poll", "scan", "release"}
      /\ pc[Main] = "scan" => todo = {}
  BY DEF FrameInv, AlternateInv, WaitNextFrame, Deinitialize, Poll, PollEnd,
         FrameBegun, WaitAll, Goto
<1>4. /\ \A b \in Batch : at[b] \notin {"queued", "onComplete", "completing"}
      /\ \A b \in Batch : pc[b] \in {"free", "done"}
  BY <1>3 DEF FrameInv, WhereInv, At, TaskInv, Recording
<1>5. \A c \in Batch : Held(c)' <=> Held(c)
  BY <1>1 DEF Held
<1>6. AlternateInv'
  <2>1. pc'[Main] # pc[Main] \/ rtsStatus' = "Destroyed"
    BY <1>2, <1>3
    DEF FrameInv, RtsInv, LocalInv, WaitNextFrame, Deinitialize, Poll,
        PollEnd, FrameBegun, WaitAll, Goto
  <2>2. /\ rtsStatus' = "BeginFrame" =>
              rtsStatus = "BeginFrame" /\ pc[Main] # "release"
        /\ rtsStatus' = "Destroyed" => frameId = LastFrame
    BY DEF FrameInv, AlternateInv, WaitNextFrame, Deinitialize, Poll, PollEnd,
           FrameBegun, WaitAll, Goto, frameVars
  <2> QED
    BY <1>1, <1>2, <1>3, <2>2 DEF FrameInv, AlternateInv
<1>7. LookInv'
  <2>1. CASE WaitNextFrame \/ Deinitialize
    <3>1. /\ pc'[Main] = "poll"
          /\ frameId < LastFrame => polled' = frameId + 1
      BY <2>1, FrameAssumption
      DEF FrameInv, RtsInv, RtsTypeOK, LocalInv, WaitNextFrame, Deinitialize,
          Goto, Process
    <3> QED
      BY <1>1, <3>1 DEF LookInv
  <2>2. CASE Poll
    <3>1. /\ pc[Main] = "poll" /\ pc'[Main] = "scan"
          /\ todo' = submitted[FrameIndex(polled)]
          /\ polled' = polled
      BY <2>2 DEF FrameInv, RtsInv, LocalInv, Poll, Goto, Process
    <3> QED
      BY <1>1, <3>1 DEF FrameInv, LookInv
  <2>3. CASE PollEnd
    <3>1. /\ pc[Main] = "scan" /\ pc'[Main] \in {"poll", "begin", "release"}
          /\ pc'[Main] = "begin" =>
                submitted[FrameIndex(polled)] = {} /\ frameId < LastFrame
          /\ polled' = polled
      BY <2>3 DEF FrameInv, RtsInv, LocalInv, PollEnd, Goto, Process, localVars
    <3> QED
      BY <1>1, <3>1 DEF FrameInv, LookInv
  <2>4. CASE FrameBegun \/ WaitAll
    <3>1. /\ pc'[Main] \in {"record", "poll", "end"}
          /\ pc'[Main] = "poll" => frameId = LastFrame
      BY <2>4
      DEF FrameInv, AlternateInv, RtsInv, LocalInv, FrameBegun, WaitAll, Goto,
          Process
    <3> QED
      BY <1>1, <3>1, FrameAssumption DEF FrameInv, RtsInv, RtsTypeOK, LookInv
  <2> QED
    BY <2>1, <2>2, <2>3, <2>4
<1>8. GuardInv'
  BY <1>1, <1>2 DEF FrameInv, GuardInv
<1>9. HandsInv' /\ TrackInv'
  BY <1>1, <1>2, <1>3 DEF FrameInv, HandsInv, InHands, TrackInv
<1>10. TaskInv'
  BY <1>1, <1>2, <1>4 DEF FrameInv, TaskInv
<1>11. EarlyInv' /\ ApartInv'
  BY <1>1, <1>2 DEF FrameInv, EarlyInv, ApartInv
<1>12. SlotInv'
  <2>1. \A i \in Idx : slot[i] # None => slot[i] \in Batch
    BY DEF FrameInv, RtsInv, RtsTypeOK
  <2> QED
    BY <1>1, <1>2, <1>5, <2>1 DEF FrameInv, SlotInv, InSlot
<1>13. WhereInv'
  BY <1>1, <1>2, <1>4, <1>5 DEF FrameInv, WhereInv, At
<1> QED
  BY <1>6, <1>7, <1>8, <1>9, <1>10, <1>11, <1>12, <1>13 DEF FrameRest

LEMMA ScanPendingFrame ==
    ASSUME FrameInv, NEW b \in Batch, ScanPending(b)
    PROVE  FrameRest'
<1>1. /\ UNCHANGED <<status, at, slot, queueGuard, taken, submitted, frameId,
                     rtsStatus, bits, desc, pc, polled>>
      /\ todo' = todo \ {b}
      /\ at[b] = "tracked"
  BY DEF ScanPending, batchVars, queueVars, frameVars
<1>2. \A c \in Batch : Held(c)' <=> Held(c)
  BY <1>1 DEF Held
<1>3. AlternateInv' /\ GuardInv' /\ LookInv'
  BY <1>1 DEF FrameInv, AlternateInv, GuardInv, LookInv
<1>4. HandsInv' /\ TrackInv' /\ TaskInv' /\ EarlyInv' /\ ApartInv'
  BY <1>1
  DEF FrameInv, HandsInv, InHands, TrackInv, TaskInv, Recording, EarlyInv,
      ApartInv
<1>5. SlotInv'
  <2>1. \A i \in Idx : slot[i] # None => slot[i] \in Batch
    BY DEF FrameInv, RtsInv, RtsTypeOK
  <2> QED
    BY <1>1, <1>2, <2>1 DEF FrameInv, SlotInv, InSlot
<1>6. WhereInv'
  BY <1>1, <1>2 DEF FrameInv, WhereInv, At
<1> QED
  BY <1>3, <1>4, <1>5, <1>6 DEF FrameRest

LEMMA ScanCompleteFrame ==
    ASSUME FrameInv, NEW b \in Batch, ScanComplete(b)
    PROVE  FrameRest'
<1>1. /\ UNCHANGED <<slot, queueGuard, taken, submitted, frameId, rtsStatus,
                     bits, desc, pc, polled, todo, status>>
      /\ pc[Main] = "scan" /\ b \in todo
  BY DEF ScanComplete, OnComplete, OnCompleteRelease, rtsVars
<1>2. /\ \A c \in Batch \ {b} : at'[c] = at[c]
      /\ at[b] \in {"tracked", "onComplete"}
      /\ at'[b] \in {"onComplete", "completing"}
  BY DEF FrameInv, BatchTypeOK, ScanComplete, OnComplete, OnCompleteRelease,
         Move
<1>3. \A c \in Batch : ~Held(c)
  <2>1. \A p \in Process : InHands(p) = {}
    <3>1. \A p \in Batch \union {EndTask} : pc[p] \in {"free", "done"}
      BY <1>1, BusyMain
    <3> QED
      BY <1>1, <3>1 DEF InHands, Process
  <2> QED
    BY <2>1 DEF FrameInv, HandsInv, Held
<1>4. \A c \in Batch : ~Held(c)'
  BY <1>1, <1>3 DEF Held
<1>5. AlternateInv' /\ GuardInv' /\ LookInv'
  BY <1>1 DEF FrameInv, AlternateInv, GuardInv, LookInv
<1>6. HandsInv'
  BY <1>1, <1>3, HeldAreBatches DEF FrameInv, HandsInv, Held
<1>7. TrackInv'
  <2>1. \A x \in FrameIdx : submitted[x] \subseteq Batch
    BY DEF FrameInv, RtsInv, RtsTypeOK
  <2> QED
    BY <1>1, <1>2, <2>1 DEF FrameInv, TrackInv
<1>8. TaskInv' /\ EarlyInv' /\ ApartInv'
  BY <1>1, <1>2 DEF FrameInv, TaskInv, Recording, EarlyInv, ApartInv
<1>9. SlotInv'
  <2>1. \A i \in Idx : InSlot(i) /\ (slot[i] # None => slot[i] \in Batch \ {b})
    BY <1>2 DEF FrameInv, SlotInv, InSlot, RtsInv, RtsTypeOK
  <2> QED
    BY <1>1, <1>2, <1>4, <2>1 DEF SlotInv, InSlot
<1>10. WhereInv'
  BY <1>1, <1>2, <1>3, <1>4 DEF FrameInv, WhereInv, At
<1> QED
  BY <1>5, <1>6, <1>7, <1>8, <1>9, <1>10 DEF FrameRest

LEMMA ScanCompletedFrame ==
    ASSUME FrameInv, NEW b \in Batch, ScanCompleted(b)
    PROVE  FrameRest'
<1> DEFINE x == FrameIndex(polled)
<1>1. /\ UNCHANGED <<slot, queueGuard, taken, frameId, rtsStatus, bits, desc,
                     pc, polled>>
      /\ pc[Main] = "scan" /\ b \in todo
      /\ todo' = todo \ {b}
  BY DEF ScanCompleted, queueVars
<1>2. /\ \A c \in Batch \ {b} : at'[c] = at[c]
      /\ at[b] = "completing" /\ at'[b] = "user"
      /\ \A c \in Batch : status'[c] = "Destroyed" => status[c] = "Destroyed"
  BY DEF FrameInv, BatchTypeOK, ScanCompleted, OnCompleteDone, Set, Move
<1>3. /\ submitted'[x] = submitted[x] \ {b}
      /\ \A y \in FrameIdx \ {x} : submitted'[y] = submitted[y]
      /\ x \in FrameIdx
  BY IndexOfFrame DEF FrameInv, RtsInv, RtsTypeOK, LocalInv, ScanCompleted
<1>4. /\ \A c \in Batch : Held(c)' <=> Held(c)
      /\ ~Held(b)
  BY <1>1, <1>2, NotHeld DEF Held
<1>5. \A y \in FrameIdx : /\ submitted'[y] \subseteq submitted[y]
                          /\ b \notin submitted'[y]
                          /\ submitted[y] \subseteq submitted'[y] \union {b}
                          /\ submitted[y] \subseteq Batch
  <2>1. b \in submitted[x]
    BY <1>1 DEF FrameInv, LookInv
  <2>2. \A y \in FrameIdx : b \in submitted[y] => y = x
    BY <1>3, <2>1 DEF FrameInv, TrackInv
  <2> QED
    BY <1>3, <2>2 DEF FrameInv, RtsInv, RtsTypeOK
<1>6. AlternateInv' /\ GuardInv'
  BY <1>1 DEF FrameInv, AlternateInv, GuardInv
<1>7. LookInv'
  BY <1>1, <1>3 DEF FrameInv, LookInv
<1>8. HandsInv'
  <2> SUFFICES ASSUME NEW q \in Process, NEW c \in ToSet(taken'[q])
               PROVE  desc'[c].frame = frameId' /\ at'[c] \in InHands(q)'
    BY DEF HandsInv
  <2>1. c \in ToSet(taken[q]) /\ c \in Batch /\ c # b
    BY <1>1, <1>4, HeldAreBatches DEF Held, FrameInv
  <2> QED
    BY <1>1, <1>2, <2>1 DEF FrameInv, HandsInv, InHands
<1>9. TrackInv'
  BY <1>1, <1>2, <1>5 DEF FrameInv, TrackInv
<1>10. TaskInv' /\ EarlyInv' /\ ApartInv'
  BY <1>1, <1>2 DEF FrameInv, TaskInv, Recording, EarlyInv, ApartInv
<1>11. SlotInv'
  <2>1. \A i \in Idx : InSlot(i) /\ (slot[i] # None => slot[i] \in Batch \ {b})
    BY <1>2 DEF FrameInv, SlotInv, InSlot, RtsInv, RtsTypeOK
  <2> QED
    BY <1>1, <1>2, <1>4, <2>1 DEF SlotInv, InSlot
<1>12. WhereInv'
  <2> SUFFICES ASSUME NEW c \in Batch
               PROVE  At(c)'
    BY DEF WhereInv
  <2>1. At(c) /\ FrameIndex(desc[c].frame) \in FrameIdx
    BY IndexOfFrame DEF FrameInv, WhereInv, RtsInv, LocalInv
  <2>2. CASE c = b
    BY <1>2, <2>2 DEF At
  <2>3. CASE c # b
    BY <1>1, <1>2, <1>4, <1>5, <2>1, <2>3 DEF At
  <2> QED
    BY <2>2, <2>3
<1> QED
  BY <1>6, <1>7, <1>8, <1>9, <1>10, <1>11, <1>12 DEF FrameRest

\* The next frame takes over the index: its list is empty, and the lists of
\* the others belong to later frames.
LEMMA BeginFrameFrame ==
    ASSUME FrameInv, BeginFrame
    PROVE  FrameRest'
<1>1. /\ UNCHANGED <<status, at, slot, queueGuard, taken, submitted, bits,
                     desc, polled, todo>>
      /\ pc[Main] = "begin" /\ pc[EndTask] = "free"
      /\ frameId' = frameId + 1
      /\ rtsStatus' = "BeginFrame"
  BY DEF FrameInv, AlternateInv, BeginFrame, Goto, batchVars, queueVars,
         localVars
<1>2. /\ \A q \in Process \ {Main} : pc'[q] = pc[q]
      /\ pc'[Main] = "release"
      /\ Batch \subseteq Process \ {Main}
      /\ Main \in Process /\ EndTask \in Process \ {Main}
  BY ProcessAssumption
  DEF FrameInv, RtsInv, LocalInv, BeginFrame, Goto, Process
<1>3. \A b \in Batch : pc[b] \in {"free", "done"}
  BY <1>1 DEF FrameInv, TaskInv, Recording
<1>4. \A c \in Batch : ~Held(c)
  <2>1. \A p \in Process : InHands(p) = {}
    BY <1>1, <1>3 DEF InHands, Process
  <2> QED
    BY <2>1 DEF FrameInv, HandsInv, Held
<1>5. /\ \A c \in Batch : ~Held(c)'
      /\ \A c \in Batch : at[c] # "queued"
  BY <1>1, <1>4 DEF Held, FrameInv, WhereInv, At
<1>6. AlternateInv' /\ GuardInv' /\ LookInv'
  BY <1>1, <1>2 DEF FrameInv, AlternateInv, GuardInv, LookInv
<1>7. HandsInv'
  BY <1>1, <1>4, HeldAreBatches DEF FrameInv, HandsInv, Held
<1>8. TaskInv'
  BY <1>1, <1>2, <1>3 DEF FrameInv, TaskInv
<1>9. EarlyInv' /\ ApartInv'
  BY <1>1, <1>2 DEF FrameInv, EarlyInv, ApartInv
<1>10. SlotInv'
  <2>1. \A i \in Idx : slot[i] # None => slot[i] \in Batch
    BY DEF FrameInv, RtsInv, RtsTypeOK
  <2> QED
    BY <1>1, <1>2, <1>5, <2>1 DEF FrameInv, SlotInv, InSlot
<1>11. WhereInv'
  BY <1>1, <1>2, <1>4, <1>5 DEF FrameInv, WhereInv, At
<1>12. TrackInv'
  <2> SUFFICES ASSUME NEW y \in FrameIdx, NEW c \in submitted[y]
               PROVE  /\ y = FrameIndex(desc[c].frame)
                      /\ at[c] \in {"tracked", "onComplete", "completing"}
                      /\ desc[c].frame <= frameId + 1
                      /\ frameId + 1 < desc[c].frame + MaxFrames
    BY <1>1 DEF TrackInv
  <2>1. /\ y = FrameIndex(desc[c].frame)
        /\ at[c] \in {"tracked", "onComplete", "completing"}
        /\ desc[c].frame <= frameId
        /\ frameId < desc[c].frame + MaxFrames
    BY DEF FrameInv, TrackInv
  <2>2. desc[c].frame \in Nat /\ frameId \in Nat
    BY FrameAssumption DEF FrameInv, RtsInv, RtsTypeOK, LocalInv
  <2>3. submitted[FrameIndex(frameId + 1)] = {}
    BY <1>1 DEF FrameInv, LookInv
  <2>4. frameId + 1 # desc[c].frame + MaxFrames
    BY <2>1, <2>2, <2>3, NextRound
  <2> QED
    BY <2>1, <2>2, <2>4, FrameAssumption
<1> QED
  BY <1>6, <1>7, <1>8, <1>9, <1>10, <1>11, <1>12 DEF FrameRest

LEMMA ExecuteFrame ==
    ASSUME FrameInv, Execute \/ UNCHANGED vars
    PROVE  FrameRest'
<1>1. UNCHANGED <<status, at, slot, queueGuard, taken, submitted, frameId,
                  rtsStatus, bits, desc, pc, polled, todo>>
  BY DEF Execute, GpuSignal, vars, batchVars, rtsVars, queueVars, frameVars,
         localVars
<1>2. AlternateInv' /\ GuardInv' /\ LookInv' /\ TaskInv' /\ ApartInv'
  BY <1>1
  DEF FrameInv, AlternateInv, GuardInv, LookInv, TaskInv, Recording, ApartInv
<1>3. HandsInv' /\ TrackInv' /\ EarlyInv'
  BY <1>1 DEF FrameInv, HandsInv, InHands, TrackInv, EarlyInv
<1>4. SlotInv' /\ WhereInv'
  BY <1>1 DEF FrameInv, SlotInv, InSlot, WhereInv, At, Held
<1> QED
  BY <1>2, <1>3, <1>4 DEF FrameRest
-----------------------------------------------------------------------------
LEMMA FrameInitInv == Init => FrameInv
<1> SUFFICES ASSUME Init PROVE FrameInv
  OBVIOUS
<1>1. RtsInv /\ BatchTypeOK
  BY RtsInitInv, InitInv DEF Init, BatchInv
<1>2. /\ \A p \in Process : ToSet(taken[p]) = {}
      /\ pc[Main] = "idle" /\ pc[EndTask] = "free"
      /\ \A b \in Batch : pc[b] = "free" /\ at[b] = "user"
      /\ \A p \in Process : pc[p] \in {"idle", "free"}
  <2>1. \A p \in Process : ToSet(taken[p]) = {}
    BY DEF Init, ToSet
  <2> QED
    BY <2>1, ProcessAssumption DEF Init, BatchInit, Process
<1>3. /\ AlternateInv /\ GuardInv /\ HandsInv /\ TaskInv /\ EarlyInv
      /\ ApartInv
  BY <1>2
  DEF Init, AlternateInv, GuardInv, HandsInv, TaskInv, EarlyInv, ApartInv,
      Early
<1>4. SlotInv /\ WhereInv /\ TrackInv /\ LookInv
  BY <1>2 DEF Init, SlotInv, InSlot, WhereInv, At, TrackInv, LookInv
<1> QED
  BY <1>1, <1>3, <1>4 DEF FrameInv

LEMMA FrameInvStep ==
    ASSUME FrameInv, [Next]_vars
    PROVE  FrameRest'
<1>1. ASSUME NEW p \in Batch \union {EndTask}, FlushQueue(p)
      PROVE  FrameRest'
  BY <1>1, FlushBeginsFrame, FlushMarkFrame, FlushSendFrame, FlushNotifyFrame,
     FlushUnlockFrame, FlushInsertFrame DEF FlushQueue
<1>2. ASSUME NEW b \in Batch, BatchTask(b)
      PROVE  FrameRest'
  BY <1>1, <1>2, RecordFrame, SubmitFrame, SubmitToQueueFrame, RecycleFrame
  DEF BatchTask
<1>3. CASE EndFrameTask
  BY <1>1, <1>3, EndTaskStartFrame, EndTaskClearsFrame, EndTaskDoneFrame
  DEF EndFrameTask
<1>4. CASE MainCreates
  BY <1>4, BeginCmdBatchFrame, SkipCmdBatchesFrame DEF MainCreates
<1>5. CASE MainGoesOn
  BY <1>5, EndFrameFrame, MainWalksFrame, ScanPendingFrame, ScanCompleteFrame,
     ScanCompletedFrame, BeginFrameFrame DEF MainGoesOn
<1> QED
  BY <1>2, <1>3, <1>4, <1>5, ExecuteFrame DEF Next

LEMMA FrameInvHolds == Spec => []FrameInv
<1>1. FrameInv /\ [Next]_vars /\ RtsInv' /\ BatchTypeOK' => FrameInv'
  BY FrameInvStep DEF FrameInv, FrameRest
<1>2. Spec => []BatchTypeOK
  BY ImplementsBatches, BatchTypeCorrect, PTL
<1> QED
  BY <1>1, <1>2, FrameInitInv, RtsInvHolds, PTL DEF Spec
-----------------------------------------------------------------------------
\* When a frame begins, no batch of the frame that had its memory before is in
\* the hands of the scheduler or of the GPU (WaitNextFrame, _FlushQueue,
\* _IsFrameComplete_Timeline), whichever threads have flushed it.
THEOREM MemoryIsFree == Spec => []FrameMemoryIsFree
<1>1. FrameInv => FrameMemoryIsFree
  <2> SUFFICES ASSUME FrameInv, NEW b \in Batch, rtsStatus = "BeginFrame",
                      desc[b].frame + MaxFrames <= frameId
               PROVE  at[b] = "user"
    BY DEF FrameMemoryIsFree
  <2>1. pc[Main] = "release" /\ pc[EndTask] = "free"
    BY DEF FrameInv, AlternateInv
  <2>2. /\ \A c \in Batch : pc[c] \in {"free", "done"}
        /\ \A p \in Process : InHands(p) = {}
    BY <2>1 DEF FrameInv, TaskInv, Recording, InHands, Process
  <2>3. ~Held(b)
    BY <2>2 DEF FrameInv, HandsInv, Held
  <2>4. at[b] \in {"user", "tracked"}
    BY <2>1, <2>2, <2>3
    DEF FrameInv, WhereInv, At, BatchTypeOK, Place
  <2>5. at[b] # "tracked"
    <3>1. /\ FrameIndex(desc[b].frame) \in FrameIdx
          /\ desc[b].frame \in Nat /\ frameId \in Nat
      BY IndexOfFrame, FrameAssumption
      DEF FrameInv, RtsInv, RtsTypeOK, LocalInv
    <3>2. ~(frameId < desc[b].frame + MaxFrames)
      BY <3>1, FrameAssumption
    <3> QED
      BY <2>3, <3>1, <3>2 DEF FrameInv, WhereInv, At, TrackInv
  <2> QED
    BY <2>4, <2>5
<1> QED
  BY <1>1, FrameInvHolds, PTL

-----------------------------------------------------------------------------
(* The order of the batches, and that none is dropped. *)

\* No batch belongs to a later frame, or to one that just begins.
DescInv ==
    \A b \in Batch :
        /\ desc[b].frame <= frameId
        /\ rtsStatus = "BeginFrame" => desc[b].frame < frameId

\* What is known of a step anywhere in the proofs.
Known == FrameInv /\ BatchInv /\ DescInv

\* A step keeps the description of a batch, or the batch dies or is made.
DescKept(b) ==
    \/ desc'[b] = desc[b]
    \/ desc'[b] = NoDesc /\ status'[b] = "Destroyed" /\ at[b] = "user"
    \/ /\ desc'[b].frame = frameId
       /\ status[b] = "Destroyed" /\ at[b] = "user" /\ pc[Main] = "record"
       /\ life'[b] = life[b] + 1
-----------------------------------------------------------------------------
LEMMA BatchInvHolds == Spec => []BatchInv
  BY ImplementsBatches, InvHolds, PTL

LEMMA FlushKeepsDesc ==
    ASSUME NEW p \in Batch \union {EndTask}, FlushQueue(p)
    PROVE  UNCHANGED <<desc, frameId, rtsStatus, reads, nextCycle>>
  BY DEF FlushQueue, FlushCheck, FlushTryLockFails, FlushLock, FlushMark,
         FlushSend, FlushNotify, FlushUnlock, FlushInsert, rtsVars, frameVars

LEMMA EndTaskKeepsDesc ==
    ASSUME EndFrameTask
    PROVE  /\ UNCHANGED <<desc, frameId, reads, nextCycle>>
           /\ rtsStatus' \in {rtsStatus, "Idle"}
<1>1. CASE FlushQueue(EndTask)
  BY <1>1, FlushKeepsDesc
<1> QED
  BY <1>1
  DEF EndFrameTask, EndTaskStart, EndTaskExchange, EndTaskDone, EndTaskReset,
      frameVars

LEMMA MainKeepsDesc ==
    ASSUME MainGoesOn \/ SkipCmdBatches
    PROVE  /\ UNCHANGED desc
           /\ \/ UNCHANGED <<reads, nextCycle>>
              \/ FrameBegun
              \/ WaitAll
           /\ \/ BeginFrame
              \/ frameId' = frameId
                 /\ rtsStatus' \in {rtsStatus, "Destroyed", "RecordFrame"}
  BY DEF MainGoesOn, SkipCmdBatches, EndFrame, WaitNextFrame, Deinitialize,
         Poll, ScanPending, ScanComplete, ScanCompleted, PollEnd, BeginFrame,
         FrameBegun, WaitAll, rtsVars, frameVars

LEMMA DescStep ==
    ASSUME FrameInv, [Next]_vars, NEW b \in Batch
    PROVE  DescKept(b)
<1>1. CASE UNCHANGED vars \/ Execute
  BY <1>1 DEF vars, rtsVars, Execute, DescKept
<1>2. ASSUME NEW c \in Batch, BatchTask(c)
      PROVE  DescKept(b)
  <2>1. CASE FlushQueue(c)
    BY <2>1, FlushKeepsDesc DEF DescKept
  <2>2. CASE Recycle(c)
    <3>1. desc' = [desc EXCEPT ![c] = NoDesc]
      BY <2>2 DEF Recycle
    <3>2. at[c] = "user" /\ status' = [status EXCEPT ![c] = "Destroyed"]
      BY <2>2 DEF Recycle, ReleaseObject
    <3> QED
      BY <3>1, <3>2 DEF DescKept, FrameInv, RtsInv, LocalInv, BatchTypeOK
  <2> QED
    BY <1>2, <2>1, <2>2
    DEF BatchTask, Record, Submit, SubmitFails, SubmitToQueue, DescKept
<1>3. ASSUME NEW c \in Batch, NEW i \in Idx, NEW m \in Modes,
             BeginCmdBatch(c, i, m)
      PROVE  DescKept(b)
  <2>1. CASE b = c
    <3>1. desc'[b].frame = frameId
      BY <1>3, <2>1 DEF BeginCmdBatch, FrameInv, RtsInv, LocalInv
    <3>2. status[b] = "Destroyed" /\ life'[b] = life[b] + 1
      BY <1>3, <2>1 DEF BeginCmdBatch, Create, Set, FrameInv, BatchTypeOK
    <3>3. pc[Main] = "record" /\ at[b] = "user"
      BY <1>3, <3>2 DEF BeginCmdBatch, FrameInv, TaskInv
    <3> QED
      BY <3>1, <3>2, <3>3 DEF DescKept
  <2>2. CASE b # c
    BY <1>3, <2>2 DEF BeginCmdBatch, DescKept, FrameInv, RtsInv, LocalInv
  <2> QED
    BY <2>1, <2>2
<1>4. CASE EndFrameTask
  BY <1>4, EndTaskKeepsDesc DEF DescKept
<1>5. CASE MainGoesOn \/ SkipCmdBatches
  BY <1>5, MainKeepsDesc DEF DescKept
<1> QED
  BY <1>1, <1>2, <1>3, <1>4, <1>5 DEF Next, MainCreates

\* Only BeginFrame() counts the frames.
LEMMA FrameStep ==
    ASSUME FrameInv, [Next]_vars
    PROVE  \/ BeginFrame
           \/ frameId' = frameId
              /\ (rtsStatus' = "BeginFrame" => rtsStatus = "BeginFrame")
<1>1. CASE UNCHANGED vars \/ Execute
  BY <1>1 DEF vars, rtsVars, Execute, frameVars
<1>2. ASSUME NEW c \in Batch, BatchTask(c)
      PROVE  frameId' = frameId /\ rtsStatus' = rtsStatus
  <2>1. CASE FlushQueue(c)
    BY <2>1, FlushKeepsDesc
  <2> QED
    BY <1>2, <2>1
    DEF BatchTask, Record, Submit, SubmitFails, SubmitToQueue, Recycle,
        frameVars
<1>3. ASSUME NEW c \in Batch, NEW i \in Idx, NEW m \in Modes,
             BeginCmdBatch(c, i, m)
      PROVE  frameId' = frameId /\ rtsStatus' = rtsStatus
  BY <1>3 DEF BeginCmdBatch, frameVars
<1> QED
  BY <1>1, <1>2, <1>3, EndTaskKeepsDesc, MainKeepsDesc DEF Next, MainCreates

LEMMA DescInvStep ==
    ASSUME FrameInv, DescInv, [Next]_vars
    PROVE  DescInv'
<1> SUFFICES ASSUME NEW b \in Batch
             PROVE  /\ desc'[b].frame <= frameId'
                    /\ rtsStatus' = "BeginFrame" => desc'[b].frame < frameId'
  BY DEF DescInv
<1>1. /\ desc[b].frame \in Nat /\ frameId \in Nat
      /\ desc[b].frame <= frameId
      /\ rtsStatus = "BeginFrame" => desc[b].frame < frameId
  BY FrameAssumption DEF FrameInv, RtsInv, RtsTypeOK, LocalInv, DescInv
<1>2. CASE BeginFrame
  BY <1>1, <1>2 DEF BeginFrame
<1>3. CASE frameId' = frameId
           /\ (rtsStatus' = "BeginFrame" => rtsStatus = "BeginFrame")
  <2>1. pc[Main] = "record" => rtsStatus # "BeginFrame"
    BY DEF FrameInv, AlternateInv
  <2> QED
    BY <1>1, <1>3, <2>1, DescStep DEF DescKept, NoDesc
<1> QED
  BY <1>2, <1>3, FrameStep

LEMMA DescInit == Init => DescInv
<1> SUFFICES ASSUME Init, NEW b \in Batch
             PROVE  desc[b].frame <= frameId /\ rtsStatus # "BeginFrame"
  BY DEF DescInv
<1>1. desc[b].frame = 0 /\ frameId = 0
  BY DEF Init, NoDesc
<1>2. rtsStatus = "Idle"
  BY DEF Init
<1> QED
  BY <1>1, <1>2

LEMMA KnownHolds == Spec => []Known
<1>1. FrameInv /\ DescInv /\ [Next]_vars => DescInv'
  BY DescInvStep
<1>2. Known <=> FrameInv /\ BatchInv /\ DescInv
  BY DEF Known
<1> QED
  BY <1>1, <1>2, DescInit, FrameInvHolds, BatchInvHolds, PTL DEF Spec
-----------------------------------------------------------------------------
(* What the GPU is given of a frame is in the order of the submit indices. *)

\* A flush of the current frame is possible.
Active == pc[Main] \in {"record", "skipped"}
          \/ pc[EndTask] \notin {"free", "end", "cancel"}

OfFrame(b) == desc[b].frame = frameId

\* The batches of s are in the order of their submit indices.
Rising(s) ==
    \A m, n \in DOMAIN s : m < n => desc[s[m]].idx < desc[s[n]].idx

\* A range is behind all that was submitted.
RangeInv ==
    \A p \in Process : pc[p] = "mark" =>
        \A i \in range[p], k \in bits.submitted : k < i

\* While a flush is possible, the bits know what the GPU has of the frame.
SentInv ==
    Active => \A n \in DOMAIN onGpu :
        OfFrame(onGpu[n]) => desc[onGpu[n]].idx \in bits.submitted

\* What a flush has taken is in order, and behind what the GPU has.
TakenInv ==
    \A p \in Process : pc[p] = "send" =>
        /\ Rising(taken[p])
        /\ \A n \in DOMAIN taken[p] :
            /\ desc[taken[p][n]].idx \in bits.submitted
            /\ \A m \in DOMAIN onGpu : OfFrame(onGpu[m]) =>
                    desc[onGpu[m]].idx < desc[taken[p][n]].idx

\* The GPU is given a batch once.
OnceInv ==
    \A m, n \in DOMAIN onGpu :
        gpuSignal[onGpu[m]] # 0 /\ (m # n => onGpu[m] # onGpu[n])

OrderInv == RangeInv /\ SentInv /\ TakenInv /\ OnceInv /\ OrderOnGpu

LEMMA OnGpuKept ==
    ASSUME Known, OnceInv, [Next]_vars
    PROVE  \A n \in DOMAIN onGpu : /\ onGpu[n] \in Batch
                                   /\ at[onGpu[n]] \in Signalling
                                   /\ desc'[onGpu[n]] = desc[onGpu[n]]
<1> SUFFICES ASSUME NEW n \in DOMAIN onGpu
             PROVE  /\ onGpu[n] \in Batch
                    /\ at[onGpu[n]] \in Signalling
                    /\ desc'[onGpu[n]] = desc[onGpu[n]]
  OBVIOUS
<1>1. onGpu[n] \in Batch
  BY DEF Known, FrameInv, RtsInv, LocalInv
<1>2. at[onGpu[n]] \in Signalling
  BY <1>1 DEF OnceInv, Known, BatchInv, GpuInv
<1>3. DescKept(onGpu[n])
  BY <1>1, DescStep DEF Known
<1> QED
  BY <1>1, <1>2, <1>3 DEF DescKept, Signalling

LEMMA TakenKept ==
    ASSUME Known, [Next]_vars, NEW p \in Process, pc[p] = "send"
    PROVE  \A n \in DOMAIN taken[p] :
                /\ taken[p][n] \in Batch
                /\ at[taken[p][n]] = "queued"
                /\ OfFrame(taken[p][n])
                /\ desc'[taken[p][n]] = desc[taken[p][n]]
<1> SUFFICES ASSUME NEW n \in DOMAIN taken[p]
             PROVE  /\ taken[p][n] \in Batch
                    /\ at[taken[p][n]] = "queued"
                    /\ OfFrame(taken[p][n])
                    /\ desc'[taken[p][n]] = desc[taken[p][n]]
  OBVIOUS
<1>1. taken[p][n] \in Batch
  BY DEF Known, FrameInv, RtsInv, LocalInv
<1>2. taken[p][n] \in ToSet(taken[p])
  BY DEF ToSet
<1>3. at[taken[p][n]] = "queued" /\ OfFrame(taken[p][n])
  BY <1>2 DEF Known, FrameInv, HandsInv, InHands, OfFrame
<1>4. DescKept(taken[p][n])
  BY <1>1, DescStep DEF Known
<1> QED
  BY <1>1, <1>3, <1>4 DEF DescKept

LEMMA IndexIsNumber ==
    ASSUME RtsInv
    PROVE  /\ \A b \in Batch : desc[b].idx \in Nat
           /\ bits.submitted \subseteq Nat
           /\ \A p \in Process : range[p] \subseteq Nat
<1>1. Idx \subseteq Nat
  BY FrameAssumption DEF Idx
<1> QED
  BY <1>1 DEF RtsInv, RtsTypeOK, LocalInv

\* A step that gives the GPU nothing and takes nothing from the queue.
LEMMA OrderStill ==
    ASSUME Known, OrderInv, [Next]_vars,
           UNCHANGED <<onGpu, frameId, gpuSignal>>,
           bits'.submitted = bits.submitted,
           \A q \in Process : pc'[q] \in {"mark", "send"} =>
                /\ pc[q] = pc'[q]
                /\ taken'[q] = taken[q] /\ range'[q] = range[q],
           Active' => Active
    PROVE  OrderInv'
<1>1. \A n \in DOMAIN onGpu : desc'[onGpu[n]] = desc[onGpu[n]]
  BY OnGpuKept DEF OrderInv
<1>2. \A p \in Process : pc[p] = "send" =>
        \A n \in DOMAIN taken[p] : desc'[taken[p][n]] = desc[taken[p][n]]
  BY TakenKept
<1>3. RangeInv'
  BY DEF OrderInv, RangeInv
<1>4. SentInv'
  BY <1>1 DEF OrderInv, SentInv, OfFrame
<1>5. TakenInv'
  <2> SUFFICES ASSUME NEW p \in Process, pc'[p] = "send"
               PROVE  /\ Rising(taken[p])'
                      /\ \A n \in DOMAIN taken'[p] :
                          /\ desc'[taken'[p][n]].idx \in bits'.submitted
                          /\ \A m \in DOMAIN onGpu' : OfFrame(onGpu[m])' =>
                              desc'[onGpu'[m]].idx < desc'[taken'[p][n]].idx
    BY DEF TakenInv
  <2>1. pc[p] = "send" /\ taken'[p] = taken[p]
    OBVIOUS
  <2>2. Rising(taken[p])'
    BY <1>2, <2>1 DEF OrderInv, TakenInv, Rising
  <2> QED
    BY <1>1, <1>2, <2>1, <2>2 DEF OrderInv, TakenInv, OfFrame
<1>6. OnceInv'
  BY DEF OrderInv, OnceInv
<1>7. OrderOnGpu'
  BY <1>1 DEF OrderInv, OrderOnGpu
<1> QED
  BY <1>3, <1>4, <1>5, <1>6, <1>7 DEF OrderInv

\* Who flushes does so while a flush is possible, and alone.
LEMMA FlushAlone ==
    ASSUME FrameInv, NEW p \in Batch \union {EndTask},
           pc[p] \in {"lock", "mark", "send", "notify"}
    PROVE  /\ Active
           /\ pc[p] \in {"mark", "send", "notify"} =>
                \A q \in Process \ {p} : pc[q] \notin {"mark", "send", "notify"}
<1>1. Active
  BY DEF FrameInv, TaskInv, Recording, Active
<1>2. p \in Process
  BY DEF Process
<1> QED
  BY <1>1, <1>2 DEF FrameInv, GuardInv

LEMMA LockOrder ==
    ASSUME Known, OrderInv, [Next]_vars,
           NEW p \in Batch \union {EndTask}, FlushLock(p)
    PROVE  OrderInv'
<1>1. /\ UNCHANGED <<onGpu, frameId, gpuSignal, taken, bits>>
      /\ pc[p] = "lock" /\ pc[p] # "mark"
  BY DEF FlushLock, Goto, batchVars, gpuVars, frameVars
<1>2. /\ \A q \in Process \ {p} : pc'[q] = pc[q] /\ range'[q] = range[q]
      /\ range'[p] = FlushRange
      /\ pc'[p] # "send" /\ p \in Process
  BY DEF FlushLock, Goto, Return, Known, FrameInv, RtsInv, LocalInv, Process
<1>3. Active
  BY <1>1, FlushAlone DEF Known
<1>4. \A n \in DOMAIN onGpu : desc'[onGpu[n]] = desc[onGpu[n]]
  BY OnGpuKept DEF OrderInv
<1>5. \A q \in Process : pc[q] = "send" =>
        \A n \in DOMAIN taken[q] : desc'[taken[q][n]] = desc[taken[q][n]]
  BY TakenKept
<1>6. RangeInv'
  <2> SUFFICES ASSUME NEW q \in Process, pc'[q] = "mark",
                      NEW i \in range'[q], NEW k \in bits'.submitted
               PROVE  k < i
    BY DEF RangeInv
  <2>1. CASE q = p
    BY <1>1, <1>2, <2>1 DEF FlushRange
  <2>2. CASE q # p
    BY <1>1, <1>2, <2>2 DEF OrderInv, RangeInv
  <2> QED
    BY <2>1, <2>2
<1>7. SentInv'
  BY <1>1, <1>3, <1>4 DEF OrderInv, SentInv, OfFrame
<1>8. TakenInv'
  <2> SUFFICES ASSUME NEW q \in Process, pc'[q] = "send"
               PROVE  /\ Rising(taken[q])'
                      /\ \A n \in DOMAIN taken'[q] :
                          /\ desc'[taken'[q][n]].idx \in bits'.submitted
                          /\ \A m \in DOMAIN onGpu' : OfFrame(onGpu[m])' =>
                              desc'[onGpu'[m]].idx < desc'[taken'[q][n]].idx
    BY DEF TakenInv
  <2>1. pc[q] = "send"
    BY <1>2
  <2>2. Rising(taken[q])'
    BY <1>1, <1>5, <2>1 DEF OrderInv, TakenInv, Rising
  <2> QED
    BY <1>1, <1>4, <1>5, <2>1, <2>2 DEF OrderInv, TakenInv, OfFrame
<1>9. OnceInv' /\ OrderOnGpu'
  BY <1>1, <1>4 DEF OrderInv, OnceInv, OrderOnGpu
<1> QED
  BY <1>6, <1>7, <1>8, <1>9 DEF OrderInv

LEMMA MarkOrder ==
    ASSUME Known, OrderInv, [Next]_vars,
           NEW p \in Batch \union {EndTask}, FlushMark(p)
    PROVE  OrderInv'
<1> DEFINE E == Extracted(p)
<1>1. /\ UNCHANGED <<onGpu, frameId, gpuSignal, desc>>
      /\ pc[p] = "mark"
  BY DEF FlushMark, Goto, batchVars, gpuVars, frameVars
<1>2. /\ \A q \in Process \ {p} : pc'[q] = pc[q]
      /\ pc'[p] # "mark" /\ p \in Process
      /\ bits'.submitted = bits.submitted \union range[p]
  BY DEF FlushMark, Goto, Return, Known, FrameInv, RtsInv, RtsTypeOK,
         LocalInv, Process
<1>3. Active /\ \A q \in Process \ {p} : pc[q] \notin {"mark", "send", "notify"}
  BY <1>1, FlushAlone DEF Known
<1>4. PICK s \in InOrder(E) :
        taken' = [taken EXCEPT ![p] = [n \in DOMAIN s |-> slot[s[n]]]]
  BY DEF FlushMark
<1>5. /\ s \in [1..Cardinality(E) -> E]
      /\ \A m, n \in DOMAIN s : m < n => s[m] < s[n]
      /\ taken'[p] = [n \in DOMAIN s |-> slot[s[n]]]
  BY <1>2, <1>4 DEF InOrder, Known, FrameInv, RtsInv, LocalInv
<1>6. \A i \in E : i \in range[p] /\ i \in Idx /\ desc[slot[i]].idx = i
  BY <1>2
  DEF Extracted, Known, FrameInv, RtsInv, LocalInv, SlotInv, InSlot
<1>7. \A n \in DOMAIN s : desc'[taken'[p][n]].idx = s[n] /\ s[n] \in range[p]
  BY <1>1, <1>5, <1>6
<1>8. DOMAIN taken'[p] = DOMAIN s
  BY <1>5
<1>9. \A m \in DOMAIN onGpu, i \in range[p] :
        OfFrame(onGpu[m]) => desc[onGpu[m]].idx < i
  BY <1>1, <1>2, <1>3 DEF OrderInv, SentInv, RangeInv
<1>10. RangeInv'
  BY <1>2, <1>3 DEF RangeInv
<1>11. SentInv'
  BY <1>1, <1>2, <1>3 DEF OrderInv, SentInv, OfFrame
<1>12. TakenInv'
  <2> SUFFICES ASSUME NEW q \in Process, pc'[q] = "send"
               PROVE  /\ Rising(taken[q])'
                      /\ \A n \in DOMAIN taken'[q] :
                          /\ desc'[taken'[q][n]].idx \in bits'.submitted
                          /\ \A m \in DOMAIN onGpu' : OfFrame(onGpu[m])' =>
                              desc'[onGpu'[m]].idx < desc'[taken'[q][n]].idx
    BY DEF TakenInv
  <2>1. q = p
    BY <1>2, <1>3
  <2>2. Rising(taken[q])'
    <3> SUFFICES ASSUME NEW m \in DOMAIN taken'[p],
                        NEW n \in DOMAIN taken'[p], m < n
                 PROVE  desc'[taken'[p][m]].idx < desc'[taken'[p][n]].idx
      BY <2>1 DEF Rising
    <3>1. m \in DOMAIN s /\ n \in DOMAIN s
      BY <1>8
    <3> QED
      BY <1>5, <1>7, <3>1
  <2> QED
    BY <1>1, <1>2, <1>7, <1>8, <1>9, <2>1, <2>2 DEF OfFrame
<1>13. OnceInv' /\ OrderOnGpu'
  BY <1>1 DEF OrderInv, OnceInv, OrderOnGpu
<1> QED
  BY <1>10, <1>11, <1>12, <1>13 DEF OrderInv

LEMMA SendOrder ==
    ASSUME Known, OrderInv, [Next]_vars,
           NEW p \in Batch \union {EndTask}, FlushSend(p)
    PROVE  OrderInv'
<1> DEFINE T == taken[p]
           K == Len(onGpu)
<1>1. /\ UNCHANGED <<frameId, desc, bits, taken, range>>
      /\ pc[p] = "send" /\ p \in Process
      /\ onGpu' = onGpu \o T
  BY DEF FlushSend, Goto, frameVars, queueVars, localVars, Process
<1>2. /\ \A q \in Process \ {p} : pc'[q] = pc[q]
      /\ pc'[p] = "notify"
  BY <1>1 DEF FlushSend, Goto, Known, FrameInv, RtsInv, LocalInv
<1>3. Active /\ \A q \in Process \ {p} : pc[q] \notin {"mark", "send", "notify"}
  BY <1>1, FlushAlone DEF Known
<1>4. onGpu \in Seq(Batch) /\ T \in Seq(Batch)
  BY <1>1 DEF Known, FrameInv, RtsInv, LocalInv
<1>5. /\ K \in Nat /\ Len(T) \in Nat
      /\ DOMAIN onGpu = 1..K /\ DOMAIN T = 1..Len(T)
      /\ DOMAIN onGpu' = 1..(K + Len(T))
      /\ \A m \in 1..K : onGpu'[m] = onGpu[m]
      /\ \A m \in (K + 1)..(K + Len(T)) :
            m - K \in DOMAIN T /\ onGpu'[m] = T[m - K]
  BY <1>1, <1>4, ConcatProperties
<1>6. \A m \in DOMAIN onGpu' : \/ m \in DOMAIN onGpu
                               \/ m \in (K + 1)..(K + Len(T))
  BY <1>5
<1>7. \A n \in DOMAIN T : /\ T[n] \in Batch
                          /\ at[T[n]] = "queued"
                          /\ OfFrame(T[n])
  BY <1>1, TakenKept
<1>8. \A m \in DOMAIN onGpu : onGpu[m] \in Batch /\ at[onGpu[m]] \in Signalling
  BY OnGpuKept DEF OrderInv
<1>9. /\ Rising(T)
      /\ \A n \in DOMAIN T :
          /\ desc[T[n]].idx \in bits.submitted
          /\ \A m \in DOMAIN onGpu : OfFrame(onGpu[m]) =>
                desc[onGpu[m]].idx < desc[T[n]].idx
  BY <1>1 DEF OrderInv, TakenInv
<1>10. RangeInv' /\ TakenInv'
  BY <1>2, <1>3 DEF RangeInv, TakenInv
<1>11. SentInv'
  <2> SUFFICES ASSUME NEW m \in DOMAIN onGpu', OfFrame(onGpu[m])'
               PROVE  desc'[onGpu'[m]].idx \in bits'.submitted
    BY DEF SentInv
  <2>1. CASE m \in DOMAIN onGpu
    BY <1>1, <1>3, <1>5, <2>1 DEF OrderInv, SentInv, OfFrame
  <2>2. CASE m \in (K + 1)..(K + Len(T))
    BY <1>1, <1>5, <1>9, <2>2
  <2> QED
    BY <1>6, <2>1, <2>2
<1>12. OrderOnGpu'
  <2> SUFFICES ASSUME NEW m \in DOMAIN onGpu', NEW n \in DOMAIN onGpu', m < n,
                      desc[onGpu'[m]].frame = desc[onGpu'[n]].frame
               PROVE  desc[onGpu'[m]].idx < desc[onGpu'[n]].idx
    BY <1>1 DEF OrderOnGpu
  <2>1. CASE m \in DOMAIN onGpu /\ n \in DOMAIN onGpu
    BY <1>5, <2>1 DEF OrderInv, OrderOnGpu
  <2>2. CASE m \in DOMAIN onGpu /\ n \in (K + 1)..(K + Len(T))
    BY <1>5, <1>7, <1>9, <2>2 DEF OfFrame
  <2>3. CASE m \in (K + 1)..(K + Len(T))
    <3>1. n \in (K + 1)..(K + Len(T)) /\ m - K < n - K
      BY <1>5, <2>3
    <3> QED
      BY <1>5, <1>9, <2>3, <3>1 DEF Rising
  <2> QED
    BY <1>6, <2>1, <2>2, <2>3
<1>13. \A n \in DOMAIN T : gpuSignal'[T[n]] # 0
  <2> SUFFICES ASSUME NEW n \in DOMAIN T
               PROVE  gpuSignal'[T[n]] # 0
    OBVIOUS
  <2>1. T[n] \in ToSet(T)
    BY DEF ToSet
  <2>2. gpuSignal'[T[n]] = tlSemaphoreVal[T[n]]
    BY <1>7, <2>1 DEF FlushSend, QueueSubmit
  <2>3. /\ gpuCounter[T[n]] \in Nat /\ tlSemaphoreVal[T[n]] \in Nat
        /\ gpuCounter[T[n]] <= tlSemaphoreVal[T[n]]
        /\ gpuCounter[T[n]] # tlSemaphoreVal[T[n]]
    BY <1>7 DEF Known, BatchInv, BatchTypeOK, GpuInv, Signalling
  <2> QED
    BY <2>2, <2>3
<1>14. \A m \in DOMAIN onGpu : gpuSignal'[onGpu[m]] = gpuSignal[onGpu[m]]
  <2> SUFFICES ASSUME NEW m \in DOMAIN onGpu
               PROVE  gpuSignal'[onGpu[m]] = gpuSignal[onGpu[m]]
    OBVIOUS
  <2>1. onGpu[m] \notin ToSet(T)
    BY <1>7, <1>8 DEF ToSet, Signalling
  <2> QED
    BY <1>8, <2>1 DEF FlushSend, QueueSubmit
<1>15. OnceInv'
  <2> SUFFICES ASSUME NEW m \in DOMAIN onGpu', NEW n \in DOMAIN onGpu'
               PROVE  /\ gpuSignal'[onGpu'[m]] # 0
                      /\ m # n => onGpu'[m] # onGpu'[n]
    BY DEF OnceInv
  <2>0. \A k \in DOMAIN onGpu, l \in DOMAIN T : onGpu[k] # T[l]
    BY <1>7, <1>8 DEF Signalling
  <2>1. gpuSignal'[onGpu'[m]] # 0
    <3>1. CASE m \in DOMAIN onGpu
      <4>1. onGpu'[m] = onGpu[m] /\ gpuSignal[onGpu[m]] # 0
        BY <1>5, <3>1 DEF OrderInv, OnceInv
      <4> QED
        BY <1>14, <3>1, <4>1
    <3>2. CASE m \in (K + 1)..(K + Len(T))
      <4>1. m - K \in DOMAIN T /\ onGpu'[m] = T[m - K]
        BY <1>5, <3>2
      <4> QED
        BY <1>13, <4>1
    <3> QED
      BY <1>6, <3>1, <3>2
  <2>2. CASE m \in DOMAIN onGpu /\ n \in DOMAIN onGpu
    BY <1>5, <2>1, <2>2 DEF OrderInv, OnceInv
  <2>3. CASE m \in DOMAIN onGpu /\ n \in (K + 1)..(K + Len(T))
    BY <1>5, <2>0, <2>1, <2>3
  <2>4. CASE m \in (K + 1)..(K + Len(T)) /\ n \in DOMAIN onGpu
    BY <1>5, <2>0, <2>1, <2>4
  <2>5. CASE m \in (K + 1)..(K + Len(T)) /\ n \in (K + 1)..(K + Len(T))
    <3>1. \A k, l \in DOMAIN T : k < l => T[k] # T[l]
      <4>1. \A k \in DOMAIN T : desc[T[k]].idx \in Nat
        BY <1>7, IndexIsNumber DEF Known, FrameInv
      <4> QED
        BY <1>9, <4>1 DEF Rising
    <3>2. /\ m - K \in DOMAIN T /\ n - K \in DOMAIN T
          /\ onGpu'[m] = T[m - K] /\ onGpu'[n] = T[n - K]
      BY <1>5, <2>5
    <3>3. m # n => m - K < n - K \/ n - K < m - K
      BY <1>5, <2>5
    <3> QED
      BY <2>1, <3>1, <3>2, <3>3
  <2> QED
    BY <1>6, <2>2, <2>3, <2>4, <2>5
<1> QED
  BY <1>10, <1>11, <1>12, <1>15 DEF OrderInv

LEMMA ExecuteOrder ==
    ASSUME Known, OrderInv, [Next]_vars, Execute
    PROVE  OrderInv'
<1>1. /\ UNCHANGED <<frameId, desc, bits, taken, range, pc>>
      /\ onGpu # <<>> /\ onGpu \in Seq(Batch) /\ onGpu' = Tail(onGpu)
  BY DEF Execute, frameVars, queueVars, localVars, Known, FrameInv, RtsInv,
         LocalInv
<1>2. /\ Len(onGpu) \in Nat
      /\ DOMAIN onGpu = 1..Len(onGpu)
      /\ DOMAIN onGpu' = 1..(Len(onGpu) - 1)
      /\ \A n \in DOMAIN onGpu' : n + 1 \in DOMAIN onGpu
                                  /\ onGpu'[n] = onGpu[n + 1]
      /\ Head(onGpu) = onGpu[1] /\ 1 \in DOMAIN onGpu
  BY <1>1, HeadTailProperties
<1>3. \A n \in DOMAIN onGpu' : n \in Int
  BY <1>2
<1>4. RangeInv' /\ SentInv' /\ TakenInv'
  BY <1>1, <1>2
  DEF OrderInv, RangeInv, SentInv, TakenInv, Active, OfFrame, Rising
<1>5. OrderOnGpu'
  BY <1>1, <1>2, <1>3 DEF OrderInv, OrderOnGpu
<1>6. \A n \in DOMAIN onGpu' : gpuSignal'[onGpu'[n]] = gpuSignal[onGpu'[n]]
  <2> SUFFICES ASSUME NEW n \in DOMAIN onGpu'
               PROVE  gpuSignal'[onGpu'[n]] = gpuSignal[onGpu'[n]]
    OBVIOUS
  <2>1. onGpu'[n] # Head(onGpu)
    BY <1>2, <1>3 DEF OrderInv, OnceInv
  <2>2. onGpu'[n] \in Batch
    BY <1>2, OnGpuKept DEF OrderInv
  <2> QED
    BY <2>1, <2>2 DEF Execute, GpuSignal, Known, BatchInv, BatchTypeOK
<1>7. OnceInv'
  BY <1>2, <1>3, <1>6 DEF OrderInv, OnceInv
<1> QED
  BY <1>4, <1>5, <1>7 DEF OrderInv

\* Main goes on to the next frame: nobody flushes.
LEMMA NewFrameOrder ==
    ASSUME Known, OrderInv, [Next]_vars, BeginFrame \/ FrameBegun
    PROVE  OrderInv'
<1>1. UNCHANGED <<onGpu, gpuSignal, desc, bits, taken, range>>
  BY DEF BeginFrame, FrameBegun, batchVars, gpuVars, queueVars, localVars
<1>2. pc[Main] \in {"begin", "release"}
  BY DEF BeginFrame, FrameBegun, Goto
<1>3. \A q \in Process : pc'[q] \notin {"mark", "send"}
  <2>1. \A q \in Batch \union {EndTask} : pc[q] \in {"free", "done"}
    BY <1>2, BusyMain DEF Known
  <2>2. \A q \in Process : pc'[q] = pc[q] \/ pc'[q] \in {"release", "record"}
    BY DEF BeginFrame, FrameBegun, Goto, Known, FrameInv, RtsInv, LocalInv
  <2> QED
    BY <1>2, <2>1, <2>2 DEF Process
<1>4. SentInv'
  <2>1. CASE BeginFrame
    <3>1. pc'[Main] = "release" /\ pc'[EndTask] = "free"
      BY <1>2, <2>1, ProcessAssumption
      DEF BeginFrame, Goto, Known, FrameInv, RtsInv, LocalInv, AlternateInv,
          Process
    <3> QED
      BY <3>1 DEF SentInv, Active
  <2>2. CASE FrameBegun
    <3>1. rtsStatus = "BeginFrame" /\ frameId' = frameId
      BY <2>2 DEF FrameBegun
    <3>2. \A n \in DOMAIN onGpu :
            /\ desc[onGpu[n]].frame < frameId
            /\ desc[onGpu[n]].frame \in Nat /\ frameId \in Nat
      BY <3>1, OnGpuKept, FrameAssumption
      DEF OrderInv, Known, DescInv, FrameInv, RtsInv, RtsTypeOK, LocalInv
    <3>3. \A n \in DOMAIN onGpu' : ~OfFrame(onGpu[n])'
      BY <1>1, <3>1, <3>2 DEF OfFrame
    <3> QED
      BY <3>3 DEF SentInv
  <2> QED
    BY <2>1, <2>2
<1>5. RangeInv' /\ TakenInv'
  BY <1>3 DEF RangeInv, TakenInv
<1>6. OnceInv' /\ OrderOnGpu'
  BY <1>1 DEF OrderInv, OnceInv, OrderOnGpu
<1> QED
  BY <1>4, <1>5, <1>6 DEF OrderInv

\* The EndFrameTask clears the bits: nobody flushes any more.
LEMMA ClearOrder ==
    ASSUME Known, OrderInv, [Next]_vars, EndTaskExchange \/ EndTaskReset
    PROVE  OrderInv'
<1>1. /\ UNCHANGED <<onGpu, frameId, gpuSignal, desc>>
      /\ pc[EndTask] \in {"exchange", "cancel"}
  BY DEF EndTaskExchange, EndTaskReset, Clear, Drop, Goto, batchVars, gpuVars,
         frameVars
<1>2. /\ \A q \in Process \ {EndTask} : pc'[q] = pc[q]
      /\ pc'[EndTask] \in {"end", "cancel", "free"}
      /\ Main \in Process \ {EndTask} /\ Batch \subseteq Process \ {EndTask}
  BY ProcessAssumption
  DEF EndTaskExchange, EndTaskReset, Goto, Known, FrameInv, RtsInv, LocalInv,
      Process
<1>3. /\ \A b \in Batch : pc[b] \in {"free", "done"}
      /\ pc[Main] \notin {"record", "skipped"}
  BY <1>1, EndTaskAlone DEF Known
<1>4. ~Active'
  BY <1>2, <1>3 DEF Active
<1>5. \A q \in Process : pc'[q] \notin {"mark", "send"}
  <2>1. pc'[Main] \notin {"mark", "send"}
    BY <1>2 DEF Known, FrameInv, AlternateInv
  <2> QED
    BY <1>2, <1>3, <2>1 DEF Process
<1>6. RangeInv' /\ TakenInv' /\ SentInv'
  BY <1>4, <1>5 DEF RangeInv, TakenInv, SentInv
<1>7. OnceInv' /\ OrderOnGpu'
  BY <1>1 DEF OrderInv, OnceInv, OrderOnGpu
<1> QED
  BY <1>6, <1>7 DEF OrderInv

\* What OrderStill asks of a step.
Still ==
    /\ UNCHANGED <<onGpu, frameId, gpuSignal>>
    /\ bits'.submitted = bits.submitted
    /\ \A q \in Process : pc'[q] \in {"mark", "send"} =>
            /\ pc[q] = pc'[q]
            /\ taken'[q] = taken[q] /\ range'[q] = range[q]
    /\ Active' => Active

LEMMA BatchTaskStill ==
    ASSUME FrameInv, NEW b \in Batch,
           Record(b) \/ Submit(b) \/ SubmitFails(b) \/ SubmitToQueue(b)
           \/ Recycle(b)
    PROVE  Still
<1>1. UNCHANGED <<onGpu, frameId, gpuSignal, range, taken>>
  BY DEF Record, EndRecording, Submit, SubmitBegin, SubmitFails, SubmitError,
         SubmitToQueue, Enqueue, Recycle, ReleaseObject, gpuVars, frameVars,
         localVars
<1>2. bits'.submitted = bits.submitted
  BY DEF Record, Submit, SubmitFails, SubmitToQueue, Recycle, queueVars,
         FrameInv, RtsInv, RtsTypeOK
<1>3. /\ \A q \in Process \ {b} : pc'[q] = pc[q]
      /\ pc'[b] \notin {"mark", "send"}
      /\ Main \in Process \ {b} /\ EndTask \in Process \ {b}
  BY ProcessAssumption
  DEF Record, Submit, SubmitFails, SubmitToQueue, Recycle, Goto, FrameInv,
      RtsInv, LocalInv, Process
<1>4. Active' => Active
  BY <1>3 DEF Active
<1> QED
  BY <1>1, <1>2, <1>3, <1>4 DEF Still

LEMMA FlushStill ==
    ASSUME FrameInv, NEW p \in Batch \union {EndTask},
           FlushCheck(p) \/ FlushTryLockFails(p) \/ FlushNotify(p)
           \/ FlushUnlock(p) \/ FlushInsert(p)
    PROVE  Still
<1>1. UNCHANGED <<onGpu, frameId, bits, range>>
  BY DEF FlushCheck, FlushTryLockFails, FlushNotify, FlushUnlock, FlushInsert,
         rtsVars, frameVars, queueVars, localVars
<1>2. UNCHANGED gpuSignal
  BY DEF FlushCheck, FlushTryLockFails, FlushNotify, FlushUnlock, FlushInsert,
         OnSubmit, OnSubmitRelease, batchVars, gpuVars
<1>3. /\ \A q \in Process \ {p} : pc'[q] = pc[q] /\ taken'[q] = taken[q]
      /\ Main \in Process \ {p} /\ p \in Process
  BY ProcessAssumption
  DEF FlushCheck, FlushTryLockFails, FlushNotify, FlushUnlock, FlushInsert,
      Goto, rtsVars, localVars, FrameInv, RtsInv, LocalInv, Process
<1>4. pc'[p] \notin {"mark", "send"} /\ pc[p] \notin {"free", "end", "cancel"}
  BY <1>3
  DEF FlushCheck, FlushTryLockFails, FlushNotify, FlushUnlock, FlushInsert,
      Goto, Return, rtsVars, FrameInv, RtsInv, LocalInv
<1>5. Active' => Active
  <2>1. CASE p = EndTask
    BY <1>4, <2>1 DEF Active
  <2>2. CASE p # EndTask
    BY <1>3, <2>2 DEF Active, Process
  <2> QED
    BY <2>1, <2>2
<1> QED
  BY <1>1, <1>2, <1>3, <1>4, <1>5 DEF Still

LEMMA CreateStill ==
    ASSUME FrameInv, NEW b \in Batch, NEW i \in Idx, NEW m \in Modes,
           BeginCmdBatch(b, i, m)
    PROVE  Still
<1>1. UNCHANGED <<onGpu, frameId, gpuSignal, range, taken>>
  BY DEF BeginCmdBatch, Create, gpuVars, frameVars, localVars
<1>2. bits'.submitted = bits.submitted /\ Active
  BY DEF BeginCmdBatch, FrameInv, RtsInv, RtsTypeOK, Active
<1>3. \A q \in Process : pc'[q] = pc[q] \/ pc'[q] = "record"
  BY DEF BeginCmdBatch, FrameInv, RtsInv, LocalInv
<1> QED
  BY <1>1, <1>2, <1>3 DEF Still

LEMMA EndTaskStill ==
    ASSUME FrameInv, EndTaskStart \/ EndTaskDone
    PROVE  Still
<1>1. UNCHANGED <<onGpu, frameId, gpuSignal, range, taken, bits>>
  BY DEF EndTaskStart, EndTaskDone, batchVars, gpuVars, frameVars, localVars,
         queueVars
<1>2. /\ \A q \in Process \ {EndTask} : pc'[q] = pc[q]
      /\ Main \in Process \ {EndTask} /\ EndTask \in Process
      /\ \/ pc[EndTask] = "wait" /\ pc'[EndTask] \in {"check", "cancel"}
         \/ pc[EndTask] = "end" /\ pc'[EndTask] = "free"
  BY ProcessAssumption
  DEF EndTaskStart, EndTaskDone, Goto, FrameInv, RtsInv, LocalInv, Process
<1> QED
  BY <1>1, <1>2 DEF Still, Active

LEMMA MainStill ==
    ASSUME FrameInv,
           \/ MainGoesOn /\ ~(BeginFrame \/ FrameBegun)
           \/ SkipCmdBatches
    PROVE  Still
<1>1. UNCHANGED <<onGpu, frameId, gpuSignal, range, taken>>
  BY DEF MainGoesOn, SkipCmdBatches, EndFrame, WaitNextFrame, Deinitialize,
         Poll, ScanPending, ScanComplete, ScanCompleted, PollEnd, WaitAll,
         OnComplete, OnCompleteRelease, OnCompleteDone, batchVars, rtsVars,
         gpuVars, frameVars, localVars
<1>2. bits'.submitted = bits.submitted
  BY DEF MainGoesOn, SkipCmdBatches, EndFrame, WaitNextFrame, Deinitialize,
         Poll, ScanPending, ScanComplete, ScanCompleted, PollEnd, WaitAll,
         rtsVars, queueVars, Skipped, FrameInv, RtsInv, RtsTypeOK
<1>3. /\ \A q \in Batch : pc'[q] = pc[q]
      /\ \/ pc'[EndTask] = pc[EndTask]
         \/ pc[Main] \in {"record", "skipped"} /\ pc'[EndTask] = "wait"
      /\ \/ pc'[Main] = pc[Main]
         \/ pc[Main] = "record" /\ pc'[Main] = "skipped"
         \/ pc'[Main] \in {"skip", "idle", "poll", "scan", "begin", "release",
                          "end"}
  <2> USE ProcessAssumption
      DEF Goto, rtsVars, FrameInv, RtsInv, LocalInv, Process
  <2>1. CASE EndFrame
    BY <2>1 DEF EndFrame
  <2>2. CASE SkipCmdBatches
    BY <2>2 DEF SkipCmdBatches
  <2>3. CASE WaitNextFrame \/ Deinitialize \/ Poll \/ PollEnd \/ WaitAll
    BY <2>3 DEF WaitNextFrame, Deinitialize, Poll, PollEnd, WaitAll
  <2>4. CASE \E b \in Batch :
                ScanPending(b) \/ ScanComplete(b) \/ ScanCompleted(b)
    BY <2>4 DEF ScanPending, ScanComplete, ScanCompleted
  <2> QED
    BY <2>1, <2>2, <2>3, <2>4 DEF MainGoesOn
<1>4. Active' => Active
  BY <1>3 DEF Active
<1>5. \A q \in Process : pc'[q] \in {"mark", "send"} => pc[q] = pc'[q]
  BY <1>3 DEF Process
<1> QED
  BY <1>1, <1>2, <1>4, <1>5 DEF Still

LEMMA OrderInvStep ==
    ASSUME Known, OrderInv, [Next]_vars
    PROVE  OrderInv'
<1>0. FrameInv /\ (Still => OrderInv')
  BY OrderStill DEF Known, Still
<1>1. ASSUME NEW p \in Batch \union {EndTask}, FlushQueue(p)
      PROVE  OrderInv'
  BY <1>0, <1>1, LockOrder, MarkOrder, SendOrder, FlushStill DEF FlushQueue
<1>2. ASSUME NEW b \in Batch, BatchTask(b)
      PROVE  OrderInv'
  BY <1>0, <1>1, <1>2, BatchTaskStill DEF BatchTask
<1>3. CASE EndFrameTask
  BY <1>0, <1>1, <1>3, EndTaskStill, ClearOrder DEF EndFrameTask
<1>4. CASE MainCreates
  BY <1>0, <1>4, CreateStill, MainStill DEF MainCreates
<1>5. CASE MainGoesOn
  BY <1>0, <1>5, MainStill, NewFrameOrder
<1>6. CASE UNCHANGED vars
  BY <1>0, <1>6
  DEF Still, Active, vars, rtsVars, batchVars
<1> QED
  BY <1>2, <1>3, <1>4, <1>5, <1>6, ExecuteOrder DEF Next

LEMMA OrderInit == Init => OrderInv
<1> SUFFICES ASSUME Init PROVE OrderInv
  OBVIOUS
<1>1. onGpu = <<>> /\ \A p \in Process : pc[p] \notin {"mark", "send"}
  BY DEF Init
<1>2. DOMAIN onGpu = {}
  BY <1>1
<1> QED
  BY <1>1, <1>2
  DEF OrderInv, RangeInv, SentInv, TakenInv, OnceInv, OrderOnGpu

\* However many threads flush the queue, under whichever modes: the GPU is
\* given the batches of one frame in the order of their submit indices
\* (_FlushQueue(), which takes the range again under the lock).
THEOREM OnGpuInOrder == Spec => []OrderOnGpu
<1>1. Known /\ OrderInv /\ [Next]_vars => OrderInv'
  BY OrderInvStep
<1>2. OrderInv => OrderOnGpu
  BY DEF OrderInv
<1> QED
  BY <1>1, <1>2, OrderInit, KnownHolds, PTL DEF Spec
-----------------------------------------------------------------------------
(* A readback goes on after the GPU has executed the batch. *)

\* That life of the batch is executed or given up, or its submission failed.
Past(b, l) == l \in executed[b] \union abandoned[b]
              \/ (status[b] = "Pending" /\ at[b] = "user")

Reading == [batch : Batch, life : Nat, done : BOOLEAN]

\* A reader waits in the list of the frame of its batch.
ReadInv ==
    /\ reads \in [Reader -> Reading \union {None}]
    /\ \A r \in Reader : reads[r] # None =>
        /\ reads[r].life \in 1..life[reads[r].batch]
        /\ reads[r].done => Past(reads[r].batch, reads[r].life)
    /\ \A x \in FrameIdx : \A r \in nextCycle[x] :
        /\ reads[r] # None
        /\ \/ reads[r].life < life[reads[r].batch]
           \/ status[reads[r].batch] = "Destroyed"
           \/ FrameIndex(desc[reads[r].batch].frame) = x

\* A batch that is not submitted is in the hands of its render task.
StatusInv ==
    \A b \in Batch : /\ status[b] = "Initial" => pc[b] = "record"
                     /\ status[b] = "Recorded" => pc[b] = "recorded"

\* Main releases the readers of a frame that is complete.
ReleaseInv ==
    /\ pc[Main] \in {"poll", "scan"} =>
          frameId < LastFrame \/ rtsStatus = "Destroyed"
    /\ pc[Main] = "release" =>
          \/ rtsStatus = "BeginFrame" /\ submitted[FrameIndex(frameId)] = {}
          \/ rtsStatus = "Destroyed" /\ submitted[FrameIndex(polled)] = {}

\* A batch that is submitted is in the hands of the scheduler.
SubmittedInv ==
    \A b \in Batch : status[b] = "Submitted" => at[b] # "user"

LEMMA PastKept ==
    ASSUME BatchInv, [BatchNext]_batchVars, NEW b \in Batch,
           NEW l \in 1..life[b], Past(b, l)
    PROVE  Past(b, l)'
<1>1. \/ status[b] # "Destroyed" /\ l = life[b]
      \/ l \in executed[b] \union abandoned[b]
  BY DEF BatchInv, PastInv
<1>2. ASSUME NEW c \in Batch, Step(c)
      PROVE  Past(b, l)'
  <2> USE DEF Past, Set, Move, gpuVars, lifeVars, BatchInv, BatchTypeOK
  <2>1. CASE ReleaseObject(c)
    BY <1>1, <2>1 DEF ReleaseObject
  <2>2. CASE GpuSignal(c)
    BY <2>2 DEF GpuSignal
  <2>3. CASE Create(c) \/ EndRecording(c) \/ SubmitBegin(c) \/ SubmitError(c)
             \/ Enqueue(c)
    BY <2>3 DEF Create, EndRecording, SubmitBegin, SubmitError, Enqueue
  <2>4. CASE OnSubmit(c) \/ OnSubmitRelease(c) \/ OnComplete(c)
             \/ OnCompleteRelease(c) \/ OnCompleteDone(c)
    BY <2>4
    DEF OnSubmit, OnSubmitRelease, OnComplete, OnCompleteRelease,
        OnCompleteDone
  <2> QED
    BY <1>2, <2>1, <2>2, <2>3, <2>4 DEF Step
<1>3. ASSUME NEW c \in Batch, NEW t \in Task, Wait(t, c)
      PROVE  Past(b, l)'
  BY <1>3 DEF Wait, AddOnSubmitDependency, AddOnCompleteDependency, Past,
              gpuVars, lifeVars
<1>4. ASSUME NEW B \in SUBSET Batch, Drop(B) \/ QueueSubmit(B)
      PROVE  Past(b, l)'
  <2> USE DEF Past, MoveAll, gpuVars, lifeVars
  <2>1. CASE Drop(B)
    BY <2>1 DEF Drop
  <2>2. CASE QueueSubmit(B)
    BY <2>2 DEF QueueSubmit
  <2> QED
    BY <1>4, <2>1, <2>2
<1>5. CASE UNCHANGED batchVars
  BY <1>5 DEF batchVars, Past
<1> QED
  BY <1>2, <1>3, <1>4, <1>5 DEF BatchNext

\* A batch that is destroyed stays so until its next life.
LEMMA LifeStep ==
    ASSUME BatchTypeOK, [BatchNext]_batchVars, NEW b \in Batch
    PROVE  \/ life'[b] = life[b] + 1
           \/ life'[b] = life[b]
              /\ (status[b] = "Destroyed" => status'[b] = "Destroyed")
<1> DEFINE Kept == life'[b] = life[b]
                   /\ (status[b] = "Destroyed" => status'[b] = "Destroyed")
<1>1. ASSUME NEW c \in Batch, Step(c)
      PROVE  life'[b] = life[b] + 1 \/ Kept
  <2> USE DEF Set, BatchTypeOK, lifeVars
  <2>1. CASE Create(c)
    BY <2>1 DEF Create
  <2>2. CASE EndRecording(c) \/ SubmitBegin(c) \/ SubmitError(c)
             \/ Enqueue(c) \/ GpuSignal(c) \/ ReleaseObject(c)
    BY <2>2
    DEF EndRecording, SubmitBegin, SubmitError, Enqueue, GpuSignal,
        ReleaseObject
  <2>3. CASE OnSubmit(c) \/ OnSubmitRelease(c) \/ OnComplete(c)
             \/ OnCompleteRelease(c) \/ OnCompleteDone(c)
    BY <2>3
    DEF OnSubmit, OnSubmitRelease, OnComplete, OnCompleteRelease,
        OnCompleteDone
  <2> QED
    BY <1>1, <2>1, <2>2, <2>3 DEF Step
<1>2. ASSUME NEW c \in Batch, NEW t \in Task, Wait(t, c)
      PROVE  Kept
  BY <1>2 DEF Wait, AddOnSubmitDependency, AddOnCompleteDependency, lifeVars
<1>3. ASSUME NEW B \in SUBSET Batch, Drop(B) \/ QueueSubmit(B)
      PROVE  Kept
  BY <1>3 DEF Drop, QueueSubmit, lifeVars
<1>4. CASE UNCHANGED batchVars
  BY <1>4 DEF batchVars
<1> QED
  BY <1>1, <1>2, <1>3, <1>4 DEF BatchNext

\* What a step that neither adds nor releases a reader leaves.
LEMMA ReadStill ==
    ASSUME Known, ReadInv, [Next]_vars, NEW r \in Reader, reads[r] # None,
           NEW b, NEW l, b = reads[r].batch, l = reads[r].life
    PROVE  /\ b \in Batch
           /\ l \in 1..life'[b]
           /\ Past(b, l) => Past(b, l)'
           /\ \A x \in FrameIdx : r \in nextCycle[x] =>
                \/ l < life'[b]
                \/ status'[b] = "Destroyed"
                \/ FrameIndex(desc'[b].frame) = x
<1>1. b \in Batch /\ l \in Nat /\ l \in 1..life[b]
  BY DEF ReadInv, Reading
<1>2. [BatchNext]_batchVars
  BY NextSteps DEF Known, FrameInv
<1>3. /\ life[b] \in Nat
      /\ \/ life'[b] = life[b] + 1
         \/ /\ life'[b] = life[b]
            /\ status[b] = "Destroyed" => status'[b] = "Destroyed"
  BY <1>1, <1>2, LifeStep DEF Known, BatchInv, BatchTypeOK
<1>4. l \in 1..life'[b]
  BY <1>1, <1>3
<1>5. Past(b, l) => Past(b, l)'
  BY <1>1, <1>2, PastKept DEF Known
<1>6. \A x \in FrameIdx : r \in nextCycle[x] =>
          \/ l < life'[b]
          \/ status'[b] = "Destroyed"
          \/ FrameIndex(desc'[b].frame) = x
  <2> SUFFICES ASSUME NEW x \in FrameIdx, r \in nextCycle[x],
                      life'[b] = l, status'[b] # "Destroyed"
               PROVE  FrameIndex(desc'[b].frame) = x
    BY <1>1, <1>3
  <2>1. life'[b] = life[b] /\ status[b] # "Destroyed"
    BY <1>1, <1>3
  <2>2. FrameIndex(desc[b].frame) = x
    <3>1. \/ reads[r].life < life[reads[r].batch]
          \/ status[reads[r].batch] = "Destroyed"
          \/ FrameIndex(desc[reads[r].batch].frame) = x
      BY DEF ReadInv
    <3>2. ~(l < life[b])
      BY <1>1, <1>3, <2>1
    <3> QED
      BY <2>1, <3>1, <3>2
  <2>3. desc'[b] = desc[b]
    BY <1>1, <1>3, <2>1, DescStep DEF Known, DescKept
  <2> QED
    BY <2>2, <2>3
<1> QED
  BY <1>1, <1>4, <1>5, <1>6

LEMMA SubmittedStep ==
    ASSUME BatchInv, SubmittedInv, [BatchNext]_batchVars
    PROVE  SubmittedInv'
<1> SUFFICES ASSUME NEW b \in Batch, status'[b] = "Submitted"
             PROVE  at'[b] # "user"
  BY DEF SubmittedInv
<1>1. ASSUME NEW c \in Batch, Step(c)
      PROVE  at'[b] # "user"
  <2> USE DEF Set, Move, BatchInv, BatchTypeOK, PlaceInv, SubmittedInv
  <2>1. CASE Create(c) \/ EndRecording(c) \/ SubmitBegin(c) \/ SubmitError(c)
             \/ Enqueue(c) \/ GpuSignal(c) \/ ReleaseObject(c)
    BY <2>1
    DEF Create, EndRecording, SubmitBegin, SubmitError, Enqueue, GpuSignal,
        ReleaseObject
  <2>2. CASE OnSubmit(c) \/ OnSubmitRelease(c) \/ OnComplete(c)
             \/ OnCompleteRelease(c) \/ OnCompleteDone(c)
    BY <2>2
    DEF OnSubmit, OnSubmitRelease, OnComplete, OnCompleteRelease,
        OnCompleteDone
  <2> QED
    BY <1>1, <2>1, <2>2 DEF Step
<1>2. ASSUME NEW c \in Batch, NEW t \in Task, Wait(t, c)
      PROVE  at'[b] # "user"
  BY <1>2 DEF Wait, AddOnSubmitDependency, AddOnCompleteDependency,
              SubmittedInv
<1>3. ASSUME NEW B \in SUBSET Batch, Drop(B) \/ QueueSubmit(B)
      PROVE  at'[b] # "user"
  BY <1>3 DEF Drop, QueueSubmit, MoveAll, SubmittedInv, BatchInv, PlaceInv
<1>4. CASE UNCHANGED batchVars
  BY <1>4 DEF batchVars, SubmittedInv
<1> QED
  BY <1>1, <1>2, <1>3, <1>4 DEF BatchNext

LEMMA StatusStep ==
    ASSUME FrameInv, StatusInv, [Next]_vars
    PROVE  StatusInv'
<1> SUFFICES ASSUME NEW b \in Batch
             PROVE  /\ status'[b] = "Initial" => pc'[b] = "record"
                    /\ status'[b] = "Recorded" => pc'[b] = "recorded"
  BY DEF StatusInv
<1> USE ProcessAssumption
    DEF StatusInv, FrameInv, RtsInv, LocalInv, BatchTypeOK, Goto, Process,
        Set
<1>1. ASSUME NEW p \in Batch \union {EndTask}, FlushQueue(p)
      PROVE  /\ status'[b] = "Initial" => pc'[b] = "record"
             /\ status'[b] = "Recorded" => pc'[b] = "recorded"
  <2>1. \/ UNCHANGED status
        \/ status'[b] = status[b] \/ status'[b] = "Submitted"
    BY <1>1
    DEF FlushQueue, FlushCheck, FlushTryLockFails, FlushLock, FlushMark,
        FlushSend, QueueSubmit, FlushNotify, OnSubmit, OnSubmitRelease,
        FlushUnlock, FlushInsert, batchVars
  <2>2. pc'[b] = pc[b] \/ pc[b] \notin {"record", "recorded"}
    BY <1>1
    DEF FlushQueue, FlushCheck, FlushTryLockFails, FlushLock, FlushMark,
        FlushSend, FlushNotify, FlushUnlock, FlushInsert, rtsVars
  <2> QED
    BY <2>1, <2>2
<1>2. ASSUME NEW c \in Batch, BatchTask(c)
      PROVE  /\ status'[b] = "Initial" => pc'[b] = "record"
             /\ status'[b] = "Recorded" => pc'[b] = "recorded"
  <2>1. CASE Record(c)
    BY <2>1 DEF Record, EndRecording
  <2>2. CASE Submit(c)
    BY <2>2 DEF Submit, SubmitBegin
  <2>3. CASE SubmitFails(c) \/ SubmitToQueue(c)
    BY <2>3 DEF SubmitFails, SubmitError, SubmitToQueue, Enqueue
  <2>4. CASE Recycle(c)
    BY <2>4 DEF Recycle, ReleaseObject
  <2> QED
    BY <1>1, <1>2, <2>1, <2>2, <2>3, <2>4 DEF BatchTask
<1>3. CASE EndFrameTask
  <2>1. CASE FlushQueue(EndTask)
    BY <1>1, <2>1
  <2>2. CASE EndTaskStart \/ EndTaskExchange \/ EndTaskDone \/ EndTaskReset
    BY <2>2
    DEF EndTaskStart, EndTaskExchange, EndTaskDone, EndTaskReset, Clear, Drop,
        batchVars
  <2> QED
    BY <1>3, <2>1, <2>2 DEF EndFrameTask
<1>4. ASSUME NEW c \in Batch, NEW i \in Idx, NEW m \in Modes,
             BeginCmdBatch(c, i, m)
      PROVE  /\ status'[b] = "Initial" => pc'[b] = "record"
             /\ status'[b] = "Recorded" => pc'[b] = "recorded"
  BY <1>4 DEF BeginCmdBatch, Create
<1>5. CASE MainGoesOn \/ SkipCmdBatches
  <2>1. CASE EndFrame \/ SkipCmdBatches \/ WaitNextFrame \/ Deinitialize
             \/ Poll \/ PollEnd \/ BeginFrame \/ FrameBegun \/ WaitAll
    BY <2>1
    DEF EndFrame, SkipCmdBatches, WaitNextFrame, Deinitialize, Poll, PollEnd,
        BeginFrame, FrameBegun, WaitAll, batchVars
  <2>2. ASSUME NEW c \in Batch,
               ScanPending(c) \/ ScanComplete(c) \/ ScanCompleted(c)
        PROVE  /\ status'[b] = "Initial" => pc'[b] = "record"
               /\ status'[b] = "Recorded" => pc'[b] = "recorded"
    BY <2>2
    DEF ScanPending, ScanComplete, ScanCompleted, OnComplete,
        OnCompleteRelease, OnCompleteDone, batchVars, rtsVars
  <2> QED
    BY <1>5, <2>1, <2>2 DEF MainGoesOn
<1>6. CASE Execute \/ UNCHANGED vars
  BY <1>6 DEF Execute, GpuSignal, vars, batchVars, rtsVars
<1> QED
  BY <1>2, <1>3, <1>4, <1>5, <1>6 DEF Next, MainCreates

LEMMA ReleaseStep ==
    ASSUME FrameInv, ReleaseInv, [Next]_vars
    PROVE  ReleaseInv'
<1>1. ASSUME UNCHANGED <<rtsStatus, frameId, submitted, polled>>,
             pc'[Main] = pc[Main]
      PROVE  ReleaseInv'
  BY <1>1 DEF ReleaseInv
<1>2. ASSUME pc'[Main] \notin {"poll", "scan", "release"}
      PROVE  ReleaseInv'
  BY <1>2 DEF ReleaseInv
<1>3. Main \in Process /\ EndTask # Main /\ Main \notin Batch
  BY ProcessAssumption DEF Process
<1>4. ASSUME NEW p \in Batch \union {EndTask},
             pc[p] \notin {"free", "done"}, pc'[Main] = pc[Main]
      PROVE  ReleaseInv'
  BY <1>2, <1>4, BusyMain
<1>5. ASSUME NEW p \in Batch \union {EndTask}, FlushQueue(p)
      PROVE  ReleaseInv'
  <2>1. pc[p] \notin {"free", "done"} /\ pc'[Main] = pc[Main]
    BY <1>3, <1>5
    DEF FlushQueue, FlushCheck, FlushTryLockFails, FlushLock, FlushMark,
        FlushSend, FlushNotify, FlushUnlock, FlushInsert, Goto, rtsVars,
        FrameInv, RtsInv, LocalInv
  <2> QED
    BY <1>4, <2>1
<1>6. ASSUME NEW c \in Batch, BatchTask(c)
      PROVE  ReleaseInv'
  <2>1. CASE Record(c) \/ Submit(c) \/ SubmitFails(c) \/ SubmitToQueue(c)
             \/ Recycle(c)
    <3>1. UNCHANGED <<rtsStatus, frameId, submitted, polled>>
      BY <2>1
      DEF Record, Submit, SubmitFails, SubmitToQueue, Recycle, frameVars,
          localVars
    <3>2. pc'[Main] = pc[Main]
      BY <1>3, <2>1
      DEF Record, Submit, SubmitFails, SubmitToQueue, Recycle, Goto, FrameInv,
          RtsInv, LocalInv
    <3> QED
      BY <1>1, <3>1, <3>2
  <2> QED
    BY <1>5, <1>6, <2>1 DEF BatchTask
<1>7. CASE EndFrameTask
  <2>1. CASE FlushQueue(EndTask)
    BY <1>5, <2>1
  <2>2. CASE EndTaskStart \/ EndTaskExchange \/ EndTaskDone \/ EndTaskReset
    <3>1. pc[EndTask] \notin {"free", "done"} /\ pc'[Main] = pc[Main]
      BY <1>3, <2>2
      DEF EndTaskStart, EndTaskExchange, EndTaskDone, EndTaskReset, Goto,
          FrameInv, RtsInv, LocalInv
    <3> QED
      BY <1>4, <3>1
  <2> QED
    BY <1>7, <2>1, <2>2 DEF EndFrameTask
<1>8. ASSUME NEW c \in Batch, NEW i \in Idx, NEW m \in Modes,
             BeginCmdBatch(c, i, m)
      PROVE  ReleaseInv'
  BY <1>2, <1>3, <1>8 DEF BeginCmdBatch, FrameInv, RtsInv, LocalInv
<1>9. CASE MainGoesOn \/ SkipCmdBatches
  <2> USE <1>3 DEF Goto, FrameInv, RtsInv, LocalInv, ReleaseInv, frameVars
  <2>1. CASE EndFrame \/ SkipCmdBatches \/ FrameBegun
    BY <1>2, <2>1, ProcessAssumption DEF EndFrame, SkipCmdBatches, FrameBegun
  <2>2. CASE WaitNextFrame
    BY <2>2 DEF WaitNextFrame
  <2>3. CASE Deinitialize
    BY <2>3 DEF Deinitialize
  <2>4. CASE Poll
    BY <2>4 DEF Poll
  <2>5. CASE PollEnd
    <3>1. /\ UNCHANGED <<rtsStatus, frameId, submitted, polled>>
          /\ pc[Main] = "scan"
          /\ pc'[Main] = IF submitted[FrameIndex(polled)] # {} THEN "poll"
                         ELSE IF frameId < LastFrame THEN "begin"
                         ELSE "release"
      BY <2>5 DEF PollEnd, localVars
    <3> QED
      BY <3>1
  <2>6. CASE BeginFrame
    <3>1. submitted[FrameIndex(frameId + 1)] = {}
      BY <2>6 DEF BeginFrame, LookInv
    <3> QED
      BY <2>6, <3>1 DEF BeginFrame
  <2>7. CASE WaitAll
    BY <2>7 DEF WaitAll
  <2>8. ASSUME NEW c \in Batch,
               ScanPending(c) \/ ScanComplete(c) \/ ScanCompleted(c)
        PROVE  ReleaseInv'
    BY <2>8 DEF ScanPending, ScanComplete, ScanCompleted, rtsVars
  <2> QED
    BY <1>9, <2>1, <2>2, <2>3, <2>4, <2>5, <2>6, <2>7, <2>8 DEF MainGoesOn
<1>10. CASE Execute \/ UNCHANGED vars
  BY <1>1, <1>10 DEF Execute, vars, rtsVars, frameVars, localVars
<1> QED
  BY <1>6, <1>7, <1>8, <1>9, <1>10 DEF Next, MainCreates

\* When the readers of a frame are released, the batches of it are done.
LEMMA ReleasedIsPast ==
    ASSUME Known, ReadInv, StatusInv, SubmittedInv, pc[Main] = "release",
           NEW x \in FrameIdx, submitted[x] = {}, NEW r \in nextCycle[x],
           NEW b, NEW l, b = reads[r].batch, l = reads[r].life
    PROVE  Past(b, l)
<1>1. /\ r \in Reader /\ reads[r] # None
      /\ \/ reads[r].life < life[reads[r].batch]
         \/ status[reads[r].batch] = "Destroyed"
         \/ FrameIndex(desc[reads[r].batch].frame) = x
  BY DEF ReadInv, Known, FrameInv, RtsInv, RtsTypeOK
<1>2. reads[r] \in Reading /\ reads[r].life \in 1..life[reads[r].batch]
  BY <1>1 DEF ReadInv
<1>3. b \in Batch /\ l \in 1..life[b] /\ life[b] \in Nat
  BY <1>2 DEF Reading, Known, BatchInv, BatchTypeOK
<1>4. CASE l \in executed[b] \union abandoned[b]
  BY <1>4 DEF Past
<1>5. CASE l = life[b] /\ status[b] # "Destroyed"
  <2>1. FrameIndex(desc[b].frame) = x
    BY <1>1, <1>3, <1>5
  <2>2. pc[EndTask] = "free"
    BY DEF Known, FrameInv, AlternateInv
  <2>3. /\ \A c \in Batch : pc[c] \in {"free", "done"}
        /\ \A p \in Process : InHands(p) = {}
    BY <2>2 DEF Known, FrameInv, TaskInv, Recording, InHands, Process
  <2>4. ~Held(b)
    BY <2>3 DEF Known, FrameInv, HandsInv, Held
  <2>5. at[b] = "user"
    BY <1>3, <2>1, <2>2, <2>3, <2>4
    DEF Known, FrameInv, WhereInv, At, BatchTypeOK, Place
  <2>6. status[b] \in {"Pending", "Completed"}
    BY <1>3, <1>5, <2>3, <2>5
    DEF StatusInv, SubmittedInv, Known, FrameInv, BatchTypeOK, Status
  <2> QED
    BY <1>3, <1>5, <2>5, <2>6 DEF Past, Known, BatchInv, GpuInv
<1> QED
  BY <1>3, <1>4, <1>5 DEF Known, BatchInv, PastInv

LEMMA RecordReads ==
    ASSUME Known, ReadInv, [Next]_vars, NEW b \in Batch, Record(b)
    PROVE  ReadInv'
<1> DEFINE y == FrameIndex(desc[b].frame)
<1>1. PICK R \in SUBSET {r \in Reader : reads[r] = None} :
        /\ reads' = [r \in Reader |->
                IF r \in R THEN [batch |-> b, life |-> life[b], done |-> FALSE]
                ELSE reads[r]]
        /\ nextCycle' = [nextCycle EXCEPT ![y] = @ \union R]
  BY DEF Record
<1>2. UNCHANGED <<life, desc>> /\ life[b] \in Nat /\ life[b] \in 1..life[b]
  <2>1. UNCHANGED <<life, desc>> /\ status[b] = "Initial"
    BY DEF Record, EndRecording, Set, lifeVars
  <2>2. life[b] \in Nat /\ life[b] > 0
    BY <2>1 DEF Known, BatchInv, BatchTypeOK, PlaceInv
  <2> QED
    BY <2>1, <2>2
<1>3. [batch |-> b, life |-> life[b], done |-> FALSE] \in Reading
  BY <1>2 DEF Reading
<1>4. \A r \in R : /\ reads'[r] # None /\ reads'[r].batch = b
                   /\ reads'[r].life = life[b] /\ ~reads'[r].done
                   /\ reads[r] = None /\ r \in Reader
  BY <1>1, <1>3, ReadAssumption DEF Reading
<1>5. \A r \in Reader \ R : reads'[r] = reads[r]
  BY <1>1
<1>6. reads' \in [Reader -> Reading \union {None}]
  BY <1>1, <1>3 DEF ReadInv
<1>7. ASSUME NEW r \in Reader, reads'[r] # None
      PROVE  /\ reads'[r].life \in 1..life'[reads'[r].batch]
             /\ reads'[r].done => Past(reads[r].batch, reads[r].life)'
  <2>1. CASE r \in R
    BY <1>2, <1>4, <2>1
  <2>2. CASE r \notin R
    <3>1. PICK c, l : c = reads[r].batch /\ l = reads[r].life
      OBVIOUS
    <3>2. l \in 1..life'[c] /\ (reads[r].done => Past(c, l)')
      BY <1>5, <1>7, <2>2, <3>1, ReadStill DEF ReadInv
    <3> QED
      BY <1>5, <2>2, <3>1, <3>2 DEF Past
  <2> QED
    BY <2>1, <2>2
<1>8. ASSUME NEW x \in FrameIdx, NEW r \in nextCycle'[x]
      PROVE  /\ reads'[r] # None
             /\ \/ reads'[r].life < life'[reads'[r].batch]
                \/ status'[reads'[r].batch] = "Destroyed"
                \/ FrameIndex(desc'[reads'[r].batch].frame) = x
  <2>1. nextCycle \in [FrameIdx -> SUBSET Reader] /\ y \in FrameIdx
    BY IndexOfFrame DEF Known, FrameInv, RtsInv, RtsTypeOK, LocalInv
  <2>2. r \in nextCycle[x] \/ (x = y /\ r \in R)
    BY <1>1, <2>1
  <2>3. CASE r \in nextCycle[x]
    <3>1. r \in Reader /\ reads[r] # None /\ r \notin R
      BY <1>4, <2>1, <2>3 DEF ReadInv
    <3>2. PICK c, l : c = reads[r].batch /\ l = reads[r].life
      OBVIOUS
    <3>3. \/ l < life'[c]
          \/ status'[c] = "Destroyed"
          \/ FrameIndex(desc'[c].frame) = x
      BY <2>3, <3>1, <3>2, ReadStill
    <3> QED
      BY <1>5, <3>1, <3>2, <3>3
  <2>4. CASE x = y /\ r \in R
    BY <1>2, <1>4, <2>4
  <2> QED
    BY <2>2, <2>3, <2>4
<1> QED
  BY <1>6, <1>7, <1>8 DEF ReadInv

LEMMA NextFrameReads ==
    ASSUME Known, ReadInv, StatusInv, SubmittedInv, ReleaseInv, [Next]_vars,
           FrameBegun \/ WaitAll
    PROVE  ReadInv'
<1>1. PICK y \in FrameIdx :
        /\ OnNextFrame(y) /\ submitted[y] = {} /\ pc[Main] = "release"
  <2>1. CASE FrameBegun
    <3>1. /\ OnNextFrame(FrameIndex(frameId)) /\ pc[Main] = "release"
          /\ rtsStatus = "BeginFrame"
      BY <2>1 DEF FrameBegun, Goto
    <3>2. FrameIndex(frameId) \in FrameIdx
      BY IndexOfFrame, FrameAssumption
      DEF Known, FrameInv, RtsInv, RtsTypeOK
    <3> QED
      BY <3>1, <3>2 DEF ReleaseInv
  <2>2. CASE WaitAll
    <3>1. /\ OnNextFrame(FrameIndex(polled)) /\ pc[Main] = "release"
          /\ rtsStatus = "Destroyed"
      BY <2>2 DEF WaitAll, Goto
    <3>2. FrameIndex(polled) \in FrameIdx
      BY IndexOfFrame DEF Known, FrameInv, RtsInv, LocalInv
    <3> QED
      BY <3>1, <3>2 DEF ReleaseInv
  <2> QED
    BY <2>1, <2>2
<1>2. UNCHANGED <<batchVars, desc>>
  BY DEF FrameBegun, WaitAll
<1>3. nextCycle \in [FrameIdx -> SUBSET Reader]
  BY DEF Known, FrameInv, RtsInv, RtsTypeOK
<1>4. /\ \A r \in nextCycle[y] : /\ r \in Reader /\ reads[r] \in Reading
                                 /\ reads'[r] = [reads[r] EXCEPT !.done = TRUE]
      /\ \A r \in Reader \ nextCycle[y] : reads'[r] = reads[r]
      /\ reads' = [r \in Reader |-> reads'[r]]
  BY <1>1, <1>3 DEF OnNextFrame, ReadInv
<1>5. \A r \in nextCycle[y] :
        /\ reads'[r] \in Reading
        /\ reads'[r].batch = reads[r].batch /\ reads'[r].life = reads[r].life
  BY <1>4 DEF Reading
<1>6. \A x \in FrameIdx :
        nextCycle'[x] = IF x = y THEN {} ELSE nextCycle[x]
  BY <1>1, <1>3 DEF OnNextFrame
<1>7. reads' \in [Reader -> Reading \union {None}]
  <2>1. \A r \in Reader : reads'[r] \in Reading \union {None}
    BY <1>4, <1>5 DEF ReadInv
  <2> QED
    BY <1>4, <2>1
<1>8. ASSUME NEW r \in Reader, reads'[r] # None
      PROVE  /\ reads[r] # None
             /\ reads'[r].batch = reads[r].batch
             /\ reads'[r].life = reads[r].life
             /\ reads'[r].done => Past(reads[r].batch, reads[r].life)
  <2>1. CASE r \in nextCycle[y]
    <3>1. PICK c, l : c = reads[r].batch /\ l = reads[r].life
      OBVIOUS
    <3>2. Past(c, l)
      BY <1>1, <2>1, <3>1, ReleasedIsPast
    <3> QED
      BY <1>4, <1>5, <2>1, <3>1, <3>2, ReadAssumption DEF Reading
  <2>2. CASE r \notin nextCycle[y]
    BY <1>4, <1>8, <2>2 DEF ReadInv
  <2> QED
    BY <2>1, <2>2
<1>9. ASSUME NEW r \in Reader, reads'[r] # None
      PROVE  /\ reads'[r].life \in 1..life'[reads'[r].batch]
             /\ reads'[r].done => Past(reads[r].batch, reads[r].life)'
  BY <1>2, <1>8, <1>9 DEF ReadInv, Past, batchVars
<1>10. ASSUME NEW x \in FrameIdx, NEW r \in nextCycle'[x]
       PROVE  /\ reads'[r] # None
              /\ \/ reads'[r].life < life'[reads'[r].batch]
                 \/ status'[reads'[r].batch] = "Destroyed"
                 \/ FrameIndex(desc'[reads'[r].batch].frame) = x
  <2>1. r \in nextCycle[x] /\ r \in Reader
    BY <1>3, <1>6
  <2>2. reads[r] # None /\ reads'[r] # None
    BY <1>4, <1>5, <2>1, ReadAssumption DEF ReadInv, Reading
  <2> QED
    BY <1>2, <1>8, <2>1, <2>2 DEF ReadInv, batchVars
<1> QED
  BY <1>7, <1>9, <1>10 DEF ReadInv

\* The other steps add and release no reader.
LEMMA ReadersKept ==
    ASSUME [Next]_vars
    PROVE  \/ \E b \in Batch : Record(b)
           \/ FrameBegun \/ WaitAll
           \/ UNCHANGED <<reads, nextCycle>>
<1>1. CASE UNCHANGED vars \/ Execute
  BY <1>1 DEF vars, rtsVars, Execute, frameVars
<1>2. ASSUME NEW c \in Batch, BatchTask(c)
      PROVE  \/ \E b \in Batch : Record(b)
             \/ UNCHANGED <<reads, nextCycle>>
  <2>1. CASE FlushQueue(c)
    BY <2>1, FlushKeepsDesc
  <2> QED
    BY <1>2, <2>1
    DEF BatchTask, Submit, SubmitFails, SubmitToQueue, Recycle, frameVars
<1>3. ASSUME NEW c \in Batch, NEW i \in Idx, NEW m \in Modes,
             BeginCmdBatch(c, i, m)
      PROVE  UNCHANGED <<reads, nextCycle>>
  BY <1>3 DEF BeginCmdBatch, frameVars
<1> QED
  BY <1>1, <1>2, <1>3, EndTaskKeepsDesc, MainKeepsDesc DEF Next, MainCreates

LEMMA ReadStep ==
    ASSUME Known, ReadInv, StatusInv, SubmittedInv, ReleaseInv, [Next]_vars
    PROVE  ReadInv'
<1>1. CASE UNCHANGED <<reads, nextCycle>>
  <2>1. ASSUME NEW r \in Reader, reads[r] # None
        PROVE  /\ reads[r].life \in 1..life'[reads[r].batch]
               /\ reads[r].done => Past(reads[r].batch, reads[r].life)'
               /\ \A x \in FrameIdx : r \in nextCycle[x] =>
                    \/ reads[r].life < life'[reads[r].batch]
                    \/ status'[reads[r].batch] = "Destroyed"
                    \/ FrameIndex(desc'[reads[r].batch].frame) = x
    <3>1. PICK c, l : c = reads[r].batch /\ l = reads[r].life
      OBVIOUS
    <3>2. /\ l \in 1..life'[c]
          /\ reads[r].done => Past(c, l)'
          /\ \A x \in FrameIdx : r \in nextCycle[x] =>
                \/ l < life'[c]
                \/ status'[c] = "Destroyed"
                \/ FrameIndex(desc'[c].frame) = x
      BY <2>1, <3>1, ReadStill DEF ReadInv
    <3> QED
      BY <1>1, <3>1, <3>2 DEF Past
  <2>2. \A x \in FrameIdx : nextCycle[x] \subseteq Reader
    BY DEF Known, FrameInv, RtsInv, RtsTypeOK
  <2> QED
    BY <1>1, <2>1, <2>2 DEF ReadInv
<1> QED
  BY <1>1, ReadersKept, RecordReads, NextFrameReads

\* Everything that the readers rest on.
ReadersInv == ReadInv /\ StatusInv /\ SubmittedInv /\ ReleaseInv

LEMMA ReadersStep ==
    ASSUME Known, ReadersInv, [Next]_vars
    PROVE  ReadersInv'
<1>1. [BatchNext]_batchVars
  BY NextSteps DEF Known, FrameInv
<1> QED
  BY <1>1, ReadStep, StatusStep, SubmittedStep, ReleaseStep
  DEF ReadersInv, Known

LEMMA ReadersInit == Init => ReadersInv
<1> SUFFICES ASSUME Init PROVE ReadersInv
  OBVIOUS
<1>1. ReadInv
  BY DEF Init, ReadInv
<1>2. StatusInv /\ SubmittedInv /\ ReleaseInv
  BY ProcessAssumption
  DEF Init, BatchInit, StatusInv, SubmittedInv, ReleaseInv, Process
<1> QED
  BY <1>1, <1>2 DEF ReadersInv

\* A task that reads back goes on only when the batch it reads from has been
\* executed by the GPU, or has failed: OnNextFrame() is called for a frame
\* index whose list of submitted batches is empty.
THEOREM ReadsBackLate == Spec => []ReadBackAfterGpu
<1>1. Known /\ ReadersInv /\ [Next]_vars => ReadersInv'
  BY ReadersStep
<1>2. ReadersInv => ReadBackAfterGpu
  BY DEF ReadersInv, ReadInv, ReadBackAfterGpu, Past
<1> QED
  BY <1>1, <1>2, ReadersInit, KnownHolds, PTL DEF Spec
-----------------------------------------------------------------------------
(* The end of a frame drops nothing. *)

\* The EndFrameTask ends a frame that has not failed.
Finishing == {"check", "lock", "mark", "send", "notify", "insert", "exchange"}

\* The program skips the rest of every frame before it ends it, and does not
\* force the queue.
KeepsContract == Skip = "before EndFrame" /\ "Force" \notin Modes

\* An index that somebody has is pending, or its batch is still to be
\* submitted, or the frame has failed.
PendingInv ==
    /\ bits.submitted \subseteq bits.pending
    /\ bits.pending \subseteq bits.required
    /\ \A b \in Batch : pc[b] \in Early => desc[b].idx \notin bits.pending
    /\ ~failed => \A i \in bits.required \ bits.pending :
          \E b \in Batch : pc[b] \in Early /\ desc[b].idx = i

Whole(S) == \A i \in S : \A k \in 0..i : k \in S

\* The first indices are submitted, and no others.
PrefixInv ==
    /\ Whole(bits.submitted)
    /\ \A p \in Process : pc[p] = "mark" =>
          /\ Whole(bits.submitted \union range[p])
          /\ range[p] \subseteq bits.pending

EndingInv ==
    /\ (pc[Main] = "skipped" \/ pc[EndTask] \in Finishing \union {"wait"})
          => bits.required = Idx
    /\ pc[EndTask] \in Finishing => ~failed
    /\ pc[EndTask] = "mark" => bits.submitted \union range[EndTask] = Idx

NoneLeft == \A i \in Idx : slot[i] = None

\* What is in the table will still be submitted, or the frame has failed.
LeftoverInv ==
    /\ pc[EndTask] # "cancel" => \A i \in Idx : slot[i] # None =>
          i \in bits.pending \ bits.submitted
    /\ pc[EndTask] \in {"send", "notify", "insert", "exchange"} => NoneLeft
    /\ pc[EndTask] = "cancel" => failed \/ NoneLeft

KeptInv == PendingInv /\ PrefixInv /\ EndingInv /\ LeftoverInv

\* A flush takes all that is pending without a gap.
LEMMA RangeIsWhole ==
    ASSUME RtsInv, KeptInv
    PROVE  /\ Whole(bits.submitted \union FlushRange)
           /\ FlushRange \subseteq bits.pending
           /\ bits.pending = Idx => bits.submitted \union FlushRange = Idx
<1>1. /\ Idx = 0..(IdxCount - 1) /\ IdxCount \in Nat
      /\ bits.submitted \subseteq Idx /\ Whole(bits.submitted)
  BY FrameAssumption DEF Idx, RtsInv, RtsTypeOK, KeptInv, PrefixInv
<1>2. \A i \in FlushRange : /\ i \in Idx
                            /\ \A k \in bits.submitted : k < i
                            /\ \A k \in 0..i : k \in bits.pending
  BY DEF FlushRange
<1>3. FlushRange \subseteq bits.pending
  BY <1>1, <1>2
<1>4. ASSUME NEW i \in FlushRange, NEW k \in 0..i
      PROVE  k \in bits.submitted \union FlushRange
  <2>1. k \in Idx /\ i \in Idx
    BY <1>1, <1>2, <1>4
  <2>2. CASE \E j \in bits.submitted : k <= j
    <3>1. PICK j \in bits.submitted : k <= j
      BY <2>2
    <3>2. k \in 0..j
      BY <1>1, <2>1, <3>1
    <3> QED
      BY <1>1, <3>2 DEF Whole
  <2>3. CASE \A j \in bits.submitted : ~(k <= j)
    <3>1. \A j \in bits.submitted : j < k
      BY <1>1, <2>1, <2>3
    <3>2. \A j \in 0..k : j \in 0..i
      BY <1>1, <2>1, <1>4
    <3> QED
      BY <1>2, <2>1, <3>1, <3>2 DEF FlushRange
  <2> QED
    BY <2>2, <2>3
<1>5. Whole(bits.submitted \union FlushRange)
  BY <1>1, <1>4 DEF Whole
<1>6. ASSUME bits.pending = Idx, NEW i \in Idx
      PROVE  i \in bits.submitted \union FlushRange
  <2>1. CASE \E j \in bits.submitted : i <= j
    <3>1. PICK j \in bits.submitted : i <= j
      BY <2>1
    <3>2. i \in 0..j
      BY <1>1, <3>1
    <3> QED
      BY <1>1, <3>2 DEF Whole
  <2>2. CASE \A j \in bits.submitted : ~(i <= j)
    <3>1. \A j \in bits.submitted : j < i
      BY <1>1, <2>2
    <3>2. \A j \in 0..i : j \in Idx
      BY <1>1
    <3> QED
      BY <1>6, <3>1, <3>2 DEF FlushRange
  <2> QED
    BY <2>1, <2>2
<1>7. FlushRange \subseteq Idx
  BY <1>2
<1> QED
  BY <1>1, <1>3, <1>5, <1>6, <1>7

\* The render tasks are done when the EndFrameTask runs.
LEMMA FinishingAlone ==
    ASSUME FrameInv, pc[EndTask] \in Finishing
    PROVE  \A b \in Batch : pc[b] \in {"free", "done"}
<1>1. pc[Main] \notin {"record", "skipped"}
  BY DEF FrameInv, AlternateInv, Finishing
<1> QED
  BY <1>1 DEF FrameInv, TaskInv, Recording, Finishing

\* Then every index is pending.
LEMMA AllPending ==
    ASSUME FrameInv, KeptInv, pc[EndTask] \in Finishing
    PROVE  bits.pending = Idx /\ bits.required = Idx
<1>1. \A b \in Batch : pc[b] \notin Early
  BY FinishingAlone DEF Early
<1>2. ~failed /\ bits.required = Idx
  BY DEF KeptInv, EndingInv
<1>3. bits.pending \subseteq Idx
  BY DEF FrameInv, RtsInv, RtsTypeOK
<1> QED
  BY <1>1, <1>2, <1>3 DEF KeptInv, PendingInv

\* When the EndFrameTask finds nothing to flush, nothing is left.
LEMMA NothingToFlush ==
    ASSUME FrameInv, KeptInv, pc[EndTask] \in {"check", "lock"}, FlushRange = {}
    PROVE  NoneLeft
<1>1. bits.submitted = Idx
  BY AllPending, RangeIsWhole DEF Finishing, FrameInv
<1> QED
  BY <1>1 DEF KeptInv, LeftoverInv, NoneLeft

-----------------------------------------------------------------------------
\* Where a step that does not touch the table or the bits takes the
\* EndFrameTask.
Ending ==
    LET from == pc[EndTask]
        to   == pc'[EndTask]
    IN  \/ to = from
        \/ from = "free" /\ to = "wait" /\ bits.required = Idx
        \/ from = "wait" /\ to = "check" /\ ~failed
        \/ from = "wait" /\ to = "cancel" /\ failed
        \/ from = "check" /\ to = "lock"
        \/ from \in {"check", "lock"} /\ to = "exchange" /\ NoneLeft
        \/ /\ from \in {"send", "notify", "insert"}
           /\ to \in {"notify", "insert", "exchange"}
        \/ from = "end" /\ to = "free"

Quiet ==
    /\ UNCHANGED <<bits, slot, failed>>
    /\ \A b \in Batch : /\ pc'[b] \in Early <=> pc[b] \in Early
                        /\ pc[b] \in Early => desc'[b] = desc[b]
    /\ \A p \in Process : pc'[p] = "mark" =>
          pc[p] = "mark" /\ range'[p] = range[p]
    /\ pc'[Main] = "skipped" => pc[Main] = "skipped"
    /\ Ending

LEMMA QuietKept ==
    ASSUME FrameInv, KeptInv, Quiet
    PROVE  KeptInv'
<1>1. PendingInv'
  BY DEF KeptInv, PendingInv, Quiet
<1>2. PrefixInv'
  BY DEF KeptInv, PrefixInv, Quiet, Whole
<1>3. EndTask \in Process
  BY DEF Process
<1>4. EndingInv'
  BY <1>3 DEF KeptInv, EndingInv, Quiet, Ending, Finishing
<1>5. LeftoverInv'
  BY DEF KeptInv, LeftoverInv, Quiet, Ending, NoneLeft
<1> QED
  BY <1>1, <1>2, <1>4, <1>5 DEF KeptInv

LEMMA RecordQuiet ==
    ASSUME FrameInv, NEW b \in Batch, Record(b) \/ Submit(b) \/ Recycle(b)
    PROVE  Quiet
<1>1. UNCHANGED <<bits, slot, failed, range>>
  BY DEF Record, Submit, Recycle, queueVars, localVars
<1>2. /\ \A q \in Process \ {b} : pc'[q] = pc[q]
      /\ Main \in Process \ {b} /\ EndTask \in Process \ {b}
      /\ Batch \subseteq Process
      /\ pc'[b] \in Early <=> pc[b] \in Early
      /\ pc'[b] # "mark"
  BY ProcessAssumption
  DEF Record, Submit, Recycle, Goto, FrameInv, RtsInv, LocalInv, Process, Early
<1>3. \A c \in Batch : pc[c] \in Early => desc'[c] = desc[c]
  <2>1. CASE Recycle(b)
    BY <2>1 DEF Recycle, Goto, Early, FrameInv, RtsInv, LocalInv
  <2> QED
    BY <2>1 DEF Record, Submit
<1> QED
  BY <1>1, <1>2, <1>3 DEF Quiet, Ending

LEMMA FlushQuiet ==
    ASSUME FrameInv, KeptInv, NEW p \in Batch \union {EndTask},
           \/ FlushCheck(p) \/ FlushTryLockFails(p)
           \/ FlushLock(p) /\ FlushRange = {}
           \/ FlushSend(p) \/ FlushNotify(p)
           \/ FlushUnlock(p) \/ FlushInsert(p)
    PROVE  Quiet
<1>1. UNCHANGED <<bits, slot, failed, desc>>
  BY DEF FlushCheck, FlushTryLockFails, FlushLock, FlushSend, FlushNotify,
         FlushUnlock, FlushInsert, rtsVars, frameVars, queueVars, localVars
<1>2. /\ \A q \in Process \ {p} : pc'[q] = pc[q] /\ range'[q] = range[q]
      /\ Main \in Process \ {p} /\ p \in Process
  BY ProcessAssumption
  DEF FlushCheck, FlushTryLockFails, FlushLock, FlushSend, FlushNotify,
      FlushUnlock, FlushInsert, Goto, rtsVars, localVars, FrameInv, RtsInv,
      LocalInv, Process
<1>3. pc'[p] # "mark" /\ pc'[p] \notin Early /\ pc[p] \notin Early
  BY <1>2
  DEF FlushCheck, FlushTryLockFails, FlushLock, FlushSend, FlushNotify,
      FlushUnlock, FlushInsert, Goto, Return, rtsVars, FrameInv, RtsInv,
      LocalInv, Early
<1>4. Ending
  <2>1. CASE p = EndTask
    <3>1. CASE FlushCheck(p)
      BY <1>2, <2>1, <3>1, NothingToFlush
      DEF FlushCheck, Goto, Return, Ending, FrameInv, RtsInv, LocalInv
    <3>2. CASE FlushTryLockFails(p)
      BY <2>1, <3>2 DEF FlushTryLockFails, Forced
    <3>3. CASE FlushLock(p) /\ FlushRange = {}
      BY <1>2, <2>1, <3>3, NothingToFlush
      DEF FlushLock, Goto, Return, Ending, FrameInv, RtsInv, LocalInv
    <3>4. CASE FlushSend(p) \/ FlushNotify(p) \/ FlushUnlock(p) \/ FlushInsert(p)
      BY <1>2, <2>1, <3>4
      DEF FlushSend, FlushNotify, FlushUnlock, FlushInsert, Goto, Return,
          Ending, rtsVars, FrameInv, RtsInv, LocalInv
    <3> QED
      BY <3>1, <3>2, <3>3, <3>4
  <2>2. CASE p # EndTask
    BY <1>2, <2>2 DEF Ending, Process
  <2> QED
    BY <2>1, <2>2
<1> QED
  BY <1>1, <1>2, <1>3, <1>4 DEF Quiet, Process

LEMMA EndTaskQuiet ==
    ASSUME FrameInv, EndTaskStart \/ EndTaskDone
    PROVE  Quiet
<1>1. UNCHANGED <<bits, slot, failed, range, desc>>
  BY DEF EndTaskStart, EndTaskDone, localVars, queueVars
<1>2. /\ \A q \in Process \ {EndTask} : pc'[q] = pc[q]
      /\ Main \in Process \ {EndTask} /\ EndTask \in Process
      /\ Batch \subseteq Process \ {EndTask}
      /\ \/ pc[EndTask] = "wait" /\ pc'[EndTask] = "check" /\ ~failed
         \/ pc[EndTask] = "wait" /\ pc'[EndTask] = "cancel" /\ failed
         \/ pc[EndTask] = "end" /\ pc'[EndTask] = "free"
  BY ProcessAssumption
  DEF EndTaskStart, EndTaskDone, Goto, FrameInv, RtsInv, LocalInv, Process
<1> QED
  BY <1>1, <1>2 DEF Quiet, Ending

LEMMA MainQuiet ==
    ASSUME KeepsContract, FrameInv, KeptInv, MainGoesOn
    PROVE  Quiet
<1>1. UNCHANGED <<bits, slot, failed, range, desc>>
  BY DEF MainGoesOn, EndFrame, WaitNextFrame, Deinitialize, Poll, ScanPending,
         ScanComplete, ScanCompleted, PollEnd, BeginFrame, FrameBegun, WaitAll,
         rtsVars, queueVars, localVars
<1>2. CASE EndFrame
  <2>1. pc[Main] = "skipped" /\ pc[EndTask] = "free" /\ bits.required = Idx
    BY <1>2
    DEF KeepsContract, EndFrame, FrameInv, AlternateInv, KeptInv, EndingInv
  <2>2. /\ \A b \in Batch : pc'[b] = pc[b]
        /\ pc'[EndTask] = "wait" /\ pc'[Main] = "idle"
    BY <1>2, ProcessAssumption
    DEF KeepsContract, EndFrame, FrameInv, RtsInv, LocalInv, Process
  <2> QED
    BY <1>1, <2>1, <2>2 DEF Quiet, Ending, Process
<1>3. CASE ~EndFrame
  <2>1. /\ \A q \in Process \ {Main} : pc'[q] = pc[q]
        /\ EndTask \in Process \ {Main} /\ Batch \subseteq Process \ {Main}
        /\ \/ pc'[Main] = pc[Main]
           \/ pc'[Main] \notin {"mark", "skipped"}
    BY <1>3, ProcessAssumption
    DEF MainGoesOn, WaitNextFrame, Deinitialize, Poll, ScanPending,
        ScanComplete, ScanCompleted, PollEnd, BeginFrame, FrameBegun, WaitAll,
        Goto, rtsVars, FrameInv, RtsInv, LocalInv, Process
  <2> QED
    BY <1>1, <2>1 DEF Quiet, Ending
<1> QED
  BY <1>2, <1>3

-----------------------------------------------------------------------------
LEMMA FailsKept ==
    ASSUME FrameInv, KeptInv, NEW b \in Batch, SubmitFails(b)
    PROVE  KeptInv'
<1>1. UNCHANGED <<bits, slot, range, desc>> /\ failed' = TRUE /\ pc[b] = "submit"
  BY DEF SubmitFails, Goto, queueVars
<1>2. /\ \A q \in Process \ {b} : pc'[q] = pc[q]
      /\ Main \in Process \ {b} /\ EndTask \in Process \ {b}
      /\ Batch \subseteq Process /\ b \in Process
      /\ pc'[b] = "done"
  BY ProcessAssumption
  DEF SubmitFails, Goto, FrameInv, RtsInv, LocalInv, Process
<1>3. pc[EndTask] \notin Finishing
  BY <1>1, FinishingAlone
<1>4. PendingInv'
  BY <1>1, <1>2 DEF KeptInv, PendingInv, Early
<1>5. PrefixInv'
  BY <1>1, <1>2 DEF KeptInv, PrefixInv, Whole
<1>6. EndingInv'
  BY <1>1, <1>2, <1>3 DEF KeptInv, EndingInv, Finishing
<1>7. LeftoverInv'
  BY <1>1, <1>2 DEF KeptInv, LeftoverInv, NoneLeft
<1> QED
  BY <1>4, <1>5, <1>6, <1>7 DEF KeptInv

LEMMA SubmitKept ==
    ASSUME FrameInv, KeptInv, NEW b \in Batch, SubmitToQueue(b)
    PROVE  KeptInv'
<1> DEFINE j == desc[b].idx
<1>1. /\ UNCHANGED <<range, desc, failed>> /\ pc[b] = "submit"
      /\ slot' = [slot EXCEPT ![j] = b]
      /\ bits' = [bits EXCEPT !.pending = @ \union {j}]
  BY DEF SubmitToQueue, Goto, localVars
<1>2. /\ \A q \in Process \ {b} : pc'[q] = pc[q]
      /\ Main \in Process \ {b} /\ EndTask \in Process \ {b}
      /\ Batch \subseteq Process /\ b \in Process
      /\ pc'[b] \in {"done", "check"}
  BY ProcessAssumption
  DEF SubmitToQueue, Goto, FrameInv, RtsInv, LocalInv, Process
<1>3. pc[EndTask] \notin Finishing /\ pc[EndTask] # "cancel"
  BY <1>1, FinishingAlone, EndTaskAlone
<1>4. /\ j \in Idx /\ j \in bits.required /\ j \notin bits.pending
      /\ \A c \in Batch : pc[c] \in Early /\ c # b => desc[c].idx # j
  BY <1>1
  DEF FrameInv, RtsInv, LocalInv, EarlyInv, ApartInv, Early, KeptInv, PendingInv
<1>5. /\ bits'.required = bits.required /\ bits'.submitted = bits.submitted
      /\ bits'.pending = bits.pending \union {j}
  BY <1>1 DEF FrameInv, RtsInv, RtsTypeOK
<1>6. \A i \in Idx : i # j => slot'[i] = slot[i]
  BY <1>1 DEF FrameInv, RtsInv, RtsTypeOK
<1>7. PendingInv'
  <2>1. ASSUME ~failed, NEW i \in bits.required \ bits'.pending
        PROVE  \E c \in Batch : pc'[c] \in Early /\ desc[c].idx = i
    <3>1. PICK c \in Batch : pc[c] \in Early /\ desc[c].idx = i
      BY <1>5, <2>1 DEF KeptInv, PendingInv
    <3>2. c # b
      BY <1>5, <2>1, <3>1
    <3> QED
      BY <1>2, <3>1, <3>2
  <2>2. \A c \in Batch : pc'[c] \in Early => c # b /\ pc[c] \in Early
    BY <1>2 DEF Early
  <2> QED
    BY <1>1, <1>4, <1>5, <2>1, <2>2 DEF KeptInv, PendingInv
<1>8. PrefixInv'
  BY <1>1, <1>2, <1>5 DEF KeptInv, PrefixInv, Whole
<1>9. EndingInv'
  BY <1>1, <1>2, <1>3, <1>5 DEF KeptInv, EndingInv, Finishing
<1>10. LeftoverInv'
  <2>1. j \notin bits.submitted
    BY <1>4 DEF KeptInv, PendingInv
  <2> QED
    BY <1>2, <1>3, <1>4, <1>5, <1>6, <2>1 DEF KeptInv, LeftoverInv, Finishing
<1> QED
  BY <1>7, <1>8, <1>9, <1>10 DEF KeptInv

LEMMA CreateKept ==
    ASSUME FrameInv, KeptInv, NEW b \in Batch, NEW i \in Idx, NEW m \in Modes,
           BeginCmdBatch(b, i, m)
    PROVE  KeptInv'
<1>1. /\ UNCHANGED <<range, slot, failed>> /\ i \notin bits.required
      /\ pc[b] = "free" /\ pc[Main] = "record" /\ pc[EndTask] = "free"
  BY DEF BeginCmdBatch, Create, Set, localVars, FrameInv, TaskInv, AlternateInv
<1>2. /\ \A q \in Process \ {b} : pc'[q] = pc[q]
      /\ Main \in Process \ {b} /\ EndTask \in Process \ {b}
      /\ Batch \subseteq Process /\ b \in Process
      /\ pc'[b] = "record"
  BY ProcessAssumption
  DEF BeginCmdBatch, FrameInv, RtsInv, LocalInv, Process
<1>3. /\ bits'.required = bits.required \union {i}
      /\ bits'.submitted = bits.submitted /\ bits'.pending = bits.pending
  BY DEF BeginCmdBatch, FrameInv, RtsInv, RtsTypeOK
<1>4. /\ \A c \in Batch \ {b} : desc'[c] = desc[c]
      /\ desc'[b].idx = i
  BY DEF BeginCmdBatch, FrameInv, RtsInv, LocalInv
<1>5. PendingInv'
  <2>1. \A c \in Batch : pc'[c] \in Early =>
            desc'[c].idx \notin bits.pending
    BY <1>1, <1>2, <1>4 DEF KeptInv, PendingInv
  <2>2. ASSUME ~failed, NEW k \in bits'.required \ bits.pending
        PROVE  \E c \in Batch : pc'[c] \in Early /\ desc'[c].idx = k
    <3>1. CASE k = i
      BY <1>2, <1>4, <3>1 DEF Early
    <3>2. CASE k # i
      <4>1. PICK c \in Batch : pc[c] \in Early /\ desc[c].idx = k
        BY <1>3, <2>2, <3>2 DEF KeptInv, PendingInv
      <4>2. c # b
        BY <1>1, <4>1 DEF Early
      <4> QED
        BY <1>2, <1>4, <4>1, <4>2
    <3> QED
      BY <3>1, <3>2
  <2> QED
    BY <1>1, <1>3, <2>1, <2>2 DEF KeptInv, PendingInv
<1>6. PrefixInv'
  BY <1>1, <1>2, <1>3 DEF KeptInv, PrefixInv, Whole
<1>7. EndingInv' /\ LeftoverInv'
  BY <1>1, <1>2, <1>3
  DEF KeptInv, EndingInv, LeftoverInv, Finishing, NoneLeft
<1> QED
  BY <1>5, <1>6, <1>7 DEF KeptInv

LEMMA SkipKept ==
    ASSUME KeepsContract, FrameInv, KeptInv, SkipCmdBatches
    PROVE  KeptInv'
<1>1. /\ UNCHANGED <<range, slot, failed, desc>>
      /\ pc[Main] = "record" /\ pc[EndTask] = "free"
  BY DEF KeepsContract, SkipCmdBatches, Goto, localVars, FrameInv, AlternateInv
<1>2. /\ \A q \in Process \ {Main} : pc'[q] = pc[q]
      /\ EndTask \in Process \ {Main} /\ Batch \subseteq Process \ {Main}
      /\ pc'[Main] = "skipped"
  BY ProcessAssumption
  DEF KeepsContract, SkipCmdBatches, Goto, FrameInv, RtsInv, LocalInv, Process
<1>3. /\ bits'.required = Idx
      /\ bits'.submitted = bits.submitted
      /\ bits'.pending = bits.pending \union (Idx \ bits.required)
      /\ bits.required \subseteq Idx /\ bits.pending \subseteq Idx
  BY DEF SkipCmdBatches, Skipped, FrameInv, RtsInv, RtsTypeOK
<1>4. PendingInv'
  <2>1. \A b \in Batch : pc[b] \in Early => desc[b].idx \in bits.required
    BY DEF FrameInv, EarlyInv
  <2> QED
    BY <1>1, <1>2, <1>3, <2>1 DEF KeptInv, PendingInv
<1>5. PrefixInv'
  <2>1. \A q \in Process : pc'[q] = "mark" => pc[q] = "mark"
    BY <1>2
  <2> QED
    BY <1>1, <1>3, <2>1 DEF KeptInv, PrefixInv, Whole
<1>6. EndingInv' /\ LeftoverInv'
  BY <1>1, <1>2, <1>3
  DEF KeptInv, EndingInv, LeftoverInv, Finishing, NoneLeft
<1> QED
  BY <1>4, <1>5, <1>6 DEF KeptInv

LEMMA LockKept ==
    ASSUME FrameInv, KeptInv, NEW p \in Batch \union {EndTask},
           FlushLock(p), FlushRange # {}
    PROVE  KeptInv'
<1>1. UNCHANGED <<bits, slot, failed, desc>> /\ pc[p] = "lock"
  BY DEF FlushLock, Goto, frameVars
<1>2. /\ \A q \in Process \ {p} : pc'[q] = pc[q] /\ range'[q] = range[q]
      /\ pc'[p] = "mark" /\ range'[p] = FlushRange
      /\ p \in Process /\ Main \in Process \ {p} /\ Batch \subseteq Process
      /\ EndTask \in Process
  BY ProcessAssumption
  DEF FlushLock, Goto, FrameInv, RtsInv, LocalInv, Process
<1>3. /\ Whole(bits.submitted \union FlushRange)
      /\ FlushRange \subseteq bits.pending
      /\ bits.pending = Idx => bits.submitted \union FlushRange = Idx
  BY RangeIsWhole DEF FrameInv
<1>4. p = EndTask => bits.pending = Idx
  BY <1>1, AllPending DEF Finishing
<1>5. PendingInv'
  BY <1>1, <1>2 DEF KeptInv, PendingInv, Early
<1>6. PrefixInv'
  BY <1>1, <1>2, <1>3 DEF KeptInv, PrefixInv, Whole
<1>7. EndingInv'
  BY <1>1, <1>2, <1>3, <1>4 DEF KeptInv, EndingInv, Finishing
<1>8. LeftoverInv'
  BY <1>1, <1>2 DEF KeptInv, LeftoverInv, NoneLeft
<1> QED
  BY <1>5, <1>6, <1>7, <1>8 DEF KeptInv

\* A forced flush, that of the EndFrameTask, does not fail.
LEMMA MarkExtracts ==
    ASSUME KeepsContract, FrameInv, KeptInv, NEW p \in Batch \union {EndTask},
           pc[p] = "mark"
    PROVE  Extracted(p) = {i \in range[p] : slot[i] # None}
<1>1. CASE p = EndTask
  <2>1. bits.pending = Idx /\ bits.required = Idx
    BY <1>1, AllPending DEF Finishing
  <2>2. bits.submitted \union range[p] = Idx
    BY <1>1 DEF KeptInv, EndingInv
  <2> QED
    BY <2>1, <2>2 DEF Extracted, ForceError
<1>2. CASE p \in Batch /\ p # EndTask
  <2>1. desc[p].mode # "Force"
    BY <1>2 DEF KeepsContract, FrameInv, RtsInv, LocalInv
  <2> QED
    BY <1>2, <2>1 DEF Extracted, ForceError, Forced
<1> QED
  BY <1>1, <1>2

LEMMA MarkKept ==
    ASSUME KeepsContract, FrameInv, KeptInv, NEW p \in Batch \union {EndTask},
           FlushMark(p)
    PROVE  KeptInv'
<1>1. UNCHANGED <<failed, desc>> /\ pc[p] = "mark"
  BY DEF FlushMark, Goto, frameVars
<1>2. /\ \A q \in Process \ {p} : pc'[q] = pc[q]
      /\ pc'[p] \in {"send", "exchange", "done"}
      /\ pc'[p] = "done" => p # EndTask
      /\ p \in Process /\ Main \in Process \ {p} /\ Batch \subseteq Process
      /\ EndTask \in Process
  BY ProcessAssumption
  DEF FlushMark, Goto, Return, FrameInv, RtsInv, LocalInv, Process
<1>3. /\ bits'.required = bits.required /\ bits'.pending = bits.pending
      /\ bits'.submitted = bits.submitted \union range[p]
      /\ range[p] \subseteq Idx
  BY <1>2 DEF FlushMark, FrameInv, RtsInv, RtsTypeOK, LocalInv
<1>4. \A i \in Idx : slot'[i] = IF i \in range[p] THEN None ELSE slot[i]
  BY <1>1, MarkExtracts DEF FlushMark
<1>5. \A q \in Process : pc'[q] # "mark"
  <2>1. \A q \in Process \ {p} : pc[q] \notin {"mark", "send", "notify"}
    BY <1>1, FlushAlone
  <2> QED
    BY <1>2, <2>1
<1>6. Whole(bits.submitted \union range[p]) /\ range[p] \subseteq bits.pending
  BY <1>1, <1>2 DEF KeptInv, PrefixInv
<1>7. PendingInv'
  BY <1>1, <1>2, <1>3, <1>6 DEF KeptInv, PendingInv, Early
<1>8. PrefixInv'
  BY <1>3, <1>5, <1>6 DEF PrefixInv, Whole
<1>9. EndingInv'
  BY <1>1, <1>2, <1>3, <1>5 DEF KeptInv, EndingInv, Finishing
<1>10. LeftoverInv'
  <2>1. CASE p = EndTask
    <3>1. bits.submitted \union range[p] = Idx
      BY <1>1, <2>1 DEF KeptInv, EndingInv
    <3>2. \A i \in Idx : slot[i] # None => i \notin bits.submitted
      BY <1>1, <2>1 DEF KeptInv, LeftoverInv
    <3>3. \A i \in Idx : slot'[i] = None
      BY <1>4, <3>1, <3>2
    <3> QED
      BY <1>2, <2>1, <3>3 DEF LeftoverInv, NoneLeft
  <2>2. CASE p # EndTask
    <3>1. pc'[EndTask] = pc[EndTask] /\ pc[EndTask] \notin Finishing \union {"cancel"}
      BY <1>1, <1>2, <2>2, FinishingAlone, EndTaskAlone
    <3> QED
      BY <1>3, <1>4, <3>1 DEF KeptInv, LeftoverInv, Finishing
  <2> QED
    BY <2>1, <2>2
<1> QED
  BY <1>7, <1>8, <1>9, <1>10 DEF KeptInv

LEMMA ClearKept ==
    ASSUME FrameInv, KeptInv, EndTaskExchange \/ EndTaskReset
    PROVE  KeptInv'
<1>1. /\ pc[EndTask] \in {"exchange", "cancel"}
      /\ bits' = NoBits
      /\ pc[EndTask] = "exchange" => NoneLeft
      /\ UNCHANGED desc
  BY DEF EndTaskExchange, EndTaskReset, Clear, Goto, KeptInv, LeftoverInv
<1>2. /\ \A q \in Process \ {EndTask} : pc'[q] = pc[q]
      /\ pc'[EndTask] \in {"end", "cancel", "free"}
      /\ pc'[EndTask] = "cancel" => pc[EndTask] = "exchange"
      /\ Main \in Process \ {EndTask} /\ Batch \subseteq Process \ {EndTask}
  BY ProcessAssumption
  DEF EndTaskExchange, EndTaskReset, Goto, FrameInv, RtsInv, LocalInv, Process
<1>3. /\ \A b \in Batch : pc[b] \in {"free", "done"}
      /\ pc[Main] \notin {"skipped", "mark"}
      /\ \A b \in Batch : ~Held(b)
  BY <1>1, EndTaskAlone DEF FrameInv, AlternateInv
<1>4. \A i \in Idx : slot'[i] = None
  BY <1>1, <1>3, Cleared DEF EndTaskExchange, EndTaskReset, Goto, NoneLeft
<1>5. \A q \in Process : pc'[q] # "mark"
  BY <1>2, <1>3 DEF Process
<1>6. PendingInv' /\ PrefixInv'
  BY <1>1, <1>2, <1>3, <1>5 DEF PendingInv, PrefixInv, NoBits, Early, Whole
<1>7. EndingInv' /\ LeftoverInv'
  BY <1>2, <1>3, <1>4 DEF EndingInv, LeftoverInv, Finishing, NoneLeft
<1> QED
  BY <1>6, <1>7 DEF KeptInv

LEMMA KeptStep ==
    ASSUME KeepsContract, FrameInv, KeptInv, [Next]_vars
    PROVE  KeptInv'
<1>1. ASSUME NEW p \in Batch \union {EndTask}, FlushQueue(p)
      PROVE  KeptInv'
  BY <1>1, FlushQuiet, QuietKept, LockKept, MarkKept DEF FlushQueue
<1>2. ASSUME NEW b \in Batch, BatchTask(b)
      PROVE  KeptInv'
  BY <1>1, <1>2, RecordQuiet, QuietKept, FailsKept, SubmitKept DEF BatchTask
<1>3. CASE EndFrameTask
  BY <1>1, <1>3, EndTaskQuiet, QuietKept, ClearKept DEF EndFrameTask
<1>4. CASE MainCreates
  BY <1>4, CreateKept, SkipKept DEF MainCreates
<1>5. CASE MainGoesOn
  BY <1>5, MainQuiet, QuietKept
<1>6. CASE Execute \/ UNCHANGED vars
  <2>1. UNCHANGED <<bits, slot, failed, range, desc, pc>>
    BY <1>6 DEF Execute, vars, rtsVars, queueVars, localVars
  <2> QED
    BY <2>1, QuietKept DEF Quiet, Ending
<1> QED
  BY <1>2, <1>3, <1>4, <1>5, <1>6 DEF Next

LEMMA KeptInit == Init => KeptInv
<1> SUFFICES ASSUME Init PROVE KeptInv
  OBVIOUS
<1>1. /\ bits = NoBits /\ failed = FALSE
      /\ \A i \in Idx : slot[i] = None
      /\ \A p \in Process : pc[p] \in {"idle", "free"}
      /\ Main \in Process /\ EndTask \in Process /\ Batch \subseteq Process
  BY DEF Init, Process
<1>2. PendingInv /\ PrefixInv
  BY <1>1 DEF PendingInv, PrefixInv, NoBits, Early, Whole
<1>3. EndingInv /\ LeftoverInv
  BY <1>1 DEF EndingInv, LeftoverInv, Finishing, NoneLeft
<1> QED
  BY <1>2, <1>3 DEF KeptInv

\* Only the end of a frame takes a batch out of the queue without submitting it.
LEMMA OnlyEndDrops ==
    ASSUME FrameInv, [Next]_vars, NEW b \in Batch,
           at[b] = "queued", at'[b] = "user"
    PROVE  EndTaskExchange \/ EndTaskReset
<1> USE DEF FrameInv, BatchTypeOK
<1>1. ASSUME NEW p \in Batch \union {EndTask}, FlushQueue(p)
      PROVE  FALSE
  <2>1. CASE FlushSend(p)
    BY <2>1 DEF FlushSend, QueueSubmit, MoveAll
  <2>2. CASE FlushNotify(p)
    BY <2>2 DEF FlushNotify, OnSubmit, OnSubmitRelease, Move
  <2> QED
    BY <1>1, <2>1, <2>2
    DEF FlushQueue, FlushCheck, FlushTryLockFails, FlushLock, FlushMark,
        FlushUnlock, FlushInsert, batchVars
<1>2. ASSUME NEW c \in Batch, BatchTask(c)
      PROVE  FALSE
  <2>1. CASE Record(c) \/ Recycle(c)
    BY <2>1 DEF Record, EndRecording, Recycle, ReleaseObject
  <2>2. CASE Submit(c) \/ SubmitFails(c) \/ SubmitToQueue(c)
    BY <2>2 DEF Submit, SubmitBegin, SubmitFails, SubmitError, SubmitToQueue,
                Enqueue, Move
  <2> QED
    BY <1>1, <1>2, <2>1, <2>2 DEF BatchTask
<1>3. CASE MainCreates
  BY <1>3 DEF MainCreates, BeginCmdBatch, Create, SkipCmdBatches, batchVars
<1>4. CASE MainGoesOn
  <2>1. CASE \E c \in Batch : ScanComplete(c) \/ ScanCompleted(c)
    BY <2>1
    DEF ScanComplete, ScanCompleted, OnComplete, OnCompleteRelease,
        OnCompleteDone, Move
  <2> QED
    BY <1>4, <2>1
    DEF MainGoesOn, EndFrame, WaitNextFrame, Deinitialize, Poll, ScanPending,
        PollEnd, BeginFrame, FrameBegun, WaitAll, batchVars
<1>5. CASE Execute \/ UNCHANGED vars
  BY <1>5 DEF Execute, GpuSignal, vars, batchVars
<1> QED
  BY <1>1, <1>2, <1>3, <1>4, <1>5
  DEF Next, EndFrameTask, EndTaskStart, EndTaskDone, batchVars

LEMMA DropsFailed ==
    ASSUME FrameInv, KeptInv, [Next]_vars, NEW b \in Batch,
           at[b] = "queued", at'[b] = "user"
    PROVE  failed
<1>1. EndTaskExchange \/ EndTaskReset
  BY OnlyEndDrops
<1>2. pc[EndTask] \in {"exchange", "cancel"}
  BY <1>1 DEF EndTaskExchange, EndTaskReset, Goto
<1>3. ~Held(b)
  BY <1>2, EndTaskAlone
<1>4. desc[b].idx \in Idx /\ slot[desc[b].idx] = b /\ b # None
  BY <1>3, ProcessAssumption
  DEF FrameInv, RtsInv, LocalInv, WhereInv, At, Process
<1> QED
  BY <1>2, <1>4 DEF KeptInv, LeftoverInv, NoneLeft

\* The end of a frame drops no batch that was submitted, unless the frame has
\* failed, if the program skips the rest of each frame before it ends it, as
\* RenderGraph::EndFrame() does, and does not use the mode Force.
THEOREM KeepsBatches == ASSUME KeepsContract PROVE Spec => NothingDropped
<1>1. FrameInv /\ KeptInv /\ [Next]_vars => KeptInv'
  BY KeptStep
<1>2. FrameInv /\ KeptInv /\ [Next]_vars
        => [\A b \in Batch : at[b] = "queued" /\ at'[b] = "user" => failed]_vars
  BY DropsFailed
<1> QED
  BY <1>1, <1>2, KeptInit, FrameInvHolds, PTL DEF Spec, NothingDropped
=============================================================================
