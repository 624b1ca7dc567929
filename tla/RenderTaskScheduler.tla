------------------------- MODULE RenderTaskScheduler -------------------------
(***************************************************************************)
(* How the command batches of a frame reach the GPU, and how a frame ends  *)
(* and begins (graphics/Private/RenderTaskScheduler.cpp.h, Vulkan/         *)
(* VRenderTaskScheduler.cpp with timeline semaphores).                     *)
(*                                                                         *)
(* Main is the thread that calls WaitNextFrame(), BeginFrame(),            *)
(* BeginCmdBatch(), EndFrame() and at last Deinitialize().  Every batch is *)
(* recorded and submitted by a render task of its own, EndTask is the      *)
(* EndFrameTask; they run in other threads.  One step is one access to the *)
(* word of bits of the queue, one critical section, or one step of a batch *)
(* (module CommandBatch).  There is one queue: queues share nothing but    *)
(* the lists of submitted batches.  The tasks that wait for a batch are    *)
(* left to CommandBatch, whose BatchSpec this module implements: they      *)
(* touch nothing that is added here.                                       *)
(***************************************************************************)
EXTENDS CommandBatch, SequencesExt

CONSTANTS
    Main, EndTask,
    Reader,     \* tasks that depend on OnFrameNextCycle (readback)
    IdxCount,   \* MaxPendingCmdBatches: submit indices of a frame
    MaxFrames,  \* frames in flight
    LastFrame,  \* bound: the frames until Deinitialize()
    Modes,      \* bound: the submission modes the program sets
    Skip        \* bound: when the program calls SkipCmdBatches( queue, UMax )

ASSUME FrameAssumption == /\ IdxCount \in Nat \ {0}
                          /\ MaxFrames \in Nat \ {0, 1}
                          /\ LastFrame \in Nat

ASSUME ModeAssumption == /\ Modes \subseteq {"Deferred", "Immediately", "Force"}
                         /\ Skip \in {"never", "before EndFrame",
                                      "after EndFrame"}

Process == Batch \union {Main, EndTask}

ASSUME ProcessAssumption == /\ Main # EndTask
                            /\ Main \notin Batch
                            /\ EndTask \notin Batch
                            /\ None \notin Process

ASSUME ReadAssumption ==
    None \notin [batch : Batch, life : Nat, done : BOOLEAN]

Idx == 0..(IdxCount - 1)

FrameIdx == 0..(MaxFrames - 1)

VARIABLES
    rtsStatus,  \* _status
    frameId,    \* _frameId, the counter of the FrameUID
    bits,       \* QueueData::bits
    slot,       \* QueueData::pending
    queueGuard, \* who holds the mutex of the queue
    submitted,  \* FrameData::submitted
    frameGuard, \* who holds FrameData::guard
    onGpu,      \* what the GPU has been given, in order
    nextCycle,  \* FrameNextCycleDepsManager::_frames
    desc,       \* of a batch: _frameId, _submitIdx and _submitMode
    pc,         \* where a process is
    range,      \* local in _FlushQueue(): the submit indices of the range
    taken,      \* local in _FlushQueue(): pending
    todo,       \* local in _IsFrameCompleted(): the batches still to look at
    polled,     \* local of Main: the frame it waits for
    failed,     \* a render task of this frame has failed
    reads       \* history: the batch and life a reader reads back from

frameVars == <<rtsStatus, frameId, submitted, frameGuard, nextCycle>>
queueVars == <<bits, slot, queueGuard>>
localVars == <<range, taken, todo, polled, failed>>

rtsVars == <<rtsStatus, frameId, bits, slot, queueGuard, submitted,
             frameGuard, onGpu, nextCycle, desc, pc, range, taken, todo,
             polled, failed, reads>>

vars == <<batchVars, rtsVars>>

NoBits == [required |-> {}, pending |-> {}, submitted |-> {}]

NoDesc == [frame |-> 0, idx |-> 0, mode |-> "Immediately"]

\* FrameUID::Index()
FrameIndex(f) == f % MaxFrames

Init ==
    /\ BatchInit
    /\ rtsStatus = "Idle"
    /\ frameId = 0
    /\ bits = NoBits
    /\ slot = [i \in Idx |-> None]
    /\ queueGuard = None
    /\ submitted = [x \in FrameIdx |-> {}]
    /\ frameGuard = [x \in FrameIdx |-> None]
    /\ onGpu = <<>>
    /\ nextCycle = [x \in FrameIdx |-> {}]
    /\ desc = [b \in Batch |-> NoDesc]
    /\ pc = [p \in Process |-> IF p = Main THEN "idle" ELSE "free"]
    /\ range = [p \in Process |-> {}]
    /\ taken = [p \in Process |-> <<>>]
    /\ todo = {}
    /\ polled = 0
    /\ failed = FALSE
    /\ reads = [r \in Reader |-> None]

Goto(p, from, to) ==
    /\ pc[p] = from
    /\ pc' = [pc EXCEPT ![p] = to]

\* _FlushQueue() returns.
Return(p) == IF p = EndTask THEN "exchange" ELSE "done"

FrameOf(p) == IF p = EndTask THEN frameId ELSE desc[p].frame
-----------------------------------------------------------------------------
(* A batch is created, recorded and submitted. *)

\* BeginCmdBatch(): not for a submit index that somebody has, or skips.
BeginCmdBatch(b, i, m) ==
    /\ pc[Main] = "record"
    /\ i \notin bits.required
    /\ Create(b)
    /\ bits' = [bits EXCEPT !.required = @ \union {i}]
    /\ desc' = [desc EXCEPT ![b] = [frame |-> frameId, idx |-> i, mode |-> m]]
    /\ pc' = [pc EXCEPT ![b] = "record"]
    /\ UNCHANGED <<slot, queueGuard, onGpu, reads, frameVars, localVars>>

\* A render task records b and may run tasks for the readback of it.
Record(b) ==
    /\ Goto(b, "record", "recorded")
    /\ EndRecording(b)
    /\ \E R \in SUBSET {r \in Reader : reads[r] = None} :
        /\ reads' = [r \in Reader |->
                IF r \in R THEN [batch |-> b, life |-> life[b], done |-> FALSE]
                ELSE reads[r]]
        /\ nextCycle' = [nextCycle EXCEPT
                            ![FrameIndex(desc[b].frame)] = @ \union R]
    /\ UNCHANGED <<rtsStatus, frameId, submitted, frameGuard, desc, onGpu,
                   queueVars, localVars>>

Submit(b) ==
    /\ Goto(b, "recorded", "submit")
    /\ SubmitBegin(b)
    /\ UNCHANGED <<desc, onGpu, reads, frameVars, queueVars, localVars>>

\* The render task calls OnFailure(): who depends on it is canceled.
SubmitFails(b) ==
    /\ Goto(b, "submit", "done")
    /\ SubmitError(b)
    /\ failed' = TRUE
    /\ UNCHANGED <<desc, onGpu, reads, range, taken, todo, polled, frameVars,
                   queueVars>>

SubmitToQueue_Bug(b) ==
    /\ Goto(b, "submit", IF desc[b].mode = "Deferred" THEN "done" ELSE "check")
    /\ Enqueue(b)
    /\ slot' = [slot EXCEPT ![desc[b].idx] = b]
    /\ bits' = [bits EXCEPT !.pending = @ \union {desc[b].idx + 1}]
    /\ UNCHANGED <<queueGuard, desc, onGpu, reads, frameVars, localVars>>

\* CommandBatchApi::Submit() until the call of _FlushQueue().
SubmitToQueue(b) ==
    /\ Goto(b, "submit", IF desc[b].mode = "Deferred" THEN "done" ELSE "check")
    /\ Enqueue(b)
    /\ slot' = [slot EXCEPT ![desc[b].idx] = b]
    /\ bits' = [bits EXCEPT !.pending = @ \union {desc[b].idx}]
    /\ UNCHANGED <<queueGuard, desc, onGpu, reads, frameVars, localVars>>

\* The last reference to the batch is gone.
Recycle(b) ==
    /\ Goto(b, "done", "free")
    /\ ReleaseObject(b)
    /\ desc' = [desc EXCEPT ![b] = NoDesc]
    /\ UNCHANGED <<onGpu, reads, frameVars, queueVars, localVars>>

\* The GPU executes what it is given in that order.
Execute ==
    /\ onGpu # <<>>
    /\ GpuSignal(Head(onGpu))
    /\ onGpu' = Tail(onGpu)
    /\ UNCHANGED <<desc, pc, reads, frameVars, queueVars, localVars>>
-----------------------------------------------------------------------------
(* _FlushQueue() *)

\* GetRange(): behind the last submitted batch, up to the first that is not
\* pending.
FlushRange == {i \in Idx : /\ \A k \in bits.submitted : k < i
                           /\ \A k \in 0..i : k \in bits.pending}

\* Early exit before the lock.
FlushCheck(p) ==
    /\ Goto(p, "check", IF FlushRange = {} THEN Return(p) ELSE "lock")
    /\ UNCHANGED <<batchVars, desc, onGpu, reads, frameVars, queueVars,
                   localVars>>

Forced(p) == p # EndTask => desc[p].mode = "Force"

FlushTryLockFails(p) ==
    /\ ~Forced(p)
    /\ Goto(p, "lock", Return(p))
    /\ queueGuard # None
    /\ UNCHANGED <<batchVars, desc, onGpu, reads, frameVars, queueVars,
                   localVars>>

\* "batches may be submitted when waiting for the mutex": the range is taken
\* again under the lock.
FlushLock_Bug(p) ==
    /\ Goto(p, "lock", IF FlushRange = {} THEN Return(p) ELSE "mark")
    /\ queueGuard' = IF FlushRange = {} THEN None ELSE p
    /\ range' = [range EXCEPT ![p] = FlushRange]
    /\ UNCHANGED <<batchVars, desc, onGpu, reads, bits, slot, taken, todo,
                   polled, failed, frameVars>>

FlushLock(p) ==
    /\ queueGuard = None
    /\ Goto(p, "lock", IF FlushRange = {} THEN Return(p) ELSE "mark")
    /\ queueGuard' = IF FlushRange = {} THEN None ELSE p
    /\ range' = [range EXCEPT ![p] = FlushRange]
    /\ UNCHANGED <<batchVars, desc, onGpu, reads, bits, slot, taken, todo,
                   polled, failed, frameVars>>

\* What CHECK_ERR asks of a forced flush, of the bits before the change.
ForceError(p) ==
    /\ Forced(p)
    /\ \/ bits.required # bits.pending
       \/ bits.required # bits.submitted \union range[p]

\* The indices in S in their order.
InOrder(S) == {s \in [1..Cardinality(S) -> S] :
                  \A m, n \in DOMAIN s : m < n => s[m] < s[n]}

\* The indices of the range that are not skipped.
Extracted(p) ==
    IF ForceError(p) THEN {} ELSE {i \in range[p] : slot[i] # None}

\* The bits change first; then the flush fails, or takes the batches out.
FlushMark(p) ==
    /\ Goto(p, "mark", IF Extracted(p) = {} THEN Return(p) ELSE "send")
    /\ bits' = [bits EXCEPT !.submitted = @ \union range[p]]
    /\ slot' = [i \in Idx |-> IF i \in Extracted(p) THEN None ELSE slot[i]]
    /\ \E s \in InOrder(Extracted(p)) :
          taken' = [taken EXCEPT ![p] = [n \in DOMAIN s |-> slot[s[n]]]]
    /\ range' = [range EXCEPT ![p] = {}]
    /\ queueGuard' = IF Extracted(p) = {} THEN None ELSE p
    /\ UNCHANGED <<batchVars, desc, onGpu, reads, todo, polled, failed,
                   frameVars>>

\* _FlushQueue_Timeline(): one vkQueueSubmit2() ...
FlushSend(p) ==
    /\ Goto(p, "send", "notify")
    /\ QueueSubmit(ToSet(taken[p]))
    /\ onGpu' = onGpu \o taken[p]
    /\ UNCHANGED <<desc, reads, frameVars, queueVars, localVars>>

\* ... and _OnSubmit() of one batch after the other.
FlushNotify(p) ==
    /\ pc[p] = "notify"
    /\ \E n \in DOMAIN taken[p] :
        /\ \A k \in 1..(n - 1) : at[taken[p][k]] = "tracked"
        /\ OnSubmit(taken[p][n]) \/ OnSubmitRelease(taken[p][n])
    /\ UNCHANGED rtsVars

FlushUnlock_Bug(p) ==
    /\ Goto(p, "notify", Return(p))
    /\ \A b \in ToSet(taken[p]) : at[b] = "tracked"
    /\ queueGuard' = None
    /\ UNCHANGED <<batchVars, desc, onGpu, reads, bits, slot, frameVars,
                   localVars>>

FlushUnlock(p) ==
    /\ Goto(p, "notify", "insert")
    /\ \A b \in ToSet(taken[p]) : at[b] = "tracked"
    /\ queueGuard' = None
    /\ UNCHANGED <<batchVars, desc, onGpu, reads, bits, slot, frameVars,
                   localVars>>

\* All that were flushed belong to the frame of the one who flushed them.
FlushInsert(p) ==
    LET x == FrameIndex(FrameOf(p)) IN
    /\ Goto(p, "insert", Return(p))
    /\ frameGuard[x] = None
    /\ submitted' = [submitted EXCEPT ![x] = @ \union ToSet(taken[p])]
    /\ taken' = [taken EXCEPT ![p] = <<>>]
    /\ UNCHANGED <<batchVars, desc, onGpu, reads, rtsStatus, frameId,
                   frameGuard, nextCycle, range, todo, polled, failed,
                   queueVars>>

FlushQueue(p) ==
    \/ FlushCheck(p)
    \/ FlushTryLockFails(p)
    \/ FlushLock(p)
    \/ FlushMark(p)
    \/ FlushSend(p)
    \/ FlushNotify(p)
    \/ FlushUnlock(p)
    \/ FlushInsert(p)
-----------------------------------------------------------------------------
(* The end of a frame. *)

\* The bits after SkipCmdBatches( queue, UMax ).
Skipped == [bits EXCEPT !.required = Idx,
                        !.pending  = @ \union (Idx \ bits.required)]

\* EndFrame( deps ) runs the task; the next frame depends on it.
\* RenderGraph::EndFrame() does so before it skips.
EndFrame ==
    /\ pc[Main] = IF Skip = "before EndFrame" THEN "skipped" ELSE "record"
    /\ pc' = [pc EXCEPT ![EndTask] = "wait",
                        ![Main] = IF Skip = "after EndFrame" THEN "skip"
                                  ELSE "idle"]
    /\ UNCHANGED <<batchVars, desc, onGpu, reads, frameVars, queueVars,
                   localVars>>

\* SkipCmdBatches( queue, UMax ): the frame has no more batches.
SkipCmdBatches ==
    /\ IF Skip = "before EndFrame" THEN Goto(Main, "record", "skipped")
                                   ELSE Goto(Main, "skip", "idle")
    /\ bits' = Skipped
    /\ UNCHANGED <<batchVars, desc, onGpu, reads, slot, queueGuard, frameVars,
                   localVars>>

\* Strong dependencies on the render tasks that submit.
EndTaskStart_Bug ==
    /\ Goto(EndTask, "wait", IF failed THEN "cancel" ELSE "check")
    /\ UNCHANGED <<batchVars, desc, onGpu, reads, frameVars, queueVars,
                   localVars>>

EndTaskStart ==
    /\ Goto(EndTask, "wait", IF failed THEN "cancel" ELSE "check")
    /\ \A b \in Batch : pc[b] \in {"done", "free"}
    /\ UNCHANGED <<batchVars, desc, onGpu, reads, frameVars, queueVars,
                   localVars>>

Clear_Bug ==
    /\ Drop({slot[i] : i \in Idx} \ {None})
    /\ slot' = [i \in Idx |-> None]
    /\ UNCHANGED bits

\* bits = 0 and pending.fill( Default )
Clear ==
    /\ bits' = NoBits
    /\ Drop({slot[i] : i \in Idx} \ {None})
    /\ slot' = [i \in Idx |-> None]

AllSubmitted == /\ bits.pending = bits.required
                /\ bits.pending = bits.submitted

\* _RunImpl() after the flush.
EndTaskExchange ==
    /\ Goto(EndTask, "exchange", IF AllSubmitted THEN "end" ELSE "cancel")
    /\ IF AllSubmitted
       THEN Clear
       ELSE bits' = NoBits /\ UNCHANGED <<batchVars, slot>>
    /\ UNCHANGED <<desc, onGpu, reads, queueGuard, frameVars, localVars>>

EndTaskDone ==
    /\ Goto(EndTask, "end", "free")
    /\ rtsStatus = "RecordFrame"
    /\ rtsStatus' = "Idle"
    /\ UNCHANGED <<batchVars, desc, onGpu, reads, frameId, submitted,
                   frameGuard, nextCycle, queueVars, localVars>>

EndTaskReset_Bug ==
    /\ Goto(EndTask, "cancel", "free")
    /\ Clear
    /\ failed' = FALSE
    /\ UNCHANGED <<desc, onGpu, reads, queueGuard, range, taken, todo, polled,
                   frameVars>>

\* _ResetStates(), in OnCancel() or when _RunImpl() fails.
EndTaskReset ==
    /\ Goto(EndTask, "cancel", "free")
    /\ Clear
    /\ rtsStatus' = "Idle"
    /\ failed' = FALSE
    /\ UNCHANGED <<desc, onGpu, reads, frameId, submitted, frameGuard,
                   nextCycle, queueGuard, range, taken, todo, polled>>
-----------------------------------------------------------------------------
(* The next frame. *)

\* WaitNextFrame() waits for the EndFrameTask; then Main looks at the frame
\* that had the same index.  Deinitialize() does so for every index.
WaitNextFrame ==
    /\ frameId < LastFrame
    /\ Goto(Main, "idle", "poll")
    /\ pc[EndTask] = "free"
    /\ polled' = frameId + 1
    /\ UNCHANGED <<batchVars, desc, onGpu, reads, range, taken, todo, failed,
                   frameVars, queueVars>>

Deinitialize ==
    /\ frameId = LastFrame
    /\ Goto(Main, "idle", "poll")
    /\ rtsStatus = "Idle"
    /\ rtsStatus' = "Destroyed"
    /\ pc[EndTask] = "free"
    /\ polled' = frameId
    /\ UNCHANGED <<batchVars, desc, onGpu, reads, frameId, submitted,
                   frameGuard, nextCycle, range, taken, todo, failed,
                   queueVars>>

\* _IsFrameComplete_Timeline(), under the lock of the frame.
Poll ==
    LET x == FrameIndex(polled) IN
    /\ Goto(Main, "poll", "scan")
    /\ frameGuard[x] = None
    /\ frameGuard' = [frameGuard EXCEPT ![x] = Main]
    /\ todo' = submitted[x]
    /\ UNCHANGED <<batchVars, desc, onGpu, reads, rtsStatus, frameId,
                   submitted, nextCycle, range, taken, polled, failed,
                   queueVars>>

ScanPending(b) ==
    /\ pc[Main] = "scan"
    /\ b \in todo
    /\ at[b] = "tracked"
    /\ ~OnCompleteGuard(b)
    /\ todo' = todo \ {b}
    /\ UNCHANGED <<batchVars, desc, onGpu, reads, pc, range, taken, polled,
                   failed, frameVars, queueVars>>

\* _OnComplete() of one batch at a time.
ScanComplete(b) ==
    /\ pc[Main] = "scan"
    /\ b \in todo
    /\ \A c \in todo : at[c] \in {"onComplete", "completing"} => c = b
    /\ OnComplete(b) \/ OnCompleteRelease(b)
    /\ UNCHANGED rtsVars

ScanCompleted(b) ==
    /\ pc[Main] = "scan"
    /\ b \in todo
    /\ OnCompleteDone(b)
    /\ todo' = todo \ {b}
    /\ submitted' = [submitted EXCEPT ![FrameIndex(polled)] = @ \ {b}]
    /\ UNCHANGED <<desc, onGpu, reads, pc, rtsStatus, frameId, frameGuard,
                   nextCycle, range, taken, polled, failed, queueVars>>

\* If a batch is not complete, Main looks again, or gives up and is called
\* again.
PollEnd ==
    LET x == FrameIndex(polled) IN
    /\ Goto(Main, "scan", IF submitted[x] # {} THEN "poll"
                          ELSE IF frameId < LastFrame THEN "begin"
                          ELSE "release")
    /\ todo = {}
    /\ frameGuard' = [frameGuard EXCEPT ![x] = None]
    /\ UNCHANGED <<batchVars, desc, onGpu, reads, rtsStatus, frameId,
                   submitted, nextCycle, localVars, queueVars>>

\* BeginFrame() until the frame has its number.
BeginFrame ==
    /\ Goto(Main, "begin", "release")
    /\ rtsStatus = "Idle"
    /\ rtsStatus' = "BeginFrame"
    /\ frameId' = frameId + 1
    /\ UNCHANGED <<batchVars, desc, onGpu, reads, submitted, frameGuard,
                   nextCycle, queueVars, localVars>>

\* FrameNextCycleDepsManager::OnNextFrame(), the whole list of the index.
OnNextFrame(x) ==
    /\ nextCycle' = [nextCycle EXCEPT ![x] = {}]
    /\ reads' = [r \in Reader |->
                    IF r \in nextCycle[x] THEN [reads[r] EXCEPT !.done = TRUE]
                    ELSE reads[r]]

FrameBegun ==
    /\ rtsStatus = "BeginFrame"
    /\ Goto(Main, "release", "record")
    /\ OnNextFrame(FrameIndex(frameId))
    /\ rtsStatus' = "RecordFrame"
    /\ UNCHANGED <<batchVars, desc, onGpu, frameId, submitted, frameGuard,
                   queueVars, localVars>>

\* One pass of the loop of _WaitAll(); nothing is pending any more.
WaitAll ==
    /\ rtsStatus = "Destroyed"
    /\ Goto(Main, "release", IF polled + 1 < LastFrame + MaxFrames THEN "poll"
                             ELSE "end")
    /\ OnNextFrame(FrameIndex(polled))
    /\ polled' = polled + 1
    /\ UNCHANGED <<batchVars, desc, onGpu, rtsStatus, frameId, submitted,
                   frameGuard, range, taken, todo, failed, queueVars>>
-----------------------------------------------------------------------------
BatchTask(b) ==
    \/ Record(b)
    \/ Submit(b)
    \/ SubmitFails(b)
    \/ SubmitToQueue(b)
    \/ FlushQueue(b)
    \/ Recycle(b)

EndFrameTask ==
    \/ EndTaskStart
    \/ FlushQueue(EndTask)
    \/ EndTaskExchange
    \/ EndTaskDone
    \/ EndTaskReset

MainCreates ==
    \/ \E b \in Batch, i \in Idx, m \in Modes : BeginCmdBatch(b, i, m)
    \/ SkipCmdBatches

MainGoesOn ==
    \/ EndFrame
    \/ WaitNextFrame
    \/ Deinitialize
    \/ Poll
    \/ \E b \in Batch : ScanPending(b) \/ ScanComplete(b) \/ ScanCompleted(b)
    \/ PollEnd
    \/ BeginFrame
    \/ FrameBegun
    \/ WaitAll

Next == \/ \E b \in Batch : BatchTask(b)
        \/ EndFrameTask
        \/ MainCreates
        \/ MainGoesOn
        \/ Execute

Spec == Init /\ [][Next]_vars

\* Render tasks run until they are done, the application calls the scheduler
\* again and again and keeps the contract that skipping is part of the frame,
\* the GPU works; nobody has to create, to wait or to drop a batch.
Fairness == /\ \A b \in Batch : WF_vars(BatchTask(b))
            /\ WF_vars(EndFrameTask)
            /\ WF_vars(MainGoesOn)
            /\ WF_vars(SkipCmdBatches)
            /\ WF_vars(Execute)

FairSpec == Spec /\ Fairness
-----------------------------------------------------------------------------
RtsTypeOK ==
    /\ rtsStatus \in {"Idle", "BeginFrame", "RecordFrame", "Destroyed"}
    /\ frameId \in 0..LastFrame
    /\ bits \in [required : SUBSET Idx, pending : SUBSET Idx,
                 submitted : SUBSET Idx]
    /\ slot \in [Idx -> Batch \union {None}]
    /\ queueGuard \in Process \union {None}
    /\ submitted \in [FrameIdx -> SUBSET Batch]
    /\ frameGuard \in [FrameIdx -> {None, Main}]
    /\ nextCycle \in [FrameIdx -> SUBSET Reader]

\* Two threads that flush the queue at the same time keep the order of the
\* submit indices: what the GPU is given of one frame is in that order.
OrderOnGpu ==
    \A m, n \in DOMAIN onGpu :
        m < n /\ desc[onGpu[m]].frame = desc[onGpu[n]].frame =>
            desc[onGpu[m]].idx < desc[onGpu[n]].idx

\* A readback task goes on after the GPU has executed the batch it reads
\* from, or when that batch has failed: the index of the frame comes round
\* only when all that was submitted in the frame is complete.
ReadBackAfterGpu ==
    \A r \in Reader :
        reads[r] # None /\ reads[r].done =>
            LET b == reads[r].batch IN
            \/ reads[r].life \in executed[b] \union abandoned[b]
            \/ status[b] = "Pending" /\ at[b] = "user"

\* The memory of a frame is used again only when no batch of the frame that
\* had the same index is in the hands of the scheduler or the GPU.
FrameMemoryIsFree ==
    \A b \in Batch :
        rtsStatus = "BeginFrame" /\ desc[b].frame + MaxFrames <= frameId =>
            at[b] = "user"

\* The end of a frame drops no batch that was submitted, unless the frame
\* has failed.  CommandBufferTypes.h says of the mode Force: "Block until
\* batch is not submitted".
NothingDropped ==
    [][\A b \in Batch : at[b] = "queued" /\ at'[b] = "user" =>
           failed]_vars

\* BeginCmdBatch() refuses an index with "batch with 'submitIdx' is already
\* created": a frame begins with all indices free, however the last one has
\* ended and whatever was skipped in it.
IndexIsFree == rtsStatus = "BeginFrame" => bits.required = {}

\* What was given to the scheduler is completed, or dropped with its frame.
EveryBatchCompletes ==
    \A b \in Batch : at[b] = "queued" ~> at[b] = "user"

\* The application gets to its end: no frame waits for ever.
ReachesEnd == <>(pc[Main] = "end")
=============================================================================
