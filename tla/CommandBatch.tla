---------------------------- MODULE CommandBatch ----------------------------
(***************************************************************************)
(* The life of a command batch (graphics/Private/CommandBatch.{h,cpp.h},   *)
(* Vulkan/Commands/VCommandBatch.cpp with timeline semaphores), from       *)
(* _Create() to _ReleaseObject() and on to its next life: the objects      *)
(* belong to a pool and keep their semaphore.  Tasks wait for a batch to   *)
(* be submitted (CmdBatchOnSubmit) or to be complete (RC<CommandBatch>).   *)
(*                                                                         *)
(* The render task scheduler is the caller here: a batch passes through    *)
(* its hands in one direction only, and `at' says how far it is.  Module   *)
(* RenderTaskScheduler has the scheduler itself and implements BatchSpec.  *)
(*                                                                         *)
(* The recording of command buffers is left out (module CmdBufferPool); an *)
(* error of _Submit(), when a command buffer is missing or the indirect    *)
(* ones cannot be committed, may happen in the batches of MayFail.         *)
(***************************************************************************)
EXTENDS Integers

CONSTANTS
    Batch,      \* the objects of _batchPool
    Task,       \* tasks that wait for a batch, one dependency each
    None,
    MayFail,    \* bound: the batches whose _Submit() may fail
    MaxLives    \* bound: how often an object of the pool is used

ASSUME BatchAssumption == /\ MayFail \subseteq Batch
                          /\ MaxLives \in Nat

Status == {"Destroyed", "Initial", "Recorded", "Pending", "Submitted",
           "Completed"}

\* Where the scheduler has the batch: not at all, in _Submit() behind the
\* change to Pending, in QueueData::pending, given to vkQueueSubmit2, in
\* _OnSubmit2() behind the change to Submitted, in FrameData::submitted, in
\* _OnComplete() before and after its dependencies are released.
Place == {"user", "submit", "queued", "sent", "onSubmit", "tracked",
          "onComplete", "completing"}

Event == {"submit", "complete"}

VARIABLES
    status,         \* _status
    at,             \* where the scheduler has the batch
    tlSemaphoreVal, \* _tlSemaphoreVal: what this life of the batch signals
    gpuSignal,      \* the signal operation the GPU still has to do, or 0
    gpuCounter,     \* the value of _tlSemaphore
    onSubmitDeps,   \* _onSubmitDeps
    onCompleteDeps, \* _onCompleteDeps
    waits,          \* history: what a task has registered on
    released,       \* the tasks whose wait bit is cleared
    life,           \* history: how often the object was created
    sent, executed, \* history: the lives given to, and done by, the GPU
    abandoned,      \* history: the lives that ended before Completed
    late            \* history: added behind the release of _onCompleteDeps

batchVars == <<status, at, tlSemaphoreVal, gpuSignal, gpuCounter,
               onSubmitDeps, onCompleteDeps, waits, released, life, sent,
               executed, abandoned, late>>

gpuVars == <<gpuSignal, gpuCounter, sent, executed>>
taskVars == <<onSubmitDeps, onCompleteDeps, waits, released, late>>
lifeVars == <<life, abandoned>>

Waiting == [batch : Batch, event : Event, life : Nat]

ASSUME NoneAssumption == None \notin Waiting

BatchTypeOK ==
    /\ status \in [Batch -> Status]
    /\ at \in [Batch -> Place]
    /\ tlSemaphoreVal \in [Batch -> Nat]
    /\ gpuSignal \in [Batch -> Nat]
    /\ gpuCounter \in [Batch -> Nat]
    /\ onSubmitDeps \in [Batch -> SUBSET Task]
    /\ onCompleteDeps \in [Batch -> SUBSET Task]
    /\ waits \in [Task -> Waiting \union {None}]
    /\ released \in SUBSET Task
    /\ life \in [Batch -> Nat]
    /\ sent \in [Batch -> SUBSET Nat]
    /\ executed \in [Batch -> SUBSET Nat]
    /\ abandoned \in [Batch -> SUBSET Nat]
    /\ late \in SUBSET Task

\* The constructor creates the semaphore with 0 and increments the value.
BatchInit ==
    /\ status = [b \in Batch |-> "Destroyed"]
    /\ at = [b \in Batch |-> "user"]
    /\ tlSemaphoreVal = [b \in Batch |-> 1]
    /\ gpuSignal = [b \in Batch |-> 0]
    /\ gpuCounter = [b \in Batch |-> 0]
    /\ onSubmitDeps = [b \in Batch |-> {}]
    /\ onCompleteDeps = [b \in Batch |-> {}]
    /\ waits = [t \in Task |-> None]
    /\ released = {}
    /\ life = [b \in Batch |-> 0]
    /\ sent = [b \in Batch |-> {}]
    /\ executed = [b \in Batch |-> {}]
    /\ abandoned = [b \in Batch |-> {}]
    /\ late = {}
-----------------------------------------------------------------------------
\* AtomicState::Set( from, to ): a compare-and-swap.
Set(b, from, to) ==
    /\ status[b] = from
    /\ status' = [status EXCEPT ![b] = to]

Move(b, from, to) ==
    /\ at[b] = from
    /\ at' = [at EXCEPT ![b] = to]

MoveAll(B, from, to) ==
    /\ \A b \in B : at[b] = from
    /\ at' = [b \in Batch |-> IF b \in B THEN to ELSE at[b]]

\* _Create(), of an object that the pool has assigned.
Create(b) ==
    /\ life[b] < MaxLives
    /\ Set(b, "Destroyed", "Initial")
    /\ life' = [life EXCEPT ![b] = @ + 1]
    /\ UNCHANGED <<at, tlSemaphoreVal, abandoned, gpuVars, taskVars>>

\* _EndRecording()
EndRecording(b) ==
    /\ Set(b, "Initial", "Recorded")
    /\ UNCHANGED <<at, tlSemaphoreVal, gpuVars, taskVars, lifeVars>>

\* _Submit() begins: only one caller changes the status.
SubmitBegin(b) ==
    /\ Set(b, "Recorded", "Pending")
    /\ Move(b, "user", "submit")
    /\ UNCHANGED <<tlSemaphoreVal, gpuVars, taskVars, lifeVars>>

\* _Submit() returns false: the status stays Pending.
SubmitError(b) ==
    /\ b \in MayFail
    /\ Move(b, "submit", "user")
    /\ UNCHANGED <<status, tlSemaphoreVal, gpuVars, taskVars, lifeVars>>

\* CommandBatchApi::Submit() puts the batch into the pending array.
Enqueue(b) ==
    /\ Move(b, "submit", "queued")
    /\ UNCHANGED <<status, tlSemaphoreVal, gpuVars, taskVars, lifeVars>>

\* The scheduler forgets the batches it has not submitted (EndFrameTask).
Drop(B) ==
    /\ MoveAll(B, "queued", "user")
    /\ UNCHANGED <<status, tlSemaphoreVal, gpuVars, taskVars, lifeVars>>

\* One vkQueueSubmit2() for all, with the signal operations that
\* _GetSignalSemaphores() returns.
QueueSubmit(B) ==
    /\ MoveAll(B, "queued", "sent")
    /\ gpuSignal' = [b \in Batch |->
                        IF b \in B THEN tlSemaphoreVal[b] ELSE gpuSignal[b]]
    /\ sent' = [b \in Batch |->
                        IF b \in B THEN sent[b] \union {life[b]} ELSE sent[b]]
    /\ UNCHANGED <<status, tlSemaphoreVal, gpuCounter, executed, taskVars,
                   lifeVars>>

\* The GPU has executed the batch and signals its semaphore.
GpuSignal(b) ==
    /\ gpuSignal[b] > 0
    /\ gpuCounter' = [gpuCounter EXCEPT ![b] = gpuSignal[b]]
    /\ gpuSignal' = [gpuSignal EXCEPT ![b] = 0]
    /\ executed' = [executed EXCEPT ![b] = @ \union {life[b]}]
    /\ UNCHANGED <<status, at, tlSemaphoreVal, sent, taskVars, lifeVars>>

\* _OnSubmit2() changes the status first ...
OnSubmit(b) ==
    /\ Set(b, "Pending", "Submitted")
    /\ Move(b, "sent", "onSubmit")
    /\ UNCHANGED <<tlSemaphoreVal, gpuVars, taskVars, lifeVars>>

\* ... and releases the tasks under _onSubmitDepsGuard.
OnSubmitRelease(b) ==
    /\ Move(b, "onSubmit", "tracked")
    /\ released' = released \union onSubmitDeps[b]
    /\ onSubmitDeps' = [onSubmitDeps EXCEPT ![b] = {}]
    /\ UNCHANGED <<status, tlSemaphoreVal, onCompleteDeps, waits, late,
                   gpuVars, lifeVars>>

\* _IsFrameComplete_Timeline() compares the value of the semaphore.
OnCompleteGuard_Bug(b) == gpuCounter[b] >= tlSemaphoreVal[b] - 1

OnCompleteGuard(b) == gpuCounter[b] >= tlSemaphoreVal[b]

OnComplete_Bug(b) ==
    /\ OnCompleteGuard(b)
    /\ Move(b, "tracked", "onComplete")
    /\ UNCHANGED <<status, tlSemaphoreVal, gpuVars, taskVars, lifeVars>>

\* _OnComplete() takes the next value first, ...
OnComplete(b) ==
    /\ OnCompleteGuard(b)
    /\ Move(b, "tracked", "onComplete")
    /\ tlSemaphoreVal' = [tlSemaphoreVal EXCEPT ![b] = @ + 1]
    /\ UNCHANGED <<status, gpuVars, taskVars, lifeVars>>

OnCompleteRelease_Bug(b) ==
    /\ Move(b, "onComplete", "completing")
    /\ released' = released \union onCompleteDeps[b]
    /\ UNCHANGED <<status, tlSemaphoreVal, onSubmitDeps, onCompleteDeps, waits,
                   late, gpuVars, lifeVars>>

\* ... releases the tasks under _onCompleteDepsGuard ...
OnCompleteRelease(b) ==
    /\ Move(b, "onComplete", "completing")
    /\ released' = released \union onCompleteDeps[b]
    /\ onCompleteDeps' = [onCompleteDeps EXCEPT ![b] = {}]
    /\ UNCHANGED <<status, tlSemaphoreVal, onSubmitDeps, waits, late,
                   gpuVars, lifeVars>>

\* ... and changes the status last.
OnCompleteDone(b) ==
    /\ Set(b, "Submitted", "Completed")
    /\ Move(b, "completing", "user")
    /\ UNCHANGED <<tlSemaphoreVal, gpuVars, taskVars, lifeVars>>

\* _ReleaseObject(), the last reference is gone: not without an assertion
\* if the batch is not complete, but then too.  The lists are kept.
ReleaseObject(b) ==
    /\ status[b] # "Destroyed"
    /\ at[b] = "user"
    /\ status' = [status EXCEPT ![b] = "Destroyed"]
    /\ abandoned' = [abandoned EXCEPT
            ![b] = @ \union (IF status[b] = "Completed" THEN {} ELSE {life[b]})]
    /\ UNCHANGED <<at, tlSemaphoreVal, life, gpuVars, taskVars>>

\* A task waits for one thing, and its caller has a reference to the batch.
MayWait(t, b) == waits[t] = None /\ status[b] # "Destroyed"

NewWait(t, b, e) ==
    waits' = [waits EXCEPT ![t] = [batch |-> b, event |-> e, life |-> life[b]]]

IsSubmitted(b) == status[b] \in {"Pending", "Submitted", "Completed"}

IsCompleted(b) == status[b] = "Completed"

\* _AddOnSubmitDependency(), under _onSubmitDepsGuard: OnSubmitRelease()
\* comes before it or after it.
AddOnSubmitDependency_Bug(t, b) ==
    /\ MayWait(t, b)
    /\ NewWait(t, b, "submit")
    /\ released' = released \union {t}
    /\ UNCHANGED <<status, at, tlSemaphoreVal, onSubmitDeps, onCompleteDeps,
                   late, gpuVars, lifeVars>>

AddOnSubmitDependency(t, b) ==
    /\ MayWait(t, b)
    /\ NewWait(t, b, "submit")
    /\ IF IsSubmitted(b)
       THEN /\ released' = released \union {t}
            /\ UNCHANGED onSubmitDeps
       ELSE /\ onSubmitDeps' = [onSubmitDeps EXCEPT ![b] = @ \union {t}]
            /\ UNCHANGED released
    /\ UNCHANGED <<status, at, tlSemaphoreVal, onCompleteDeps, late, gpuVars,
                   lifeVars>>

\* _AddOnCompleteDependency(), under _onCompleteDepsGuard.
AddOnCompleteDependency(t, b) ==
    /\ MayWait(t, b)
    /\ NewWait(t, b, "complete")
    /\ IF IsCompleted(b)
       THEN /\ released' = released \union {t}
            /\ UNCHANGED <<onCompleteDeps, late>>
       ELSE /\ onCompleteDeps' = [onCompleteDeps EXCEPT ![b] = @ \union {t}]
            /\ late' = late \union (IF at[b] = "completing" THEN {t} ELSE {})
            /\ UNCHANGED released
    /\ UNCHANGED <<status, at, tlSemaphoreVal, onSubmitDeps, gpuVars, lifeVars>>
-----------------------------------------------------------------------------
\* What the owner of a batch, the scheduler and the GPU do.
Step(b) ==
    \/ Create(b)
    \/ EndRecording(b)
    \/ SubmitBegin(b)
    \/ SubmitError(b)
    \/ Enqueue(b)
    \/ GpuSignal(b)
    \/ OnSubmit(b)
    \/ OnSubmitRelease(b)
    \/ OnComplete(b)
    \/ OnCompleteRelease(b)
    \/ OnCompleteDone(b)
    \/ ReleaseObject(b)

Wait(t, b) ==
    \/ AddOnSubmitDependency(t, b)
    \/ AddOnCompleteDependency(t, b)

BatchNext ==
    \/ \E b \in Batch : Step(b) \/ \E t \in Task : Wait(t, b)
    \/ \E B \in SUBSET Batch : Drop(B) \/ QueueSubmit(B)

BatchSpec == BatchInit /\ [][BatchNext]_batchVars
-----------------------------------------------------------------------------
\* Nobody who waits for a batch to be complete goes on before the GPU has
\* executed it, unless that life of the batch was given up: the semaphore
\* value of the pooled object tells one life from the next.
NoEarlyComplete ==
    \A t \in released :
        waits[t].event = "complete" =>
            waits[t].life \in executed[waits[t].batch]
                              \union abandoned[waits[t].batch]

\* A batch is complete only after the GPU has signalled its semaphore, and
\* the value of the next life is never signalled in advance.
SemaphoreOfLife ==
    \A b \in Batch :
        /\ status[b] = "Completed" => life[b] \in executed[b]
        /\ gpuCounter[b] <= tlSemaphoreVal[b]
        /\ gpuSignal[b] \in {0, tlSemaphoreVal[b]}

\* The only tasks a complete batch leaves waiting have come between the
\* release of the list and the change of the status, or have waited for
\* an earlier life.
LeftBehindOnlyLate ==
    \A b \in Batch, t \in Task :
        status[b] = "Completed" /\ t \in onCompleteDeps[b] =>
            t \in late

\* DbgForEachBatch(): "case EStatus::Completed : ... ASSERT(
\* batch._onCompleteDeps.empty() )", and _ReleaseObject() checks the same.
CompletedHasNoDeps ==
    \A b \in Batch : status[b] = "Completed" => onCompleteDeps[b] = {}

\* CmdBatchOnSubmit is "Used as AsyncTask input dependency to run task when
\* command batch was submitted to the GPU" (CommandBatch.h).
SubmitDepIsAfterSubmit ==
    \A t \in released :
        waits[t].event = "submit" =>
            waits[t].life \in sent[waits[t].batch]
                              \union abandoned[waits[t].batch]
-----------------------------------------------------------------------------
\* The tasks that wait for a submission see the completion source that every
\* dependency manager promises.  A source is one life of a batch; it counts
\* as finished when the status is Pending, or when the life is given up.
SubmitSource == INSTANCE CompletionSource WITH
    Source <- Batch \X (1..MaxLives),
    NoSource <- None,
    finished <- {s \in Batch \X (1..MaxLives) :
                    \/ s[2] < life[s[1]]
                    \/ s[2] = life[s[1]]
                       /\ status[s[1]] \notin {"Initial", "Recorded"}},
    waitsFor <- [t \in Task |-> IF waits[t] # None /\ waits[t].event = "submit"
                                THEN <<waits[t].batch, waits[t].life>>
                                ELSE None],
    released <- {t \in released : waits[t].event = "submit"}

OnSubmitSource == SubmitSource!SafeSpec
=============================================================================
