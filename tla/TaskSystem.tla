----------------------------- MODULE TaskSystem -----------------------------
(***************************************************************************)
(* The life of the tasks of AE::Threading::TaskScheduler: how a task gets  *)
(* its input dependencies, waits for them in a queue, is picked up, runs,  *)
(* is continued, fails or is canceled, and releases the tasks that wait    *)
(* for it.  threading/TaskSystem/{AsyncTask.h, TaskScheduler.h,            *)
(* TaskScheduler.cpp, LfTaskQueue.cpp}.                                    *)
(*                                                                         *)
(* One step is one access to an atomic, or one critical section of the     *)
(* spinlock that guards a task's _output.  Every thread may submit, run,   *)
(* cancel: the scheduler does not tell worker threads from the others.     *)
(* Assertions are compiled out, as in the release build; they are stated   *)
(* as properties instead.                                                  *)
(*                                                                         *)
(* A task queue is the set of the tasks in it: LfTaskQueue looks at every  *)
(* task in turn under the spinlock of the task's chunk (module TaskQueue), *)
(* here each task is locked on its own, which allows more interleavings.   *)
(***************************************************************************)
EXTENDS Integers, Sequences

CONSTANTS
    Task,       \* the AsyncTask objects
    Thread,     \* the threads that call into the scheduler
    NoTask,     \* the null task
    BitCount,   \* bits of WaitBits_t, 64 in the code
    ChunkSize,  \* OutputChunk elements, ElemInChunk = 12 in the code
    Inputs,     \* Inputs[t]: the dependency lists Run(t, deps) may be given
    Resume,     \* Resume[t]: the lists t's Run() may pass to Continue(deps)
    MaxRounds,  \* bound: how often one task calls Continue()
    MayThrow, MayFail, MayCancel, MayBeReady,
                \* bound: the tasks whose Run() may throw, may call
                \* OnFailure(), that may be canceled from outside, that may
                \* be created as already completed
    PoolMayFail \* the pool of output chunks may be exhausted

Dependency == [on : Task, strong : BOOLEAN]

Entry == [task : Task, bit : 0..(BitCount - 1), strong : BOOLEAN]

AllBits == 0..(BitCount - 1)

ASSUME NoTaskAssumption == NoTask \notin Task

ASSUME SizeAssumption == /\ BitCount \in Nat \ {0}
                         /\ ChunkSize \in Nat \ {0}
                         /\ MaxRounds \in Nat
                         /\ PoolMayFail \in BOOLEAN

ASSUME UserAssumption ==
    MayThrow \union MayFail \union MayCancel \union MayBeReady \subseteq Task

ASSUME ProgramAssumption == /\ Inputs \in [Task -> SUBSET Seq(Dependency)]
                            /\ Resume \in [Task -> SUBSET Seq(Dependency)]

Status == {"Initial", "Pending", "InProgress", "Cancellation", "Continue",
           "Completed", "Canceled", "Failed"}

Finished == {"Completed", "Canceled", "Failed"}

Interrupted == {"Canceled", "Failed"}

\* Where a thread is: outside the scheduler, in _AddDependencies, _InsertTask,
\* Enqueue, _RemoveTask, _Cancel, Run(), Continue(), OnFailure(), _OnFinish or
\* _FreeOutputChunks.
Label == {"idle",
          "addDep", "register", "mask", "enqueue", "add",
          "bits", "start", "cancel", "onCancel",
          "run", "continue", "failed", "returned", "finish",
          "free", "clear"}

VARIABLES
    status,             \* _status of every task
    canceledDepsCount,  \* _canceledDepsCount
    waitBits,           \* _waitBits, the set of the bits that are 1
    output,             \* _output: the tasks to release, in chunk order
    queue,              \* the tasks in the queues
    pc, cur,            \* of every thread: where it is, the task at hand
    todo,               \* local: the dependencies still to be added
    bitIndex,           \* local: the next bit to hand out
    depStatus,          \* local: the status read from the dependency
    isCanceled,         \* local: canceledDepsCount > 0, or the parameter of
                        \* _FreeOutputChunks
    ret,                \* where to go on after _AddDependencies and Mask, and
                        \* after _FreeOutputChunks
    submitted,          \* history: the tasks that were given to the scheduler
    inputs,             \* history: the dependencies a task was given so far
    asked,              \* history: the tasks canceled for a reason of their own
    rounds              \* history: how often a task called Continue()

waiting == <<canceledDepsCount, waitBits, output>>
taskVars == <<status, waiting>>
locals == <<todo, bitIndex, depStatus, isCanceled, ret>>
threadVars == <<pc, cur, locals>>
history == <<submitted, inputs, asked, rounds>>
vars == <<taskVars, queue, threadVars, history>>

\* The constructors; a Promise may be made with its value, already completed.
MakeTasks(ready) ==
    /\ status = [t \in Task |-> IF t \in ready THEN "Completed" ELSE "Initial"]
    /\ waitBits = [t \in Task |-> IF t \in ready THEN {} ELSE AllBits]
    /\ submitted = ready

Init ==
    /\ \E ready \in SUBSET MayBeReady : MakeTasks(ready)
    /\ canceledDepsCount = [t \in Task |-> 0]
    /\ output = [t \in Task |-> <<>>]
    /\ queue = {}
    /\ pc = [p \in Thread |-> "idle"]
    /\ cur = [p \in Thread |-> NoTask]
    /\ todo = [p \in Thread |-> <<>>]
    /\ bitIndex = [p \in Thread |-> 0]
    /\ depStatus = [p \in Thread |-> "Initial"]
    /\ isCanceled = [p \in Thread |-> FALSE]
    /\ ret = [p \in Thread |-> "idle"]
    /\ inputs = [t \in Task |-> {}]
    /\ asked = {}
    /\ rounds = [t \in Task |-> 0]

\* Each operator below with the suffix _Bug is a plausible mistake in the one
\* that follows it; the properties must find it (PROJECT.json, "mutants").

MaskOf_BugWide(n) == 0..n

MaskOf_BugNarrow(n) == 0..(n - 2)

\* ToBitMask( bitIndex ): the bits handed out so far.
MaskOf(n) == 0..(n - 1)

BitsExhausted_Bug(n) == n + 1 > BitCount

\* _AddTaskDependencies keeps the last bit free.
BitsExhausted(n) == n + 1 >= BitCount

MustWait_Bug(s) == s \notin Finished \union {"Cancellation"}

\* _AddTaskDependencies registers on a dependency that is not finished.
MustWait(s) == s \notin Finished

Canceling_Bug(s) == "Cancellation"

\* _SetCancellationState(): a finished task keeps its status.
Canceling(s) == IF s \in Finished THEN s ELSE "Cancellation"

Continuing_Bug(s) == "Continue"

\* Continue(): a task canceled meanwhile is not continued.
Continuing(s) == IF s = "InProgress" THEN "Continue" ELSE s

Rearmed_Bug(bits) == bits

\* Continue(): waitBits.store( UMax ), before the dependencies are added.
Rearmed(bits) == AllBits

Goto(p, l) == pc' = [pc EXCEPT ![p] = l]

Locals(p, list, canceled, l) ==
    /\ todo' = [todo EXCEPT ![p] = list]
    /\ bitIndex' = [bitIndex EXCEPT ![p] = 0]
    /\ depStatus' = [depStatus EXCEPT ![p] = "Initial"]
    /\ isCanceled' = [isCanceled EXCEPT ![p] = canceled]
    /\ ret' = [ret EXCEPT ![p] = l]

NoLocals(p) == Locals(p, <<>>, FALSE, "idle")

Leave(p) ==
    /\ Goto(p, "idle")
    /\ cur' = [cur EXCEPT ![p] = NoTask]
    /\ NoLocals(p)

SetStatus(t, s) == status' = [status EXCEPT ![t] = s]

Locked_Bug(d) == \E p \in Thread :
    cur[p] = d /\ pc[p] \in {"onCancel", "free", "clear"}

\* The spinlock in _output of d.
Locked(d) == \E p \in Thread :
    \/ cur[p] = d /\ pc[p] \in {"onCancel", "free", "clear"}
    \/ pc[p] = "register" /\ Head(todo[p]).on = d

SetCancellation(t) == SetStatus(t, Canceling(status[t]))

-----------------------------------------------------------------------------
(* Submission and dependencies                                             *)

\* TaskScheduler::Run( task, deps ).
Run(p, t) ==
    /\ pc[p] = "idle"
    /\ t \notin submitted
    /\ submitted' = submitted \union {t}
    /\ cur' = [cur EXCEPT ![p] = t]
    /\ \E deps \in Inputs[t] : Locals(p, deps, FALSE, "enqueue")
    /\ Goto(p, "addDep")
    /\ UNCHANGED <<taskVars, queue, inputs, asked, rounds>>

\* _AddDependencies returns 'false': the caller sets the cancellation state;
\* Run() then forgets the bits handed out so far, Continue() returns.
GiveUp(p, why) ==
    /\ SetCancellation(cur[p])
    /\ asked' = asked \union why
    /\ IF ret[p] = "enqueue"
       THEN /\ Goto(p, "mask")
            /\ Locals(p, <<>>, FALSE, "enqueue")
       ELSE /\ Goto(p, "returned")
            /\ NoLocals(p)
    /\ UNCHANGED <<canceledDepsCount, waitBits, cur, queue, submitted, rounds>>

\* All dependencies are added.
NoMoreDeps(p) ==
    /\ pc[p] = "addDep" /\ todo[p] = <<>>
    /\ Goto(p, "mask")
    /\ UNCHANGED <<taskVars, queue, cur, locals, history>>

\* _AddTaskDependencies: no bit is left for the dependency.
NoBitLeft(p) ==
    /\ pc[p] = "addDep" /\ todo[p] # <<>>
    /\ BitsExhausted(bitIndex[p])
    /\ GiveUp(p, {cur[p]})
    /\ UNCHANGED <<output, inputs>>

\* _AddTaskDependencies locks the dependency's output and reads its status.
LockDep(p) ==
    /\ pc[p] = "addDep" /\ todo[p] # <<>>
    /\ ~BitsExhausted(bitIndex[p])
    /\ LET d == Head(todo[p]).on IN
          /\ ~Locked(d)
          /\ depStatus' = [depStatus EXCEPT ![p] = status[d]]
    /\ Goto(p, "register")
    /\ UNCHANGED <<taskVars, queue, cur, todo, bitIndex, isCanceled, ret,
                   history>>

NextDep(p) ==
    /\ todo' = [todo EXCEPT ![p] = Tail(@)]
    /\ depStatus' = [depStatus EXCEPT ![p] = "Initial"]
    /\ Goto(p, "addDep")

NeedsChunk(d) == Len(output[d]) % ChunkSize = 0

\* The dependency is not finished: wait for it.
Register(p) ==
    /\ pc[p] = "register"
    /\ MustWait(depStatus[p])
    /\ LET t == cur[p]
           d == Head(todo[p])
       IN /\ output' = [output EXCEPT ![d.on] = Append(@,
                [task |-> t, bit |-> bitIndex[p], strong |-> d.strong])]
          /\ inputs' = [inputs EXCEPT ![t] = @ \union {d}]
    /\ bitIndex' = [bitIndex EXCEPT ![p] = @ + 1]
    /\ NextDep(p)
    /\ UNCHANGED <<status, canceledDepsCount, waitBits, queue, cur,
                   isCanceled, ret, submitted, asked, rounds>>

\* The chunk pool has no chunk for the entry.
NoChunkLeft(p) ==
    /\ pc[p] = "register" /\ PoolMayFail
    /\ MustWait(depStatus[p])
    /\ NeedsChunk(Head(todo[p]).on)
    /\ GiveUp(p, {cur[p]})
    /\ UNCHANGED <<output, inputs>>

\* The dependency is finished, nothing to wait for.
SkipDep(p) ==
    /\ pc[p] = "register"
    /\ ~MustWait(depStatus[p])
    /\ LET d == Head(todo[p])
       IN /\ ~(d.strong /\ depStatus[p] \in Interrupted)
          /\ inputs' = [inputs EXCEPT ![cur[p]] = @ \union {d}]
    /\ NextDep(p)
    /\ UNCHANGED <<taskVars, queue, cur, bitIndex, isCanceled, ret,
                   submitted, asked, rounds>>

\* A strong dependency is already canceled or failed.
RefuseDep(p) ==
    /\ pc[p] = "register"
    /\ depStatus[p] \in Interrupted
    /\ LET d == Head(todo[p])
       IN /\ d.strong
          /\ inputs' = [inputs EXCEPT ![cur[p]] = @ \union {d}]
    /\ GiveUp(p, {})
    /\ UNCHANGED output

\* waitBits.fetch_and( ToBitMask( bitIndex )), in _InsertTask and Continue.
Mask(p) ==
    /\ pc[p] = "mask"
    /\ waitBits' = [waitBits EXCEPT
                        ![cur[p]] = @ \intersect MaskOf(bitIndex[p])]
    /\ Goto(p, ret[p])
    /\ NoLocals(p)
    /\ UNCHANGED <<status, canceledDepsCount, output, queue, cur, history>>

\* Enqueue: Initial or Continue to Pending; a task in cancellation is added as
\* it is, for its OnCancel().  (A finished task is turned down; none gets here.)
Enqueue(p) ==
    /\ pc[p] = "enqueue"
    /\ SetStatus(cur[p], IF status[cur[p]] \in {"Initial", "Continue"}
                         THEN "Pending" ELSE status[cur[p]])
    /\ Goto(p, "add")
    /\ UNCHANGED <<waiting, queue, cur, locals, history>>

\* LfTaskQueue::Add.
AddToQueue(p) ==
    /\ pc[p] = "add"
    /\ queue' = queue \union {cur[p]}
    /\ Leave(p)
    /\ UNCHANGED <<taskVars, history>>

-----------------------------------------------------------------------------
(* Picking up a task: LfTaskQueue::_RemoveTask                             *)

Inspected_Bug(t) == FALSE

\* The spinlock of the queue chunk that holds t.
Inspected(t) == \E p \in Thread : cur[p] = t /\ pc[p] = "bits"

\* canceled = curr->_canceledDepsCount.load()
Inspect(p, t) ==
    /\ pc[p] = "idle"
    /\ t \in queue /\ ~Inspected(t)
    /\ cur' = [cur EXCEPT ![p] = t]
    /\ isCanceled' = [isCanceled EXCEPT ![p] = canceledDepsCount[t] > 0]
    /\ Goto(p, "bits")
    /\ UNCHANGED <<taskVars, queue, todo, bitIndex, depStatus, ret, history>>

\* The inputs are not complete, the task stays in the queue.
NotReady(p) ==
    /\ pc[p] = "bits"
    /\ ~isCanceled[p] /\ waitBits[cur[p]] # {}
    /\ Leave(p)
    /\ UNCHANGED <<taskVars, queue, history>>

Remove(p) ==
    /\ pc[p] = "bits"
    /\ isCanceled[p] \/ waitBits[cur[p]] = {}
    /\ queue' = queue \ {cur[p]}
    /\ Goto(p, "start")
    /\ UNCHANGED <<taskVars, cur, locals, history>>

\* The CAS from Pending to InProgress.
Start(p) ==
    /\ pc[p] = "start"
    /\ status[cur[p]] = "Pending" /\ ~isCanceled[p]
    /\ SetStatus(cur[p], "InProgress")
    /\ Goto(p, "run")
    /\ UNCHANGED <<waiting, queue, cur, locals, history>>

StartCanceled(p) ==
    /\ pc[p] = "start"
    /\ status[cur[p]] = "Cancellation" \/ isCanceled[p]
    /\ Goto(p, "cancel")
    /\ UNCHANGED <<taskVars, queue, cur, locals, history>>

\* IAsyncTask::_Cancel: lock the output, set the cancellation state.
CancelTask(p) ==
    /\ pc[p] = "cancel"
    /\ ~Locked(cur[p])
    /\ SetCancellation(cur[p])
    /\ Goto(p, "onCancel")
    /\ UNCHANGED <<waiting, queue, cur, locals, history>>

\* OnCancel() returns, in _Cancel or in _OnFinish.
OnCancel(p) ==
    /\ pc[p] = "onCancel"
    /\ SetStatus(cur[p], "Canceled")
    /\ Goto(p, "free")
    /\ Locals(p, <<>>, TRUE, "idle")
    /\ UNCHANGED <<waiting, queue, cur, history>>

-----------------------------------------------------------------------------
(* The user's Run() and what follows it                                    *)

\* Run() returns; after Continue() or OnFailure() that is all it still does.
RunReturns(p) ==
    /\ pc[p] \in {"run", "returned"}
    /\ Goto(p, "finish")
    /\ UNCHANGED <<taskVars, queue, cur, locals, history>>

\* LfTaskQueue::Process catches the exception.
RunThrows(p) ==
    /\ pc[p] \in {"run", "returned"}
    /\ cur[p] \in MayThrow
    /\ SetCancellation(cur[p])
    /\ asked' = asked \union {cur[p]}
    /\ Goto(p, "finish")
    /\ UNCHANGED <<waiting, queue, cur, locals,
                   submitted, inputs, rounds>>

\* OnFailure: the CAS to Failed, before the output is locked.
OnFailure(p) ==
    /\ pc[p] = "run"
    /\ cur[p] \in MayFail
    /\ SetStatus(cur[p], "Failed")
    /\ Goto(p, "failed")
    /\ UNCHANGED <<waiting, queue, cur, locals, history>>

FailureLock(p) ==
    /\ pc[p] = "failed"
    /\ ~Locked(cur[p])
    /\ Goto(p, "free")
    /\ Locals(p, <<>>, TRUE, "returned")
    /\ UNCHANGED <<taskVars, queue, cur, history>>

WaitAgain(p, deps) ==
    IF deps = <<>>
    THEN Goto(p, "continue") /\ UNCHANGED <<waitBits, locals>>
    ELSE /\ waitBits' = [waitBits EXCEPT ![cur[p]] = Rearmed(@)]
         /\ Locals(p, deps, FALSE, "continue")
         /\ Goto(p, "addDep")

\* Continue( deps ): waitBits.store( UMax ), then _AddDependencies.
Continue(p) ==
    /\ pc[p] = "run"
    /\ rounds[cur[p]] < MaxRounds
    /\ rounds' = [rounds EXCEPT ![cur[p]] = @ + 1]
    /\ \E deps \in Resume[cur[p]] : WaitAgain(p, deps)
    /\ UNCHANGED <<status, canceledDepsCount, output, queue, cur,
                   submitted, inputs, asked>>

\* The CAS from InProgress to Continue, unless the task was canceled.
SetContinue(p) ==
    /\ pc[p] = "continue"
    /\ SetStatus(cur[p], Continuing(status[cur[p]]))
    /\ Goto(p, "returned")
    /\ UNCHANGED <<waiting, queue, cur, locals, history>>

\* _OnFinish: Completed, or Failed before.
FinishCompleted(p) ==
    /\ pc[p] = "finish"
    /\ status[cur[p]] \in {"InProgress", "Failed"}
    /\ ~Locked(cur[p])
    /\ SetStatus(cur[p], IF status[cur[p]] = "InProgress"
                         THEN "Completed" ELSE "Failed")
    /\ Goto(p, "free")
    /\ UNCHANGED <<waiting, queue, cur, locals, history>>

\* _OnFinish with rerun: Process enqueues the task again.
FinishContinue(p) ==
    /\ pc[p] = "finish"
    /\ status[cur[p]] = "Continue"
    /\ ~Locked(cur[p])
    /\ Goto(p, "enqueue")
    /\ UNCHANGED <<taskVars, queue, cur, locals, history>>

FinishCanceled(p) ==
    /\ pc[p] = "finish"
    /\ status[cur[p]] = "Cancellation"
    /\ ~Locked(cur[p])
    /\ Goto(p, "onCancel")
    /\ UNCHANGED <<taskVars, queue, cur, locals, history>>

-----------------------------------------------------------------------------
(* _FreeOutputChunks, under the lock                                       *)

CountsAsCanceled_Bug(p, e) == isCanceled[p]

CountsAsCanceled(p, e) == isCanceled[p] /\ e.strong

\* dep->_canceledDepsCount.fetch_add( 1 )
CountCanceled(p) ==
    /\ pc[p] = "free" /\ output[cur[p]] # <<>>
    /\ LET e == Head(output[cur[p]]) IN
          /\ CountsAsCanceled(p, e)
          /\ canceledDepsCount' = [canceledDepsCount EXCEPT ![e.task] = @ + 1]
    /\ Goto(p, "clear")
    /\ UNCHANGED <<status, waitBits, output, queue, cur, locals, history>>

\* dep->_waitBits.fetch_and( ~mask )
ClearBit(p) ==
    /\ pc[p] \in {"free", "clear"} /\ output[cur[p]] # <<>>
    /\ LET e == Head(output[cur[p]]) IN
          /\ pc[p] = "free" => ~CountsAsCanceled(p, e)
          /\ waitBits' = [waitBits EXCEPT ![e.task] = @ \ {e.bit}]
    /\ output' = [output EXCEPT ![cur[p]] = Tail(@)]
    /\ Goto(p, "free")
    /\ UNCHANGED <<status, canceledDepsCount, queue, cur, locals, history>>

\* The list is empty: unlock and return.
FreeDone(p) ==
    /\ pc[p] = "free" /\ output[cur[p]] = <<>>
    /\ IF ret[p] = "returned"
       THEN /\ Goto(p, "returned")
            /\ NoLocals(p)
            /\ UNCHANGED cur
       ELSE Leave(p)
    /\ UNCHANGED <<taskVars, queue, history>>

-----------------------------------------------------------------------------

\* TaskScheduler::Cancel( task ), from any thread at any time.
Cancel(t) ==
    /\ t \in MayCancel
    /\ Canceling(status[t]) # status[t]
    /\ SetCancellation(t)
    /\ asked' = asked \union {t}
    /\ UNCHANGED <<waiting, queue, threadVars,
                   submitted, inputs, rounds>>

AddDependencies(p) == \/ NoMoreDeps(p) \/ NoBitLeft(p) \/ LockDep(p)
                      \/ Register(p) \/ NoChunkLeft(p) \/ SkipDep(p)
                      \/ RefuseDep(p) \/ Mask(p)

InsertTask(p) == Enqueue(p) \/ AddToQueue(p)

RemoveTask(p) == \/ NotReady(p) \/ Remove(p) \/ Start(p)
                 \/ StartCanceled(p) \/ CancelTask(p) \/ OnCancel(p)

UserRun(p) == \/ RunReturns(p) \/ RunThrows(p) \/ OnFailure(p)
              \/ FailureLock(p) \/ Continue(p) \/ SetContinue(p)

OnFinish(p) == FinishCompleted(p) \/ FinishContinue(p) \/ FinishCanceled(p)

FreeOutputChunks(p) == CountCanceled(p) \/ ClearBit(p) \/ FreeDone(p)

\* What a thread does once it has a task at hand.
Step(p) == \/ AddDependencies(p) \/ InsertTask(p) \/ RemoveTask(p)
           \/ UserRun(p) \/ OnFinish(p) \/ FreeOutputChunks(p)

\* Nothing is left to do: every task was submitted and is finished.
Terminated == /\ \A t \in Task : t \in submitted /\ status[t] \in Finished
              /\ \A p \in Thread : pc[p] = "idle"
              /\ UNCHANGED vars

Next ==
    \/ \E p \in Thread : Step(p)
    \/ \E p \in Thread, t \in Task : Run(p, t) \/ Inspect(p, t)
    \/ \E t \in Task : Cancel(t)
    \/ Terminated

Spec == Init /\ [][Next]_vars

\* A thread with a task at hand goes on; Run() and OnCancel() return.  A queue
\* is scanned to its end, so every task in it is looked at again and again.
\* The user submits every task it has made.
Fairness ==
    /\ \A p \in Thread : WF_vars(Step(p))
    /\ \A t \in Task : SF_vars(\E p \in Thread : Inspect(p, t))
    /\ \A t \in Task : SF_vars(\E p \in Thread : Run(p, t))

FairSpec == Spec /\ Fairness
-----------------------------------------------------------------------------
(* Properties                                                              *)

TypeOK ==
    /\ status \in [Task -> Status]
    /\ canceledDepsCount \in [Task -> Nat]
    /\ waitBits \in [Task -> SUBSET AllBits]
    /\ output \in [Task -> Seq(Entry)]
    /\ queue \subseteq Task
    /\ pc \in [Thread -> Label]
    /\ cur \in [Thread -> Task \union {NoTask}]
    /\ todo \in [Thread -> Seq(Dependency)]
    /\ bitIndex \in [Thread -> 0..(BitCount - 1)]
    /\ depStatus \in [Thread -> Status]
    /\ isCanceled \in [Thread -> BOOLEAN]
    /\ ret \in [Thread -> {"idle", "enqueue", "continue", "returned"}]
    /\ \A p \in Thread : pc[p] # "idle" => cur[p] \in Task
    /\ submitted \subseteq Task
    /\ inputs \in [Task -> SUBSET Dependency]
    /\ asked \subseteq Task
    /\ rounds \in [Task -> Nat]

\* A task is in the hands of at most one thread, and never in a queue at the
\* same time (but for the thread that looks at it there): Run() and OnCancel()
\* of a task are executed sequentially, and no task is enqueued twice.
OneOwner ==
    \A p \in Thread : pc[p] # "idle" =>
        /\ \A q \in Thread \ {p} : pc[q] # "idle" => cur[q] # cur[p]
        /\ cur[p] \in queue <=> pc[p] = "bits"

\* A bit a queued task waits for is always backed by an entry in the output of
\* a task that is not finished, or that is still releasing its output: no
\* dependency is lost, whatever finishes while it is being added.
Releasing(d) == \E p \in Thread :
    cur[p] = d /\ pc[p] \in {"failed", "free", "clear"}

EveryWaitHasSource ==
    \A t \in queue : status[t] = "Pending" =>
        \A b \in waitBits[t] : \E d \in Task :
            /\ status[d] \notin Finished \/ Releasing(d)
            /\ \E i \in DOMAIN output[d] : /\ output[d][i].task = t
                                          /\ output[d][i].bit = b

\* A task is canceled only for a reason: it was canceled from outside, it threw,
\* its dependencies could not be added, or a strong dependency of it was
\* interrupted.  A weak dependency never cancels it.
CanceledForReason ==
    \A t \in Task : status[t] \in {"Cancellation", "Canceled"} =>
        \/ t \in asked
        \/ \E d \in inputs[t] : d.strong /\ status[d.on] \in Interrupted

\* A finished task that nobody releases any more keeps no entry: nobody is
\* registered on it too late.  (_ResetState asserts it.)
NoLateEntry ==
    \A d \in Task : status[d] \in Finished /\ ~Releasing(d) => output[d] = <<>>

\* Run() starts only when all the dependencies are finished.
StartAfterInputs == [][\A p \in Thread : Start(p) =>
    \A d \in inputs[cur[p]] : status[d.on] \in Finished]_vars

\* A finished task keeps its status, and OnCancel() is not called for it.
FinishedForGood == [][\A t \in Task : status[t] \in Finished =>
    /\ status'[t] = status[t]
    /\ \A p \in Thread : cur'[p] = t => pc'[p] # "onCancel"]_vars

\* Every submitted task finishes: it is completed, canceled or failed, whatever
\* its dependencies do (which form no cycle).
EveryTaskFinishes == \A t \in Task : t \in submitted ~> status[t] \in Finished

\* A task in cancellation ends as canceled (or failed), never as completed.
CancellationSticks ==
    \A t \in Task : status[t] = "Cancellation" ~> status[t] \in Interrupted

-----------------------------------------------------------------------------
(* What the documentation and the assertions say, and the code does not do *)

\* AsyncTask.h:16: "if task in strong dependency is canceled then dependent task
\* will be canceled".
StrongDependencyCancels == [][\A p \in Thread : Start(p) =>
    \A d \in inputs[cur[p]] : d.strong => status[d.on] \notin Interrupted]_vars

\* TaskScheduler.h:43: "Run() will be called after all input dependencies Run()
\* or OnCancel() methods have completed".
InRun(p) ==
    \/ pc[p] \in {"run", "continue", "failed", "returned"}
    \/ pc[p] \in {"free", "clear"} /\ ret[p] = "returned"
    \/ pc[p] \in {"addDep", "register", "mask"} /\ ret[p] = "continue"

RunAfterRunOfInputs == [][\A p \in Thread : Start(p) =>
    \A q \in Thread : pc[q] = "onCancel" \/ InRun(q) =>
        \A d \in inputs[cur[p]] : d.on # cur[q]]_vars

\* TaskScheduler.cpp:153: ASSERT( expected != EStatus::Cancellation ).
FailureIsNotCanceled == [][\A p \in Thread :
    OnFailure(p) => status[cur[p]] # "Cancellation"]_vars

\* TaskScheduler.cpp:257: ASSERT( AllBits( old_bits, mask )).
ClearedBitWasSet == [][\A p \in Thread : ClearBit(p) =>
    LET e == Head(output[cur[p]]) IN e.bit \in waitBits[e.task]]_vars
=============================================================================
