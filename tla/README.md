# Verification of the AE engine

TLA+ models, model-checking runs and machine-checked proofs for the engine in
`src/AE/engine`, a C++ library for multi-threaded graphics applications. They are
about the parts where the order of the steps of several threads, of the GPU, of the
kernel or of two ends of a connection decides what is right, and where a test sees
only a few of the orders:

* the **task system** in `engine/src/threading`: asynchronous tasks with
  dependencies, processed by worker threads from lock-free queues;
* **asynchronous requests** for files, which tasks wait for;
* the **command batches** and **frames** of the graphics core, which render tasks
  fill and the GPU executes;
* the **TCP channels** of servers and clients.

`PROJECT.json` lists the components, runs, mutants, findings, hazards and theorems
and says for each definition which lines it models.

## 1. The system

### 1.1 Components

| Component | State it keeps | Operations | Hard behaviour | What makes it correct |
|---|---|---|---|---|
| **Task life cycle and scheduler** (`AsyncTask.h`, `TaskScheduler.*`) | of every task: `_status`, `_waitBits`, `_canceledDepsCount`, `_output` (list of chunks under a spinlock) | `Run`, `Enqueue`, `Continue`, `OnFailure`, `Cancel`, `_OnFinish`, `_Cancel`, `_FreeOutputChunks`, `Wait` | a dependency finishes while it is being added; `Cancel` at any time; `Continue` re-arms a task; bits and chunks run out | one owner of a task; no start before the inputs; final states are final; no wait is lost; cancellation for a reason only; every task finishes |
| **Task queue** (`LfTaskQueue.*`) | two lists of chunks: array of tasks, packed word (lock, position, count) | `Add`, `Pull`, `Process`, `Release` | try-locks, tasks that stay in the middle of the array, `OnCancel()` under the lock | a bag: no task lost or doubled; every ready task is found; `Add` returns |
| **Pool of output chunks** (`LfIndexedPool.*`) | bit per element, bit per full group, chunks allocated on demand | `Assign`, `Unassign` by index or pointer | two-level bits updated by racing threads; publication of new chunks | one owner per element; full bits exact; no false overflow; what is assigned can be given back |
| Worker threads and wake-up (`ThreadManager.*`, `TaskScheduler.cpp`) | looping flag, set of active thread types, condition variable | `Attach`, `Detach`, `SuspendThread`, `Wakeup`, `Suspend` | lost wake-ups, join against sleep | a queued task wakes a thread; `Detach` ends |
| AsyncMutex (`AsyncMutex.h`) | owner task | `TryLock`, `Unlock` | waiting for a whole task in place of an unlock | exclusion; no waiter is forgotten |
| Promise, coroutines (`Promise.h`, `Coroutine.h`) | a task and a value | `Then`, `Except`, `All`, `co_await` | failure against completion | the value is read after it is written |
| Lock-free pools, lists, allocators (`threading/Containers`, `threading/Memory`) | bitmaps, frame indices | allocate, free, next frame | as for the pool | no block has two owners |
| Primitives (`threading/Primitives`) | counters and flags | lock, wait, signal | fairness of readers and writers | exclusion |
| **Asynchronous data sources** (`threading/DataSource`) | of every pooled request: `_status`, references, `_deps`; rings of the kernel | create, submit, process events, complete, register a task, drop | completion against registration and recycling; refused submissions | the kernel holds only what is alive; a request completes once and releases its tasks |
| **Command batches** (`graphics/Private/CommandBatch*`) | of every pooled batch: status, semaphore value, two lists of tasks | create, record, submit, on submit, on complete, register a task, release | the GPU finishes at any time; tasks register at any time; the object and its semaphore are used again | nobody goes on too early; nobody is left behind; lives are told apart |
| **Render task scheduler** (`graphics/Private/RenderTaskScheduler*`) | three words of bits and a table of pending batches per queue, submitted batches and readers per frame, the frame counter | `BeginFrame`, `BeginCmdBatch`, `Submit`, `_FlushQueue`, `SkipCmdBatches`, `EndFrame`, `WaitNextFrame`, `Deinitialize` | two render tasks flush at once; a batch fails; the memory of a frame is used again | the order of the batches; memory is free when reused; frames come to an end |
| **TCP channels, client and server** (`networking/HighLevel/TcpChannel*`, `ClientServerBase`, `DefaultClientListener`) | pool of clients, their unsent and undecoded bytes and last sent message; the map of addresses; the ids of the listener; the status of a client | `Update`: connect, reconnect, accept, receive, send, disconnect | messages cut anywhere; broken connections; frames that are not encoded in time; one buffer for many clients | a stream delivers what was put on it; nothing is skipped in a living connection; the tables agree |
| Other networking (`networking`) | UDP channel, producers and consumers, sockets, message factory | send, receive, produce, consume | split locks of the producers | messages are not lost between threads |
| Virtual file system (`vfs`) | storages; network storage client and server | open, read, request, reply | replies after a timeout | a reply reaches its request |
| Rest of the graphics core, back-ends, high-level graphics, platform, profiler, scripting, audio, video, serialising, ECS, base | device and OS objects | | outside the sources here, or sequential | |

### 1.2 How they interact

* A worker thread loops in `ProcessTasks`: `LfTaskQueue::Process` pulls a task that
  is ready, calls its `Run()` and then `_OnFinish()`, which completes, cancels or
  re-enqueues it.
* `Run( task, deps )` registers the task in `_output` of every dependency, each
  entry with a bit of `_waitBits`. The bits stay set until the dependency finishes
  and `_FreeOutputChunks` clears them. Nobody is notified: the task is in its queue
  from the start, and is passed over as long as a bit is set.
* Entries are kept in chunks from the `LfIndexedPool` of the scheduler.
* A task canceled in the queue gets its `OnCancel()` from whoever finds it, under
  the lock of the queue's chunk. `OnCancel()` may submit tasks.
* `AsyncMutex`, promises, coroutines, I/O requests and render tasks all reduce to
  tasks and dependencies. A task waits for something else than a task through an
  `ITaskDependencyManager`: it registers on a request or on a batch, and the thread
  that sees the completion clears its bit. `CompletionSource` is what every such
  manager promises; the batches and the requests implement it.
* A render task records a batch and submits it: to the table of pending batches, from
  which some render task, or the task at the end of the frame, sends a range of
  consecutive indices to the GPU. The main thread waits for the frame that used the
  same memory, recycles its batches and begins the next one.
* A server and its clients call `Update()` once or several times per frame. What was
  sent in a frame must be encoded before the next one: who is behind is disconnected.

## 2. Modules

| Module | Models | Kind |
|---|---|---|
| `TaskSystem` | life cycle of the tasks, dependencies, `Continue`, `OnFailure`, `Cancel` | state machine, one action per atomic access or critical section |
| `TaskSystemProofs` | | theorems about `TaskSystem` |
| `TaskBag` | what a task queue promises | abstract specification |
| `TaskQueue` | `LfTaskQueue`, implements `TaskBag` | state machine per shared word |
| `TaskQueueProofs` | | theorems about `TaskQueue` |
| `IndexedPool` | `LfIndexedPool` | state machine per shared word |
| `IndexedPoolProofs` | | theorems about `IndexedPool` |
| `CompletionSource` | what a dependency manager promises | abstract specification |
| `AsyncRequest` | requests with io_uring, implements `CompletionSource` | state machine per critical section or call of the kernel |
| `AsyncRequestProofs` | | theorems about `AsyncRequest` |
| `CommandBatch` | the life of pooled batches, implements `CompletionSource` | state machine |
| `CommandBatchProofs` | | theorems about `CommandBatch` |
| `RenderTaskScheduler` | a queue of batches and its frames, extends and implements `CommandBatch` | composition |
| `RenderTaskSchedulerProofs` | | theorems about `RenderTaskScheduler` |
| `TcpStream` | messages and parts, one call of `_SendMessages` and of `_ReceiveMessages` | operators |
| `TcpStreamProofs` | | lemmas about these operators |
| `TcpChannel` | a server, its clients, the listener and the connections | composition of state machines |
| `TcpChannelProofs` | | theorems about `TcpChannel` |
| `MC...` | constants for the runs | |

**`TaskSystem`.** `status`, `canceledDepsCount`, `waitBits` and `output` are the
fields of `IAsyncTask`; a set of bits stands for `_waitBits`, a sequence of entries
for the list of output chunks. `pc`, `cur` and the `local` variables are what a
thread holds on its stack. The lock of `_output` is not a variable: `Locked(d)`
says from the places of the threads who has it. `CountCanceled` and `ClearBit` are
two steps because `_FreeOutputChunks` makes two atomic accesses, and `Inspect` and
`NotReady`/`Remove` are two because `_RemoveTask` loads two words. `inputs`,
`asked`, `submitted` and `rounds` are history variables for the properties. A queue
is a set here; the lock of its chunk is taken per task, which allows more
interleavings than the code.

**`TaskQueue`.** `packed` and `array` are the chunk, `pos`, `count` and `second` are
the local copies `Pull` changes before it writes the word back. `Load` and
`PullLock` are separate: between them the chunk may have become empty. A thread may
leave a chunk without the lock at any time (`AddSkip`, `PullSkip`), for the code
gives up after eight attempts. Whether a task is ready, waiting or canceled is
`inputsOf`, which changes at any time (`Change`); it is `TaskSystem` that says how.
A thread in `DropTask` may begin an `Add` inside its `Pull`.

**`TaskBag`** is the promise: a task is added once and taken out once, to run if it
is ready or to be canceled. `TaskQueue!ImplementsBag` is the refinement, with
`Queued`, the tasks in the arrays, for `queued`.

**`IndexedPool`.** `assigned` and `full` are the two levels of bits. The update of
the high level is four steps (lock, check, write, or no write) shared by `Assign`
and `Unassign`. `SetPtr` and `SetCount` are the two stores that publish a new chunk.
Indices are integers, composed and taken apart as in the code.

**`CompletionSource`.** A source finishes once; a task registers on it, is released
after it has finished and is not left behind. `AsyncRequest!RequestSource` (with
liveness) and `CommandBatch!OnSubmitSource` (safety) are the refinements; a source is
one life of a pooled object, so a task of an earlier life that is still listed in the
next one would show.

**`AsyncRequest`.** `refs`, `deps` and `status` are fields of a request, `guard`, `sq`
and `cq` belong to the ring, `inKernel` to the kernel. `Completing` is shared by the
thread in `ProcessEvents()` and the one that creates a request that could not be
submitted. `Entry` carries the life of the object, so that what the kernel reports can
be told from the object's next use.

**`CommandBatch`.** `at` says who has a batch: the recording task, the table of pending
batches, the GPU, the list of the frame. `gpuSignal` is the value of a submission that
the GPU has not executed, `gpuCounter` the value of the semaphore. `late` are the tasks
that registered between the release of `_onCompleteDeps` and the change of the status.
`BatchNext` is open: `QueueSubmit`, `Drop` and the steps of a batch may come at any time,
and `RenderTaskScheduler` restricts them to what its code does.

**`RenderTaskScheduler`.** `bits` are the three words of `QueueData::bits`, one atomic
access is one step; `slot` is the table, under the mutex `queueGuard`. `range`, `taken`
and `todo` are locals of `_FlushQueue` and of the scan for complete frames. `Execute`
is the GPU, which completes the submissions of a queue in order. Each action on a
batch conjoins the action of `CommandBatch` with the same name. `Modes` and `Skip` are
the program: which submission modes it sets and when it skips the rest of a frame.

**`TcpStream`.** A message is a header and a body of several parts, a stream is a
sequence of parts that carry the connection and the message they were encoded for.
`Receiving` and `Sending` are the sets of all outcomes of a call: how many parts the
socket took or gave in the up to four attempts, where the storage was full, whether the
socket failed. A message that can not be decoded is dropped and the rest waits for a
call in which something comes, as in the code.

**`TcpChannel`.** `client` and `slots` are the channels' own fields, `addrMap`, `ids` and
`counter` the tables, `net` the connections with the parts under way. A client's call
is one step, or two when it begins with a reconnection; a call of the server is one step
for the begin, one per accepted socket and one per client, since clients run in between.
`stray` is what is left in the receive buffer of the server between two clients. `flow`
is history: the messages put on a connection, taken from it and due on it. `mixed`
is history too: streams that the code has given parts of another one (see 5).
Abstractions: one channel, the reliable one; a client has one address, of which the
listener ignores the port, as in the code; the black list is a refusal that may come
at any time; the first connection of `Create` is the first `ClientRetry`; a decoder that
has lost the begin of a message decodes no more (the code asserts).

### 2.1 Common conventions

* Memory is sequentially consistent. The code's atomics are relaxed by default; what
  a weakly ordered processor adds is out of the scope of these models.
* Compare-and-swap loops that only reload and try again are one step.
* Assertions are compiled out and stated as properties.
* An operator `X_Bug` before `X` is a plausible mistake in `X`; the runs find it.

## 3. Runs

| Run | Bounds | Question, and answer |
|---|---|---|
| `fan_in` | 3 tasks, 3 threads, 4 bits, 1 entry per chunk; the pool may be exhausted, a task may be complete from the start | No dependency is lost or added late, one owner, start after the inputs, cancellation for a reason, final states: hold |
| `continue` | 3 tasks, 2 threads, **2 bits**, 2 rounds, `Run()` may throw | The same over `Continue`; the bit limit is met; without `OnFailure` a task starts after the `Run()` of its inputs; every submitted task finishes, and a cancellation is not forgotten: hold |
| `strong_dep` | 2 tasks, 2 threads | A canceled strong dependency cancels: violated, see 5 |
| `queue_bag` | 3 tasks, 2 threads, 1 list of up to 2 chunks of 2 | The array has no gaps, every task is in one place, the queue implements `TaskBag`: hold |
| `queue_live` | 2 tasks, 2 threads that begin with the same list, 2 lists of one chunk of 2 | Every task that is ready or canceled leaves the queue; `Add` returns, also under the lock of a chunk: hold |
| `pool_shared` | 3 threads, 2 chunks of one group of 2, allocation may fail | Bits and owners agree, no element twice, full bits exact, an overflow is reported only if there is one: hold |
| `async` | 2 requests that live twice, 2 tasks, one weak | The kernel has only what is alive, a request completes once, requests implement `CompletionSource`: hold |
| `batch` | 2 batches that live twice and may both fail, 2 tasks | Nobody goes on early, lives are told apart, nobody is left behind but who registers in one known gap, batches implement `CompletionSource`: hold |
| `frames` | 3 frames, 2 in flight, 2 batches, one of which may fail, 1 reader, deferred and immediate submission, skipping | Order on the GPU, memory and readback after the GPU, indices free again, no batch dropped, every batch completes, the scheduler comes to its end: hold |
| `tcp_in` | 2 clients, 2 slots, 2 connections, 1 message per client, 3 parts per message, socket of 3, storage of 5 | Messages arrive whole and once on their own connection, pool, addresses and listener agree: hold |
| `tcp_out` | 1 client, 2 slots, 2 connections, 2 messages of the server, socket of 2 parts, storage of 5 | The same for the other direction, and nothing is skipped in a living connection: hold |
| `tcp_spin` | 2 clients, a message for one of them | A call of the server returns: violated, see 5 |

**Why the bounds are enough.** The races of the task life cycle are between a task,
a dependency of it and whoever cancels one of them: `fan_in` has a thread for each,
and a second dependency, so that one can be refused after the other was registered.
Chunks of one entry make the pool matter at every registration. Two bits are the
least with which a dependency can be added, so the limit is met at the second. In
the queue, two tasks in an array are the least with which a removed task is replaced
by another one and a search that begins in the middle has a front to come back to;
the third task meets the full chunk. `queue_live` has room for its tasks: what it asks
is whether threads find their way past locks, not what happens when all is full. In the pool, three threads let one fill a group while another
empties it and a third overtakes both. `Inputs`, `Resume`, `MayThrow`, `MayFail`,
`MayCancel`, `MayBeReady` and `Submits` are the program that uses the scheduler.
`MaxRounds` bounds `Continue`, the only counter of the task system that would grow for
ever.

`MaxLives = 2` lets a pooled request or batch be used again, once, which is what
confuses two lives. In `frames` the third frame is the first to use the memory and the
submit indices of an earlier one, two batches are the least that can be in the wrong
order or flushed by each other's task, and one of them may fail while the other goes on.
A message of three parts has a header that can be cut in two. The storage of five parts
with `MaxMsgSize = 1` is full as soon as one message is in it (`NeedsSending`,
`NotEnoughMemory`), so `lastSentMsg` is left in the queue; in `tcp_out` the socket is
smaller than a message. Two connections let a slot be used again, or two slots have the
same client. `MaxConn`, `MaxMade` (by `ServerMessages` and `ClientMessages`) and
`MaxPerUpdate` bound what would grow for ever, `SocketSize` the parts under way.

`TaskSystem` may stop when all tasks are finished (`Terminated`), and nowhere else:
deadlock is checked in its runs. Requests, batches, frames and connections come to an end
at their bounds, so deadlock is not checked there; `RequestSource`, `EveryBatchCompletes`
and `ReachesEnd` say what must happen before.

**Fairness.** `TaskSystem!Fairness`: a thread with a task at hand goes on (weak, user
code returns), a task in a queue is looked at again and again (strong: a search goes
over the whole array and starts where the last one ended; `queue_live` shows that
this is so), and the user submits the tasks that were made. `TaskQueue!Fairness`:
threads in `Add` and `Pull` go on, and workers call `Pull` in their loop
(`ThreadManager.cpp:83`). That does not exclude that a thread meets the same chunk
locked whenever it comes by, since the locks are try-locks; two threads may do so to
each other for ever. `PatientSpec` excludes it, with strong fairness for the lock
of each chunk: it is held for one scan, and between two rounds over a full queue
`Add` sleeps 500 us and the workers sleep when they find nothing. The property needs
this; it is a probabilistic truth of the code and not a guarantee.

`AsyncRequest!Fairness`: threads go on with what they have begun, the kernel completes
what it has, and some thread calls `ProcessEvents()` again and again (strong, since the
ring may be locked whenever it comes, but only for one submission).
`RenderTaskScheduler!Fairness`: render tasks and the end task are run, for which the task
system is there; the main thread goes on with its loop; the GPU executes what it was
given. Nothing is assumed of failing batches or of readers.
`TcpChannel!FairSpec`: the thread of the server goes on. Clients and connections may stop
at any time.

## 4. Proofs

Each theorem is for every value of the constants that the assumptions allow: any set of
tasks, threads, requests, batches or chunks, and every size. A hypothesis of a theorem is
in the last column; where there is none, there is none.

| Theorem | What it states | Hypothesis |
|---|---|---|
| `TaskSystemProofs!TypeCorrect` | `TypeOK`: in particular the bit index never reaches `BitCount` | |
| `!OneOwnerAlways` | a task is in the hands of one thread, or in a queue, never both | |
| `!InputsFirst` | a task goes to `InProgress` only when all its dependencies are finished | |
| `!FinalStatus` | a finished task keeps its status, and `OnCancel()` is not called for it | |
| `!NoWaitLost` | a bit that a queued task waits for has an entry in the output of a task that will clear it | |
| `!NobodyLate` | nobody is registered on a task that has released its output | |
| `!NeverCanceledForNothing` | a task is canceled on request, because it threw or its dependencies could not be added, or because a strong dependency was | |
| `!RunAfterRun` | a task starts after the `Run()` of its inputs has returned | `MayFail = {}` |
| `TaskQueueProofs!QueueTypeCorrect`, `CountTellsTasks` | the tasks of a chunk are at its front, as many as its count tells | |
| `!NoneLostOrDoubled` | a task that `Add` was called for is in one place | |
| `!QueueIsBag` | `TaskQueue` implements `TaskBag` | |
| `IndexedPoolProofs!BitsAreRight` | a bit is set for what is held, or about to be given back, and nothing else | |
| `!HandedOutOnce` | `Assign` returns an index that nobody has | |
| `!MarksAreExact` | the bits of the high level are exact when nobody is to update them | |
| `!FailsWhenExhausted` | an `Assign` that no `Unassign` overlaps fails only if all is taken | |
| `AsyncRequestProofs!TypeCorrect`, `ObjectOutlivesIo` | the object is alive, in the same life, while the kernel works on it | `MayRefuse = FALSE` |
| `!CompletedOnce` | nobody completes a request that is completed | `MayRefuse = FALSE` |
| `!ToldByItsRequest` | a task is told by the life of the request it is registered on, and canceled only for a strong dependency | `MayRefuse = FALSE` |
| `!ImplementsSource` | `AsyncRequest` implements `CompletionSource!SafeSpec` | `MayRefuse = FALSE`, `HasRoom` |
| `CommandBatchProofs!BatchTypeCorrect`, `NeverEarly`, `SemaphoreTellsLife`, `OnlyLateIsLeft` | the invariants of the run `batch` | |
| `!ImplementsSource` | for the tasks that wait for a submission, `CommandBatch` implements `CompletionSource!SafeSpec` | |
| `RenderTaskSchedulerProofs!ImplementsBatches`, `FramesTellLife` | the scheduler implements `CommandBatch!BatchSpec`, so what is proved of batches holds in frames | |
| `!RtsTypeCorrect` | types; an index in use is an index of the table | |
| `!FrameBeginsFree` | a frame begins with all submit indices free | `Skip # "after EndFrame"` |
| `!MemoryIsFree` | when a frame begins, no batch of the frame that had its memory is in the hands of the scheduler or the GPU | |
| `!OnGpuInOrder` | the GPU is given the batches of a frame in the order of their indices, whoever flushes | |
| `!ReadsBackLate` | a reader goes on only after its batch has been executed or has failed | |
| `!KeepsBatches` | the end of a frame drops no batch, unless the frame has failed | `KeepsContract` |
| `TcpChannelProofs!ChannelTypeCorrect` | types of channels, slots, tables, connections and history | |
| `!StreamsInOrder` | a receiver decodes a prefix of the messages that were encoded for its connection, unless parts of another one came into the stream | |
| `!NothingIsSkipped` | no message of a frame is left out of the stream of a connection that goes on | |
| `!PoolAgrees` | the pool, the map of addresses and the listener know the same clients | |

**The hypotheses** are where the code keeps a promise only to callers of one kind. Without
any of them the property is false, and section 5 tells how:

* `MayFail = {}`: `OnFailure()` wakes the dependents while `Run()` goes on.
* `MayRefuse = FALSE`: the kernel takes what is submitted.
* `HasRoom`: no task is a weak dependent, or the list of a request has room for all
  tasks. A weak dependency that does not fit is dropped, and its task goes on too early.
* `Skip # "after EndFrame"`: skipping is part of the frame that is skipped.
* `KeepsContract`: a program that skips does it before the end of the frame, as
  `RenderGraph::EndFrame()` does, and no batch is submitted in the mode `Force`. Who does
  not skip leaves a gap in the indices, behind which nothing is submitted; a forced flush
  that fails forgets its batches.

**The assumptions** are named where the constants are declared, and evaluated by the runs.
`TaskSystem`: the null task is no task, sizes are positive, `Inputs` and `Resume` give lists
of dependencies. `TaskQueue`, `IndexedPool`: sizes are positive, seeds are lists, null is no
task, no index and no thread. `AsyncRequest`: `None` is no entry, no request and not the thread
in `ProcessEvents()`. `CommandBatch`: `None` is not a registration, only batches fail. `RenderTaskScheduler`: the main thread, the `EndFrameTask` and the batches
are different from each other and from `None`, two frames at least are in flight, there is a
submit index. `TcpStream`, `TcpChannel`: a header has a part, a body is not longer than
`_maxMsgSize`, the storage has room for more than four messages (`NetConfig`: 1 MB and 1400 bytes), there
is a slot, and the server is no client. Neither the socket nor the number of messages,
clients and connections is bounded, but by being numbers.

**The argument.** Few of these properties are inductive. Every invariant below was checked
with TLC before it was proved; most of them came out of a step that failed.

*Tasks.* `InputsFirst` needs to know why the bits of a task stay set: `IInv` in
`TaskSystemProofs` is

* `TypeInv`: types, and where in the list a thread may be at each label;
* `OwnerInv`: `OneOwner`, and that a task that was not submitted is nowhere;
* `WaitInv`: every entry has its bit set in the task it names and no two entries
  share one (`BitsInv`); every dependency of a task is finished or holds an entry for
  it (`InputsInv`); what a thread has read still means something (`ThreadInv`): the
  bits from `bitIndex` on are all set while it adds dependencies, the wait bits are
  empty while it starts or runs the task, a status it has read as finished is one;
* `LiveInv`: a task that is in a queue, or was not submitted, or is at hand in any step
  before `_OnFinish`, is not finished.

A canceled task is exempt from `WaitInv` (`Dead`): `Continue` and a refused `Run`
leave its bits in any state, which is harmless as it never runs, and is the reason for
`ClearedBitWasSet` in section 5. `IInvStep` has one lemma per part and, under it, one step per
action. `WaitsInv` adds the other half, that nothing waits in vain:

* `LockInv`: who is about to register on a task keeps everybody out who releases it;
* `LateInv`: a thread that has read under the lock that a task is not finished, when it
  has finished since, has to do with `OnFailure()`, which must still take the lock; so
  no entry is late;
* `SourceInv`: every bit that is set is backed by an entry, or is one of those that the
  thread adding dependencies has not handed out yet;
* `ReasonInv`: an entry is an input of the task it names (`EntryInv`), a count of
  canceled dependencies is positive (`CountInv`), and a thread has read a cancellation
  (`CancelingInv`), only for a reason, and a reason stays one.

`RunAfterRun` needs `RunInv`: without `OnFailure()`, no task is finished before its
`Run()` has returned.

*The queue.* A search changes its copy of the count and leaves the chunk's own behind, so
the invariant follows the copies: `LockInv`, one holder per locked chunk; `CountInv`, the
tasks are at the front of the array, as many as the packed word tells, or as the holder's
copy; `ApartInv`, no task in two slots, which moving the last task into the free slot must
keep; `AddInv` and `PlaceInv`, who has the tasks that are in no array. `QueueIsBag` maps an
insertion to the addition, a removal to the start or the cancellation, and all else to a
stutter, also when `OnCancel()` adds a task in the middle of a `Pull`.

*The pool.* `IndexOfPlace` says that an index is taken apart into what it was composed of,
by the fundamental theorem of division; `FirstIsIn` that the lowest element of a set is
one, by well-founded induction. `GiveInv` and `BitsTellHeld` carry `HandedOutOnce`.
`FullIsExact` is false between the steps of an update, so `MarksInv` says who will put a wrong
mark right: a thread that has still to take the lock of the chunk, or has it and has not
looked yet; `GuardInv` says that one thread is behind the lock. `FailsWhenExhausted` needs
`BehindInv`: what a search that nobody overlaps has passed stays assigned, in a group it
has left because of the mark as well, which follows from `MarksInv`.

*Requests.* `RingInv`: the ring is locked for one submission or one look at the
completions. `EntryInv`: an entry is in one place, once, and of the present life of its
request. `RefInv`: the count is the number of those that hold the object, the user and
the kernel, or the completion that has begun. `DepsInv`: a listed task is registered for this life
and was not told. One lemma per action, and one per action for the step of the source it
maps to.

*Batches.* For `CommandBatch`, `BatchInv` adds to the types: `PlaceInv`, what the status is at each
place; `GpuInv`, that the value of the semaphore is reached only by the life it belongs
to; `PastInv`, that every life that is over was executed or given up; `DepsInv`, that a
task in a list is registered for that list in this life or an earlier one and is not
released; `LeftInv`, `LeftBehindOnlyLate` from the moment the list is released. There is
one lemma per part, one step per action. `ImplementsSource` maps each step to the
finish of a source, to a release of some tasks, to a registration, or to a stutter.

*Frames.* The refinement needs no more than types (`RtsInv`): each action
conjoins the actions of the batches it is made of. `FrameBeginsFree` needs `TurnInv`: who
may still set a bit, by the places of the main thread and the `EndFrameTask`.
`FrameMemoryIsFree` says where a batch is *not*, so its invariant `FrameInv` must say where
each one *is*, at every step:

* `AlternateInv`, `TaskInv`: the main thread and the `EndFrameTask` take turns, and a
  render task runs in the frame of its batch and before the `EndFrameTask` begins;
* `EarlyInv`, `ApartInv`: a batch that is not submitted has its index for itself, so
  `Submit` overwrites no entry of the table;
* `GuardInv`, `HandsInv`: one thread at a time flushes, and what it holds is of the
  current frame;
* `SlotInv`, `WhereInv`, `TrackInv`: a batch is in the table, in the hands of a flush, in
  the list of its frame or at hand in the scan, one of them and no other;
* `LookInv`: which frame the main thread looks at, and that its list is empty when the
  next frame begins.

`OrderOnGpu` rests on `FrameInv` and `OrderInv`: a range is behind everything submitted
(`RangeInv`), which the bits know as long as a flush is possible (`SentInv`), and what a
flush has taken is in order and behind what the GPU has (`TakenInv`, `OnceInv`).
`ReadBackAfterGpu` rests on `ReadersInv`: a reader is in the list of the frame of its
batch, or that life is over (`ReadInv`), and the main thread releases the readers of a
frame index only when the list of batches of that index is empty (`ReleaseInv`). There is
one lemma per action, or per group of actions that leave the same things alone.

`NothingDropped` says that a flush that loses a race, or finds its batches not yet pending,
never is the last one. `KeptInv` is why: every required index is pending, or its render task
has still to submit (`PendingInv`); what is submitted are the first indices, without gaps
(`PrefixInv`); the `EndFrameTask` of a frame that has not failed comes to its flush
when all is pending (`EndingInv`); and what is left over at its end is nothing, or the
frame has failed (`LeftoverInv`).

*Channels.* `IInv` in `TcpChannelProofs` is `SlotsAgree`, `NothingSkipped` and

* `TypeInv`: the types;
* `ClientEnds`, `ServerEnds`, `Untouched`: a channel or a slot that has a connection is at an
  open end of it, alone, with its last message in its queue; through an end that nobody has
  opened nothing has gone; a free slot has nothing in its buffer;
* `UpHolds`, `DownHolds`: for a direction of a connection that is not in `mixed`, `Holds`: what
  is decoded is a prefix of what is put on it; the parts in the buffer of the reader and
  under way come next in the stream, part by part (`Stretch`); and with the parts that
  the writer has in its storage they are all that is left of it (`Exact`).

`StreamInOrder` alone says nothing of the parts that are under way, and so is not inductive.
`TcpStreamProofs` has what the operators do to a stream. `HoldsReceive`: whatever a
call of `_ReceiveMessages` takes and decodes, `Holds` remains, by the arithmetic of the
places of parts and messages. `HoldsSend`: so it does for a call of `_SendMessages`, in all
outcomes that leave the connection alive; when it dies what is under way is still a stretch.
`NothingLost`: what the call has put on the stream and what it leaves in the queue are all
the messages of the frame that are for this client. It needs that the choice of the
messages that can be written, or are for a client, distributes over concatenation
(`ChosenConcat`). `Chosen` is therefore defined by a recursive function, and induction over
its domain is replaced by the well-foundedness of inclusion (`EveryNumber`).

The steps are of three kinds. A client's step moves it from a connection to another one or to
none (`Moves`), or talks on the one it has (`Talks`); a step of the server serves some slots
and frees others (`Turns`, `Serves`), so that the begin of a frame, a call of
`DisconnectClient` and the work on one slot have one proof; a socket is given to a slot
(`Admits`), where what the old client of the slot has left in `encoded` makes the stream a
mixed one. `UpdateInv` composes `InFacts`, of what is received, with `OutFacts`, of what is sent.

**Only model-checked:** liveness, which is out of the prover's reach
(`EveryTaskFinishes`, `CancellationSticks`, `EveryTaskLeaves`, `EveryAddReturns`, the fair part
of `RequestSource`, `EveryBatchCompletes`, `ReachesEnd`). Every safety property that a
passing run checks is stated by a theorem.

## 5. Findings

Two runs show the code against a statement of the source:

1. `strong_dep` (`LfTaskQueue.cpp:149`): the count of canceled dependencies is loaded
   before the wait bits; a strong dependency that is canceled in between is missed and
   the dependent task runs.
2. `tcp_spin` (`TcpChannel.cpp:160`): `continue` does not step over a message for another
   client, and `Update()` of the server never returns. With `Targeted = FALSE` the
   property holds.

The following was met as well. It is in the models, and each can be reproduced by a
change of one constant or with an invariant that a module defines but no run checks:

* *Tasks.* `OnFailure()` releases the dependents before `Run()` returns, against
  `TaskScheduler.h:43` (`RunAfterRunOfInputs`, with `MayFail` not empty), and can meet a
  canceled task (`FailureIsNotCanceled`). After a refused submission a dependency clears
  a bit that is clear (`TaskScheduler.cpp:257`, `ClearedBitWasSet`).
* *Pool.* An element of a new chunk can be given back before the chunk is counted
  (`LfIndexedPool.inl.h:217`); `Unassign( ptr )` does not find it and it stays assigned
  (`UnassignSucceeds`).
* *Requests.* If `io_uring_submit()` returns an error, the entry stays in the ring, and the
  kernel gets it with the next submission, when the request is completed as cancelled
  (`MayRefuse = TRUE` violates `CompletesOnce`). A weak dependency that does not fit into
  `_deps` is dropped (`MaxDeps = 1` violates `RequestSource`).
* *Batches.* A task that registers between the release of `_onCompleteDeps` and the change
  of the status is left behind (`CompletedHasNoDeps`). `CmdBatchOnSubmit` counts a batch as
  submitted when it is only pending (`SubmitDepIsAfterSubmit`).
* *Frames.* A forced flush that fails marks its batches as submitted, and they are dropped
  at the end of the frame (`Modes` with `"Force"` violates `NothingDropped`).
  `SkipCmdBatches()` after `EndFrame()` takes the indices of the next frame
  (`Skip = "after EndFrame"` violates `IndexIsFree`).
* *Channels.* `_Disconnect()` keeps `client.encoded`, so the next client of the slot first
  gets the end of a message of the old one, and fails at `ASSERT( header.Magic() ==
  _magicByte )`; an overflow of the receive buffer goes to the next client too (both are
  remembered in `mixed`). The leftover of a correct message can be longer than
  `_maxMsgSize`, by less than a header, and the client is disconnected for it (725). A client that reconnects before the
  server has noticed the loss of its connection gets the same id a second time, against
  `ASSERT( _uniqueClientId.insert( client_id ).second )`; when the old slot goes, the listener
  forgets the id of the new one. A tail that was not sent does not count as
  `incompleteOutput` and waits until a frame with messages (86, 227).

## 6. Not modelled, and why

*Of the modelled components:* `Wait()` and its timeout (it only reads), `_ResetState`,
`Release` at shutdown, the wake-up of threads, and in the pool `Release`, `UnassignAll` and
`ForEachAssigned`, which callers must synchronise. The loser of a race to append a chunk
to a queue deletes its own chunk; the race is one step of the model. Of the requests, the
services for POSIX, BSD and Windows, promises over requests and streams; `Cancel()`, which
finds no ring, has no effect. Of the graphics core, several queues (they share only the
lists of batches of a frame), the path with fences in place of timeline semaphores, draw
batches, the pools of command buffers and staging memory. Of the channels, UDP,
consumers, channels that are not reliable (their iterator to the last sent message
outlives the queue it points into, `TcpChannel.cpp:633`) and destruction.

*Components:* back-ends, windows, audio, video and scripting are bindings of external
libraries and devices whose semantics is not in this repository. Serialising, ECS,
mathematics and containers are sequential code which unit tests reach. Tools, samples and
tests use the engine. What is planned is in 7.

Weak memory orders are not modelled: several accesses are relaxed, and what a weakly
ordered processor adds is beyond these models.

## 7. Plan

Done: `TaskSystem`, `TaskBag`, `TaskQueue`, `IndexedPool`, `AsyncRequest`, `CommandBatch`,
`RenderTaskScheduler`, `TcpStream`, `TcpChannel`, `CompletionSource`, and the safety of all
proved. To prove next: as long as no client reconnects early, the id of a used slot is the
listener's; that tells how far the double id of section 5 reaches. Which calls return at
all is a matter of liveness and stays with TLC.

To model next: `ThreadWakeup` (workers, `Suspend`, `Wakeup`, `Detach`); `AsyncMutex` over the
actions of `TaskSystem`; promises and coroutines as programs of `TaskSystem`; the locks of
`AsyncCSMessageProducer`; the network storage of the VFS; frame and block allocators.
