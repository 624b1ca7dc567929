------------------------------ MODULE TaskQueue ------------------------------
(***************************************************************************)
(* LfTaskQueue: lists of chunks, each an array of tasks under a spinlock   *)
(* that is packed into one word with the number of the tasks and the place *)
(* where the last search ended (threading/TaskSystem/LfTaskQueue.cpp).     *)
(* Who meets a locked chunk goes on to the next one.  OnCancel() of a task *)
(* is called under the lock of its chunk, and may submit another task.     *)
(*                                                                         *)
(* A step is one access to a shared word, or one call of _RemoveTask under *)
(* the lock.  What the task's own counters say is inputsOf; module         *)
(* TaskSystem shows how it comes about.                                    *)
(***************************************************************************)
EXTENDS Integers

CONSTANTS
    Task, Thread,
    NoTask,
    MaxChunks,      \* lists of chunks, 2 in the code
    TasksPerChunk,  \* 126 in the code
    MaxDepth,       \* depth at which no chunk is added, 512 in the code
    Seed,           \* EThreadSeed: the list a thread looks at first
    Submits         \* Submits[t]: the tasks OnCancel() of t may submit

ASSUME QueueAssumption ==
    /\ NoTask \notin Task
    /\ MaxChunks \in Nat \ {0} /\ TasksPerChunk \in Nat \ {0}
    /\ MaxDepth \in Nat
    /\ Seed \in [Thread -> Nat]
    /\ Submits \in [Task -> SUBSET Task]

Chunk == (0..(MaxChunks - 1)) \X (0..MaxDepth)

VARIABLES
    packed,     \* PackedBits of every chunk
    array,      \* the tasks of every chunk
    depthOf,    \* of every list: the depth of its last chunk
    addPc, addTask, addAt,
                \* of every thread: where it is in Add, task and place
    pullPc, pullAt,
                \* of every thread: where it is in Pull, the place
    pos, count, \* local: the packed values, as the search changes them
    second,     \* local: in the second loop, over the front of the array
    pulled,     \* local: the task found
    called,     \* history: the tasks Add() was called for
    ran, dropped, inputsOf  \* as in TaskBag

queueVars == <<packed, array, depthOf>>
addVars == <<addPc, addTask, addAt>>
pullVars == <<pullPc, pullAt, pos, count, second, pulled>>
history == <<called, ran, dropped, inputsOf>>
vars == <<queueVars, addVars, pullVars, history>>

Init ==
    /\ packed = [c \in Chunk |-> [locked |-> FALSE, pos |-> 0, count |-> 0]]
    /\ array = [c \in Chunk |-> [i \in 0..(TasksPerChunk - 1) |-> NoTask]]
    /\ depthOf = [j \in 0..(MaxChunks - 1) |-> 0]
    /\ addPc = [p \in Thread |-> "none"]
    /\ addTask = [p \in Thread |-> NoTask]
    /\ addAt = [p \in Thread |-> <<0, 0>>]
    /\ pullPc = [p \in Thread |-> "idle"]
    /\ pullAt = [p \in Thread |-> <<0, 0>>]
    /\ pos = [p \in Thread |-> 0]
    /\ count = [p \in Thread |-> 0]
    /\ second = [p \in Thread |-> FALSE]
    /\ pulled = [p \in Thread |-> NoTask]
    /\ called = {} /\ ran = {} /\ dropped = {}
    /\ inputsOf = [t \in Task |-> "waiting"]

\* The chunk a thread is at, when it has passed at[1] lists and at[2] chunks.
ChunkAt(p, at) == <<(at[1] + Seed[p]) % MaxChunks, at[2]>>

IsLocked(c) == packed[c].locked

Locked(c) == packed' = [packed EXCEPT ![c].locked = TRUE]

-----------------------------------------------------------------------------
(* Add                                                                     *)

StartAdd(p, t) ==
    /\ called' = called \union {t}
    /\ addPc' = [addPc EXCEPT ![p] = "try"]
    /\ addTask' = [addTask EXCEPT ![p] = t]
    /\ addAt' = [addAt EXCEPT ![p] = <<0, 0>>]

\* A thread outside the queue adds a task.
CallAdd(p, t) ==
    /\ addPc[p] = "none" /\ pullPc[p] = "idle"
    /\ t \notin called
    /\ StartAdd(p, t)
    /\ UNCHANGED <<queueVars, pullVars, ran, dropped, inputsOf>>

MayLock_Bug(c) == TRUE

\* The compare-and-swap of the packed word succeeds.
MayLock(c) == ~IsLocked(c)

AddLock(p) ==
    /\ addPc[p] = "try"
    /\ LET c == ChunkAt(p, addAt[p]) IN MayLock(c) /\ Locked(c)
    /\ addPc' = [addPc EXCEPT ![p] = "insert"]
    /\ UNCHANGED <<array, depthOf, addTask, addAt, pullVars, history>>

\* The chunk is locked by another thread, or by this one, in OnCancel(); or the
\* word was changed by others SpinlockWaitCount times.
AddSkip(p) ==
    /\ addPc[p] = "try"
    /\ addPc' = [addPc EXCEPT ![p] = "next"]
    /\ UNCHANGED <<queueVars, addTask, addAt, pullVars, history>>

HasRoom(n) == n < TasksPerChunk

\* There is room: insert the task, unlock, return.
Insert(p) ==
    /\ addPc[p] = "insert"
    /\ LET c == ChunkAt(p, addAt[p])
           n == packed[c].count
       IN /\ HasRoom(n)
          /\ array' = [array EXCEPT ![c][n] = addTask[p]]
          /\ packed' = [packed EXCEPT ![c].locked = FALSE, ![c].count = n + 1]
    /\ addPc' = [addPc EXCEPT ![p] = "none"]
    /\ addTask' = [addTask EXCEPT ![p] = NoTask]
    /\ addAt' = [addAt EXCEPT ![p] = <<0, 0>>]
    /\ UNCHANGED <<depthOf, pullVars, history>>

ChunkFull(p) ==
    /\ addPc[p] = "insert"
    /\ LET c == ChunkAt(p, addAt[p])
       IN /\ ~HasRoom(packed[c].count)
          /\ packed' = [packed EXCEPT ![c].locked = FALSE]
    /\ addPc' = [addPc EXCEPT ![p] = "next"]
    /\ UNCHANGED <<array, depthOf, addTask, addAt, pullVars, history>>

\* The next chunk, a new one if there is none; another thread may just have
\* added it.
NextChunk(p) ==
    /\ addPc[p] = "next"
    /\ LET j == ChunkAt(p, addAt[p])[1]
           d == addAt[p][2] + 1
       IN /\ d <= MaxDepth
          /\ depthOf' = [depthOf EXCEPT ![j] = IF d > @ THEN d ELSE @]
    /\ addAt' = [addAt EXCEPT ![p][2] = @ + 1]
    /\ addPc' = [addPc EXCEPT ![p] = "try"]
    /\ UNCHANGED <<packed, array, addTask, pullVars, history>>

NextList_Bug(n) == n

NextList(n) == (n + 1) % MaxChunks

\* The list is full: the next list, from the first again after the last.
Overflow(p) ==
    /\ addPc[p] = "next"
    /\ addAt[p][2] >= MaxDepth
    /\ addAt' = [addAt EXCEPT ![p] = <<NextList(@[1]), 0>>]
    /\ addPc' = [addPc EXCEPT ![p] = "try"]
    /\ UNCHANGED <<queueVars, addTask, pullVars, history>>

-----------------------------------------------------------------------------
(* Pull                                                                    *)

Goto(p, l) == pullPc' = [pullPc EXCEPT ![p] = l]

CallPull(p) ==
    /\ pullPc[p] = "idle" /\ addPc[p] = "none"
    /\ Goto(p, "load")
    /\ UNCHANGED <<queueVars, addVars, pullAt, pos, count, second, pulled, history>>

\* Nothing in the chunk: the next one.
Load(p) ==
    /\ pullPc[p] = "load"
    /\ Goto(p, IF packed[ChunkAt(p, pullAt[p])].count = 0 THEN "next" ELSE "try")
    /\ UNCHANGED <<queueVars, addVars, pullAt, pos, count, second, pulled,
                   history>>

\* As in AddSkip.
PullSkip(p) ==
    /\ pullPc[p] = "try"
    /\ Goto(p, "next")
    /\ UNCHANGED <<queueVars, addVars, pullAt, pos, count, second, pulled,
                   history>>

\* The word may have changed since it was loaded: the chunk may be empty by now.
PullLock(p) ==
    /\ pullPc[p] = "try"
    /\ LET c == ChunkAt(p, pullAt[p])
       IN /\ MayLock(c) /\ Locked(c)
          /\ pos' = [pos EXCEPT ![p] = packed[c].pos]
          /\ count' = [count EXCEPT ![p] = packed[c].count]
    /\ Goto(p, "scan")
    /\ UNCHANGED <<array, depthOf, addVars, pullAt, second, pulled, history>>

\* start_pos: where the search began, or the end of what is left.
StartPos(oldPos, n) == IF oldPos < n THEN oldPos ELSE n

\* Where the loop the thread is in ends.
ScanEnd(p) == IF second[p]
              THEN StartPos(packed[ChunkAt(p, pullAt[p])].pos, count[p])
              ELSE count[p]

Scanning(p) ==
    /\ pullPc[p] = "scan" /\ addPc[p] = "none" /\ pulled[p] = NoTask
    /\ pos[p] < ScanEnd(p)

Current(p) == array[ChunkAt(p, pullAt[p])][pos[p]]

Removed_Bug(a, i, n) == [a EXCEPT ![i] = NoTask]

\* The last task takes the place of the one that is removed.
Removed(a, i, n) == [a EXCEPT ![i] = a[n - 1], ![n - 1] = NoTask]

RemoveCurrent(p) ==
    LET c == ChunkAt(p, pullAt[p]) IN
    /\ array' = [array EXCEPT ![c] = Removed(@, pos[p], count[p])]
    /\ count' = [count EXCEPT ![p] = @ - 1]

\* _RemoveTask: the inputs are not complete.
KeepTask(p) ==
    /\ Scanning(p) /\ inputsOf[Current(p)] = "waiting"
    /\ pos' = [pos EXCEPT ![p] = @ + 1]
    /\ UNCHANGED <<queueVars, addVars, pullPc, pullAt, count, second, pulled,
                   history>>

\* _RemoveTask: the task is taken, to be run.
TakeTask(p) ==
    /\ Scanning(p) /\ inputsOf[Current(p)] = "ready"
    /\ pulled' = [pulled EXCEPT ![p] = Current(p)]
    /\ ran' = ran \union {Current(p)}
    /\ RemoveCurrent(p)
    /\ UNCHANGED <<packed, depthOf, addVars, pullPc, pullAt, pos, second,
                   called, dropped, inputsOf>>

\* _RemoveTask: the task is canceled; the search goes on behind it.
DropTask(p) ==
    /\ Scanning(p) /\ inputsOf[Current(p)] = "canceled"
    /\ dropped' = dropped \union {Current(p)}
    /\ RemoveCurrent(p)
    /\ pos' = [pos EXCEPT ![p] = @ + 1]
    /\ \/ \E t \in Submits[Current(p)] \ called : StartAdd(p, t)
       \/ UNCHANGED <<addVars, called>>
    /\ UNCHANGED <<packed, depthOf, pullPc, pullAt, second, pulled,
                   ran, inputsOf>>

\* Nothing found up to the end: search the front.
Wrap(p) ==
    /\ pullPc[p] = "scan" /\ addPc[p] = "none" /\ pulled[p] = NoTask
    /\ ~second[p] /\ pos[p] >= ScanEnd(p)
    /\ second' = [second EXCEPT ![p] = TRUE]
    /\ pos' = [pos EXCEPT ![p] = 0]
    /\ UNCHANGED <<queueVars, addVars, pullPc, pullAt, count, pulled, history>>

\* Unlock, with the new position and count.  Return with the task, or go on.
Unlock(p) ==
    /\ pullPc[p] = "scan" /\ addPc[p] = "none"
    /\ pulled[p] # NoTask \/ (second[p] /\ pos[p] >= ScanEnd(p))
    /\ packed' = [packed EXCEPT ![ChunkAt(p, pullAt[p])] =
                     [locked |-> FALSE, pos |-> pos[p], count |-> count[p]]]
    /\ IF pulled[p] = NoTask
       THEN Goto(p, "next") /\ UNCHANGED pullAt
       ELSE Goto(p, "idle") /\ pullAt' = [pullAt EXCEPT ![p] = <<0, 0>>]
    /\ pulled' = [pulled EXCEPT ![p] = NoTask]
    /\ pos' = [pos EXCEPT ![p] = 0]
    /\ count' = [count EXCEPT ![p] = 0]
    /\ second' = [second EXCEPT ![p] = FALSE]
    /\ UNCHANGED <<array, depthOf, addVars, history>>

IsLastList_Bug(n) == n + 2 >= MaxChunks

IsLastList(n) == n + 1 >= MaxChunks

\* The next chunk, the next list, or the end: null is returned.
PullNext(p) ==
    /\ pullPc[p] = "next"
    /\ LET n == pullAt[p][1]
           d == pullAt[p][2]
       IN IF d < depthOf[ChunkAt(p, pullAt[p])[1]]
          THEN /\ pullAt' = [pullAt EXCEPT ![p] = <<n, d + 1>>]
               /\ Goto(p, "load")
          ELSE IF IsLastList(n)
          THEN /\ pullAt' = [pullAt EXCEPT ![p] = <<0, 0>>]
               /\ Goto(p, "idle")
          ELSE /\ pullAt' = [pullAt EXCEPT ![p] = <<n + 1, 0>>]
               /\ Goto(p, "load")
    /\ UNCHANGED <<queueVars, addVars, pos, count, second, pulled, history>>

-----------------------------------------------------------------------------

\* The last dependency is released, or the task is canceled, at any time.
Change(t, r) ==
    /\ <<inputsOf[t], r>> \in {<<"waiting", "ready">>, <<"waiting", "canceled">>,
                              <<"ready", "canceled">>}
    /\ inputsOf' = [inputsOf EXCEPT ![t] = r]
    /\ UNCHANGED <<queueVars, addVars, pullVars, called, ran, dropped>>

AddStep(p) == \/ AddLock(p) \/ AddSkip(p) \/ Insert(p) \/ ChunkFull(p)
              \/ NextChunk(p) \/ Overflow(p)

PullStep(p) == \/ Load(p) \/ PullSkip(p) \/ PullLock(p) \/ KeepTask(p)
               \/ TakeTask(p) \/ DropTask(p) \/ Wrap(p) \/ Unlock(p) \/ PullNext(p)

Next ==
    \/ \E p \in Thread : AddStep(p) \/ PullStep(p) \/ CallPull(p)
    \/ \E p \in Thread, t \in Task : CallAdd(p, t)
    \/ \E t \in Task, r \in {"ready", "canceled"} : Change(t, r)

Spec == Init /\ [][Next]_vars

\* A thread in Add or Pull goes on, and every thread calls Pull again and again.
Fairness == \A p \in Thread : /\ WF_vars(AddStep(p))
                              /\ WF_vars(PullStep(p))
                              /\ WF_vars(CallPull(p))

\* A lock is held for a short time, and the threads sleep between two rounds:
\* none meets the same chunk locked, or its word changed, whenever it comes there.
PatientSpec ==
    /\ Spec /\ Fairness
    /\ \A p \in Thread, c \in Chunk : /\ SF_vars(AddLock(p) /\ ChunkAt(p, addAt[p]) = c)
                                     /\ SF_vars(PullLock(p) /\ ChunkAt(p, pullAt[p]) = c)

-----------------------------------------------------------------------------
(* Properties                                                              *)

TypeOK ==
    /\ packed \in [Chunk -> [locked : BOOLEAN, pos : 0..TasksPerChunk,
                             count : 0..TasksPerChunk]]
    /\ array \in [Chunk -> [0..(TasksPerChunk - 1) -> Task \union {NoTask}]]
    /\ depthOf \in [0..(MaxChunks - 1) -> 0..MaxDepth]
    /\ addPc \in [Thread -> {"none", "try", "insert", "next"}]
    /\ pullPc \in [Thread -> {"idle", "load", "try", "scan", "next"}]
    /\ addTask \in [Thread -> Task \union {NoTask}]
    /\ pulled \in [Thread -> Task \union {NoTask}]
    /\ pos \in [Thread -> 0..TasksPerChunk]
    /\ count \in [Thread -> 0..TasksPerChunk]
    /\ second \in [Thread -> BOOLEAN]

\* The tasks in the arrays.
Queued == {t \in Task : \E c \in Chunk : \E i \in DOMAIN array[c] : array[c][i] = t}

\* The number of the tasks in a chunk is the one in the packed word, or the
\* local one of the thread that searches it.
Holder(p, c) == pullPc[p] = "scan" /\ ChunkAt(p, pullAt[p]) = c

\* Tasks are packed at the front of their array, without a gap: the count alone
\* says where they are, whatever was removed and whoever is searching.  (Release()
\* and Pull rely on it.)
NoGap ==
    \A c \in Chunk : \A i \in DOMAIN array[c] : array[c][i] # NoTask <=>
        \/ (\E p \in Thread : Holder(p, c) /\ i < count[p])
        \/ (\A p \in Thread : ~Holder(p, c)) /\ i < packed[c].count

\* A task is in one place: a slot of one array, the hands of the thread that adds
\* it, those that run it or the canceled ones.  None gets lost, none is twice in
\* the queue.
Slots(t) == {s \in Chunk \X (0..(TasksPerChunk - 1)) : array[s[1]][s[2]] = t}

Places(t) ==
    Slots(t) \union {<<"add", p>> : p \in {q \in Thread : addTask[q] = t}}
             \union {<<"ran", r>> : r \in {t} \intersect ran}
             \union {<<"dropped", r>> : r \in {t} \intersect dropped}

OnePlace == \A t \in called : \E x \in Places(t) : Places(t) = {x}

\* The queue implements the bag of tasks that TaskSystem uses.
Bag == INSTANCE TaskBag WITH queued <- Queued

ImplementsBag == Bag!Spec

\* Every task that is ready or canceled leaves the queue, however the searches
\* and the lists they begin with meet: no position is left out for ever.
EveryTaskLeaves ==
    \A t \in Task : t \in Queued /\ inputsOf[t] # "waiting" ~> t \notin Queued

\* Add() returns, also when it is called in OnCancel(), under a lock of the
\* queue, as long as the other chunks have room.
EveryAddReturns == \A p \in Thread : addPc[p] # "none" ~> addPc[p] = "none"
=============================================================================
