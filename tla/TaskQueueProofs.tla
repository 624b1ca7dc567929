---------------------------- MODULE TaskQueueProofs ----------------------------
(***************************************************************************)
(* Proofs about TaskQueue, for every number of threads, tasks, lists and   *)
(* chunks, every seed of the threads and whatever OnCancel() submits: the  *)
(* count of a chunk tells where its tasks are, no task is lost or doubled, *)
(* and the queue is the bag of tasks that TaskSystem takes it for.         *)
(***************************************************************************)
EXTENDS TaskQueue, TLAPS

Slot == 0..(TasksPerChunk - 1)

At == (0..(MaxChunks - 1)) \X (0..MaxDepth)

TypeInv ==
    /\ TypeOK
    /\ addAt \in [Thread -> At] /\ pullAt \in [Thread -> At]
    /\ called \subseteq Task /\ ran \subseteq Task /\ dropped \subseteq Task
    /\ inputsOf \in [Task -> {"waiting", "ready", "canceled"}]

AddHolds(p, c) == addPc[p] = "insert" /\ ChunkAt(p, addAt[p]) = c

\* A chunk is locked when it is held, by one Add or by one Pull.
LockInv ==
    \A c \in Chunk : \A p, q \in Thread :
        /\ AddHolds(p, c) \/ Holder(p, c) => IsLocked(c)
        /\ AddHolds(p, c) /\ AddHolds(q, c) => p = q
        /\ Holder(p, c) /\ Holder(q, c) => p = q
        /\ ~(AddHolds(p, c) /\ Holder(q, c))

\* The n tasks of a chunk are at its front.
Packed(c, n) == \A i \in Slot : array[c][i] # NoTask <=> i < n

CountInv ==
    \A c \in Chunk :
        /\ (\A p \in Thread : ~Holder(p, c)) => Packed(c, packed[c].count)
        /\ \A p \in Thread : Holder(p, c) => Packed(c, count[p])

\* No task is in two slots.
ApartInv ==
    \A c, d \in Chunk : \A i, j \in Slot :
        array[c][i] = array[d][j] /\ array[c][i] # NoTask => c = d /\ i = j

\* The task of an Add() is in the hands of one thread.
AddInv ==
    /\ \A p \in Thread : addTask[p] = NoTask <=> addPc[p] = "none"
    /\ \A p, q \in Thread : addTask[p] = addTask[q] /\ addPc[p] # "none" => p = q

Adding(t) == \E p \in Thread : addTask[p] = t

\* Whatever Add() was called for is in exactly one place.
PlaceInv ==
    \A t \in Task :
        /\ t \in called <=> t \in Queued \/ Adding(t) \/ t \in ran \/ t \in dropped
        /\ t \in Queued => ~Adding(t) /\ t \notin ran /\ t \notin dropped
        /\ Adding(t) => t \notin ran /\ t \notin dropped
        /\ t \notin ran \intersect dropped

IInv == TypeInv /\ LockInv /\ CountInv /\ ApartInv /\ AddInv /\ PlaceInv
-----------------------------------------------------------------------------
(* Chunks                                                                  *)

LEMMA ModRange ==
    ASSUME NEW a \in Nat, NEW n \in Nat \ {0}
    PROVE  a % n \in 0..(n - 1)
OBVIOUS

LEMMA ChunkAtType ==
    ASSUME NEW p \in Thread, NEW at \in At
    PROVE  ChunkAt(p, at) \in Chunk
<1>1. at[1] \in 0..(MaxChunks - 1) /\ at[2] \in 0..MaxDepth
  BY DEF At
<1>2. at[1] + Seed[p] \in Nat /\ MaxChunks \in Nat \ {0}
  BY <1>1, QueueAssumption
<1>3. (at[1] + Seed[p]) % MaxChunks \in 0..(MaxChunks - 1)
  BY <1>2, ModRange
<1> QED
  BY <1>1, <1>3 DEF ChunkAt, Chunk

LEMMA FirstAt == <<0, 0>> \in At
BY QueueAssumption DEF At

\* The next chunk of a list.
LEMMA DeeperAt ==
    ASSUME NEW at \in At, at[2] + 1 <= MaxDepth
    PROVE  [at EXCEPT ![2] = @ + 1] \in At
<1>1. PICK a \in 0..(MaxChunks - 1), d \in 0..MaxDepth : at = <<a, d>>
  BY DEF At
<1>2. [at EXCEPT ![2] = @ + 1] = <<a, d + 1>>
  BY <1>1
<1>3. d + 1 \in 0..MaxDepth
  BY <1>1, QueueAssumption
<1> QED
  BY <1>2, <1>3 DEF At

\* The holders of the chunks are the same, and so are the locks.
SameLocks ==
    /\ packed' = packed
    /\ \A c \in Chunk : \A p \in Thread :
        /\ AddHolds(p, c)' <=> AddHolds(p, c)
        /\ Holder(p, c)' <=> Holder(p, c)
        /\ Holder(p, c) => count'[p] = count[p]

\* No task changes its place.
SamePlaces ==
    /\ UNCHANGED <<called, addTask, ran, dropped>>
    /\ \A p \in Thread : addPc'[p] = "none" <=> addPc[p] = "none"

LEMMA LocksKept ==
    ASSUME IInv, SameLocks, UNCHANGED array
    PROVE  LockInv' /\ CountInv'
<1>1. LockInv'
  BY DEF IInv, LockInv, SameLocks, IsLocked
<1>2. CountInv'
  <2> SUFFICES ASSUME NEW c \in Chunk
               PROVE  /\ (\A p \in Thread : ~Holder(p, c)')
                            => Packed(c, packed[c].count)'
                      /\ \A p \in Thread : Holder(p, c)' => Packed(c, count[p])'
    BY DEF CountInv
  <2>1. packed'[c] = packed[c]
        /\ \A p \in Thread : /\ Holder(p, c)' <=> Holder(p, c)
                             /\ Holder(p, c) => count'[p] = count[p]
    BY DEF SameLocks, IInv, LockInv
  <2>2. /\ (\A p \in Thread : ~Holder(p, c)) => Packed(c, packed[c].count)
        /\ \A p \in Thread : Holder(p, c) => Packed(c, count[p])
    BY DEF IInv, CountInv
  <2> QED
    BY <2>1, <2>2 DEF Packed
<1> QED
  BY <1>1, <1>2

LEMMA PlacesKept ==
    ASSUME IInv, SamePlaces, UNCHANGED array
    PROVE  ApartInv' /\ AddInv' /\ PlaceInv'
<1>1. ApartInv'
  BY DEF IInv, ApartInv
<1>2. AddInv'
  BY DEF IInv, AddInv, SamePlaces
<1>3. PlaceInv'
  BY DEF IInv, PlaceInv, SamePlaces, Queued, Adding
<1> QED
  BY <1>1, <1>2, <1>3

\* A thread that has passed its search goes on, and nothing else happens.
QuietAdd(p) == AddSkip(p) \/ NextChunk(p) \/ Overflow(p)

QuietPull(p) == CallPull(p) \/ Load(p) \/ PullSkip(p) \/ PullNext(p)

LEMMA QuietAddStep ==
    ASSUME IInv, NEW p \in Thread, QuietAdd(p)
    PROVE  IInv'
<1>1. /\ addPc[p] \in {"try", "next"} /\ addPc'[p] \in {"try", "next"}
      /\ addPc' = [addPc EXCEPT ![p] = addPc'[p]]
      /\ UNCHANGED <<packed, array, addTask, pullVars, history>>
  BY DEF QuietAdd, AddSkip, NextChunk, Overflow, queueVars, IInv, TypeInv, TypeOK
<1>2. addAt'[p] \in At /\ addAt' = [addAt EXCEPT ![p] = addAt'[p]]
  <2>1. addAt[p] \in At /\ addAt \in [Thread -> At]
    BY DEF IInv, TypeInv
  <2>2. CASE AddSkip(p)
    BY <2>1, <2>2 DEF AddSkip
  <2>3. CASE NextChunk(p)
    BY <2>1, <2>3, DeeperAt DEF NextChunk
  <2>4. CASE Overflow(p)
    <3>1. addAt[p][1] + 1 \in Nat
      BY <2>1 DEF At
    <3>2. NextList(addAt[p][1]) \in 0..(MaxChunks - 1)
      BY <3>1, ModRange, QueueAssumption DEF NextList
    <3>3. <<NextList(addAt[p][1]), 0>> \in At
      BY <3>2, QueueAssumption DEF At
    <3>4. addAt' = [addAt EXCEPT ![p] = <<NextList(addAt[p][1]), 0>>]
      BY <2>4 DEF Overflow
    <3> QED
      BY <2>1, <3>3, <3>4
  <2> QED
    BY <2>2, <2>3, <2>4 DEF QuietAdd
<1>3. depthOf' \in [0..(MaxChunks - 1) -> 0..MaxDepth]
  <2>1. depthOf \in [0..(MaxChunks - 1) -> 0..MaxDepth]
    BY DEF IInv, TypeInv, TypeOK
  <2>2. CASE NextChunk(p)
    <3>1. addAt[p] \in At /\ addAt[p][2] + 1 \in Nat
      BY DEF IInv, TypeInv, At
    <3>2. PICK j : depthOf' = [depthOf EXCEPT ![j] =
                                  IF addAt[p][2] + 1 > @ THEN addAt[p][2] + 1 ELSE @]
      BY <2>2 DEF NextChunk
    <3>3. addAt[p][2] + 1 <= MaxDepth
      BY <2>2 DEF NextChunk
    <3>4. \A k \in 0..(MaxChunks - 1) :
            depthOf'[k] \in {depthOf[k], addAt[p][2] + 1}
      BY <2>1, <3>2
    <3>5. addAt[p][2] + 1 \in 0..MaxDepth
      BY <3>1, <3>3, QueueAssumption
    <3> QED
      BY <2>1, <3>2, <3>4, <3>5
  <2>3. CASE ~NextChunk(p)
    BY <2>1, <2>3 DEF QuietAdd, AddSkip, Overflow, queueVars
  <2> QED
    BY <2>2, <2>3
<1>4. TypeInv'
  BY <1>1, <1>2, <1>3 DEF IInv, TypeInv, TypeOK, pullVars, history
<1>5. SameLocks
  BY <1>1, <1>2 DEF SameLocks, AddHolds, Holder, pullVars, IInv, TypeInv, TypeOK
<1>6. SamePlaces
  BY <1>1 DEF SamePlaces, history, IInv, TypeInv, TypeOK
<1> QED
  BY <1>1, <1>4, <1>5, <1>6, LocksKept, PlacesKept DEF IInv

LEMMA QuietPullStep ==
    ASSUME IInv, NEW p \in Thread, QuietPull(p)
    PROVE  IInv'
<1>1. /\ pullPc[p] # "scan" /\ pullPc'[p] \in {"idle", "load", "try", "next"}
      /\ pullPc' = [pullPc EXCEPT ![p] = pullPc'[p]]
      /\ UNCHANGED <<packed, array, depthOf, addPc, addTask, addAt, pos, count,
                     second, pulled, history>>
  BY DEF QuietPull, CallPull, Load, PullSkip, PullNext, Goto, IInv, TypeInv, TypeOK,
         queueVars, addVars
<1>2. pullAt'[p] \in At /\ pullAt' = [pullAt EXCEPT ![p] = pullAt'[p]]
  <2>1. pullAt[p] \in At /\ pullAt \in [Thread -> At]
    BY DEF IInv, TypeInv
  <2>2. CASE ~PullNext(p)
    BY <2>1, <2>2 DEF QuietPull, CallPull, Load, PullSkip
  <2>3. CASE PullNext(p)
    <3> DEFINE n == pullAt[p][1]
               d == pullAt[p][2]
    <3>1. n \in 0..(MaxChunks - 1) /\ d \in 0..MaxDepth
      BY <2>1 DEF At
    <3>2. depthOf[ChunkAt(p, pullAt[p])[1]] \in 0..MaxDepth
      <4>1. ChunkAt(p, pullAt[p])[1] \in 0..(MaxChunks - 1)
        BY <2>1, ChunkAtType DEF Chunk
      <4> QED
        BY <4>1 DEF IInv, TypeInv, TypeOK
    <3>3. \/ d < depthOf[ChunkAt(p, pullAt[p])[1]]
             /\ pullAt' = [pullAt EXCEPT ![p] = <<n, d + 1>>]
          \/ pullAt' = [pullAt EXCEPT ![p] = <<0, 0>>]
          \/ n + 1 < MaxChunks /\ pullAt' = [pullAt EXCEPT ![p] = <<n + 1, 0>>]
      BY <2>3, <3>1, QueueAssumption DEF PullNext, IsLastList
    <3>4. /\ d < depthOf[ChunkAt(p, pullAt[p])[1]] => <<n, d + 1>> \in At
          /\ n + 1 < MaxChunks => <<n + 1, 0>> \in At
      BY <3>1, <3>2, QueueAssumption DEF At
    <3> QED
      BY <2>1, <3>3, <3>4, FirstAt
  <2> QED
    BY <2>2, <2>3
<1>3. TypeInv'
  <2>1. TypeOK'
    BY <1>1 DEF IInv, TypeInv, TypeOK
  <2> QED
    BY <1>1, <1>2, <2>1 DEF IInv, TypeInv, history
<1>4. SameLocks
  BY <1>1, <1>2 DEF SameLocks, AddHolds, Holder, IInv, TypeInv, TypeOK
<1>5. SamePlaces
  BY <1>1 DEF SamePlaces, history
<1> QED
  BY <1>1, <1>3, <1>4, <1>5, LocksKept, PlacesKept DEF IInv

\* A task may become ready or canceled at any time.
LEMMA ChangeStep ==
    ASSUME IInv, NEW t \in Task, NEW r \in {"ready", "canceled"}, Change(t, r)
    PROVE  IInv'
<1>1. /\ inputsOf' = [inputsOf EXCEPT ![t] = r]
      /\ UNCHANGED <<queueVars, addVars, pullVars, called, ran, dropped>>
  BY DEF Change
<1>2. TypeInv'
  BY <1>1 DEF IInv, TypeInv, TypeOK, queueVars, addVars, pullVars
<1>3. SameLocks /\ SamePlaces
  BY <1>1 DEF SameLocks, SamePlaces, AddHolds, Holder, queueVars, addVars, pullVars
<1> QED
  BY <1>1, <1>2, <1>3, LocksKept, PlacesKept DEF IInv, queueVars
-----------------------------------------------------------------------------
(* Add                                                                     *)

\* A thread takes a task that Add() was never called for.
LEMMA StartFacts ==
    ASSUME IInv, NEW p \in Thread, NEW t \in Task \ called, addPc[p] = "none",
           StartAdd(p, t)
    PROVE  /\ AddInv'
           /\ called' = called \union {t}
           /\ \A u \in Task : Adding(u)' <=> Adding(u) \/ u = t
<1>1. /\ called' = called \union {t}
      /\ addPc'[p] = "try" /\ addTask'[p] = t
      /\ \A q \in Thread \ {p} : addPc'[q] = addPc[q] /\ addTask'[q] = addTask[q]
  BY DEF StartAdd, IInv, TypeInv, TypeOK
<1>2. \A q \in Thread : addTask[q] # t
  BY DEF IInv, PlaceInv, Adding
<1>3. t # NoTask /\ addTask[p] = NoTask
  BY QueueAssumption DEF IInv, AddInv
<1>4. AddInv'
  BY <1>1, <1>2, <1>3 DEF IInv, AddInv
<1>5. \A u \in Task : Adding(u)' <=> Adding(u) \/ u = t
  BY <1>1, <1>3, QueueAssumption DEF Adding
<1> QED
  BY <1>1, <1>4, <1>5

LEMMA CallAddStep ==
    ASSUME IInv, NEW p \in Thread, NEW t \in Task, CallAdd(p, t)
    PROVE  IInv'
<1>1. /\ addPc[p] = "none" /\ t \notin called /\ StartAdd(p, t)
      /\ UNCHANGED <<queueVars, pullVars, ran, dropped, inputsOf>>
  BY DEF CallAdd
<1>2. TypeInv'
  BY <1>1, FirstAt DEF StartAdd, IInv, TypeInv, TypeOK, queueVars, pullVars
<1>3. SameLocks
  BY <1>1 DEF StartAdd, SameLocks, AddHolds, Holder, queueVars, pullVars, IInv,
              TypeInv, TypeOK
<1>4. ApartInv' /\ Queued' = Queued
  BY <1>1 DEF IInv, ApartInv, Queued, queueVars
<1>5. AddInv' /\ PlaceInv'
  <2>1. /\ AddInv' /\ called' = called \union {t}
        /\ \A u \in Task : Adding(u)' <=> Adding(u) \/ u = t
    BY <1>1, StartFacts
  <2> QED
    BY <1>1, <1>4, <2>1 DEF IInv, PlaceInv
<1> QED
  BY <1>1, <1>2, <1>3, <1>4, <1>5, LocksKept DEF IInv, queueVars

\* Who locks a chunk is its only holder.
LEMMA Unheld ==
    ASSUME IInv, NEW c \in Chunk, ~IsLocked(c), NEW p \in Thread
    PROVE  ~AddHolds(p, c) /\ ~Holder(p, c)
BY DEF IInv, LockInv

LEMMA AddLockStep ==
    ASSUME IInv, NEW p \in Thread, AddLock(p)
    PROVE  IInv'
<1> DEFINE c == ChunkAt(p, addAt[p])
<1>1. /\ addPc[p] = "try" /\ addPc' = [addPc EXCEPT ![p] = "insert"]
      /\ ~IsLocked(c) /\ packed' = [packed EXCEPT ![c].locked = TRUE]
      /\ UNCHANGED <<array, depthOf, addTask, addAt, pullVars, history>>
  BY DEF AddLock, MayLock, Locked
<1>2. c \in Chunk /\ addAt[p] \in At
  BY ChunkAtType DEF IInv, TypeInv
<1>3. TypeInv'
  BY <1>1 DEF IInv, TypeInv, TypeOK, pullVars, history
<1>4. PICK d \in Chunk : d = c
  BY <1>2
<1>5. /\ packed'[d].locked = TRUE /\ packed'[d].count = packed[d].count
      /\ \A x \in Chunk \ {d} : packed'[x] = packed[x]
  BY <1>1, <1>4 DEF IInv, TypeInv, TypeOK
<1>6. \A x \in Chunk : \A q \in Thread :
        /\ AddHolds(q, x)' <=> AddHolds(q, x) \/ (q = p /\ x = d)
        /\ Holder(q, x)' <=> Holder(q, x)
  BY <1>1, <1>4 DEF AddHolds, Holder, pullVars, IInv, TypeInv, TypeOK
<1>7. LockInv'
  BY <1>1, <1>4, <1>5, <1>6, Unheld DEF IInv, LockInv, IsLocked
<1>8. CountInv'
  <2>1. \A x \in Chunk : packed'[x].count = packed[x].count
    BY <1>5
  <2> QED
    BY <1>1, <1>6, <2>1 DEF IInv, CountInv, Packed, pullVars
<1>9. SamePlaces
  BY <1>1 DEF SamePlaces, history, IInv, TypeInv, TypeOK
<1> QED
  BY <1>1, <1>3, <1>7, <1>8, <1>9, PlacesKept DEF IInv

LEMMA ChunkFullStep ==
    ASSUME IInv, NEW p \in Thread, ChunkFull(p)
    PROVE  IInv'
<1> DEFINE c == ChunkAt(p, addAt[p])
<1>1. /\ addPc[p] = "insert" /\ addPc' = [addPc EXCEPT ![p] = "next"]
      /\ packed' = [packed EXCEPT ![c].locked = FALSE]
      /\ UNCHANGED <<array, depthOf, addTask, addAt, pullVars, history>>
  BY DEF ChunkFull
<1>2. c \in Chunk /\ addAt[p] \in At
  BY ChunkAtType DEF IInv, TypeInv
<1>3. TypeInv'
  BY <1>1 DEF IInv, TypeInv, TypeOK, pullVars, history
<1>4. PICK d \in Chunk : d = c
  BY <1>2
<1>5. /\ packed'[d].count = packed[d].count
      /\ \A x \in Chunk \ {d} : packed'[x] = packed[x]
  BY <1>1, <1>4 DEF IInv, TypeInv, TypeOK
<1>6. \A x \in Chunk : \A q \in Thread :
        /\ AddHolds(q, x)' <=> AddHolds(q, x) /\ q # p
        /\ Holder(q, x)' <=> Holder(q, x)
  BY <1>1, <1>4 DEF AddHolds, Holder, pullVars, IInv, TypeInv, TypeOK
<1>7. AddHolds(p, d)
  BY <1>1, <1>4 DEF AddHolds
<1>8. LockInv'
  BY <1>5, <1>6, <1>7 DEF IInv, LockInv, IsLocked
<1>9. CountInv'
  <2>1. \A x \in Chunk : packed'[x].count = packed[x].count
    BY <1>5
  <2> QED
    BY <1>1, <1>6, <2>1 DEF IInv, CountInv, Packed, pullVars
<1>10. SamePlaces
  BY <1>1 DEF SamePlaces, history, IInv, TypeInv, TypeOK
<1> QED
  BY <1>1, <1>3, <1>8, <1>9, <1>10, PlacesKept DEF IInv

\* The facts about the insertion, in slot n of chunk c.
InsertAt(p, c, n) ==
    /\ addPc[p] = "insert" /\ addTask[p] # NoTask /\ addTask[p] \in Task
    /\ AddHolds(p, c)
    /\ n = packed[c].count /\ n \in Slot /\ n + 1 \in 0..TasksPerChunk
    /\ Packed(c, n)
    /\ addPc' = [addPc EXCEPT ![p] = "none"]
    /\ addTask' = [addTask EXCEPT ![p] = NoTask]
    /\ addAt' = [addAt EXCEPT ![p] = <<0, 0>>]
    /\ array' = [array EXCEPT ![c] = [array[c] EXCEPT ![n] = addTask[p]]]
    /\ packed' = [packed EXCEPT ![c] =
                     [packed[c] EXCEPT !.locked = FALSE, !.count = n + 1]]
    /\ UNCHANGED <<depthOf, pullVars, history>>

LEMMA InsertFacts ==
    ASSUME IInv, NEW p \in Thread, Insert(p)
    PROVE  \E c \in Chunk, n \in Slot : InsertAt(p, c, n)
<1> DEFINE c == ChunkAt(p, addAt[p])
           n == packed[c].count
<1>1. c \in Chunk
  BY ChunkAtType DEF IInv, TypeInv
<1>2. n \in Slot /\ n + 1 \in 0..TasksPerChunk
  <2>1. n \in 0..TasksPerChunk /\ n < TasksPerChunk
    BY <1>1 DEF Insert, HasRoom, IInv, TypeInv, TypeOK
  <2> QED
    BY <2>1, QueueAssumption DEF Slot
<1>3. AddHolds(p, c) /\ addPc[p] = "insert"
  BY DEF Insert, AddHolds
<1>4. Packed(c, n)
  BY <1>1, <1>3 DEF IInv, LockInv, CountInv
<1>5. addTask[p] # NoTask /\ addTask[p] \in Task
  BY <1>3 DEF IInv, AddInv, TypeInv, TypeOK
<1>6. /\ array' = [array EXCEPT ![c][n] = addTask[p]]
      /\ packed' = [packed EXCEPT ![c].locked = FALSE, ![c].count = n + 1]
      /\ addPc' = [addPc EXCEPT ![p] = "none"]
      /\ addTask' = [addTask EXCEPT ![p] = NoTask]
      /\ addAt' = [addAt EXCEPT ![p] = <<0, 0>>]
      /\ UNCHANGED <<depthOf, pullVars, history>>
  BY DEF Insert
<1>7. array' = [array EXCEPT ![c] = [array[c] EXCEPT ![n] = addTask[p]]]
  BY <1>6
<1>8. packed' = [packed EXCEPT ![c] =
                    [packed[c] EXCEPT !.locked = FALSE, !.count = n + 1]]
  BY <1>1, <1>6 DEF IInv, TypeInv, TypeOK
<1> QED
  BY <1>1, <1>2, <1>3, <1>4, <1>5, <1>6, <1>7, <1>8 DEF InsertAt

\* What an insertion does to the slots and the queue.
LEMMA InsertSlots ==
    ASSUME IInv, NEW p \in Thread, NEW c \in Chunk, NEW n \in Slot, InsertAt(p, c, n)
    PROVE  /\ array[c][n] = NoTask /\ array'[c][n] = addTask[p]
           /\ \A d \in Chunk : \A i \in Slot :
                 d # c \/ i # n => array'[d][i] = array[d][i]
           /\ addTask[p] \notin Queued
           /\ Queued' = Queued \union {addTask[p]}
<1>1. array[c][n] = NoTask
  BY DEF InsertAt, Packed, Slot
<1>2. DOMAIN array[c] = Slot /\ \A d \in Chunk : DOMAIN array[d] = Slot
  BY DEF IInv, TypeInv, TypeOK, Slot
<1>3. /\ array'[c] = [array[c] EXCEPT ![n] = addTask[p]]
      /\ \A d \in Chunk \ {c} : array'[d] = array[d]
  BY DEF InsertAt, IInv, TypeInv, TypeOK
<1>4. /\ array'[c][n] = addTask[p]
      /\ \A d \in Chunk : \A i \in Slot :
            d # c \/ i # n => array'[d][i] = array[d][i]
  BY <1>2, <1>3
<1>5. \A d \in Chunk : DOMAIN array'[d] = Slot
  BY <1>2, <1>3
<1>6. addTask[p] \in Task /\ addTask[p] \notin Queued
  BY DEF InsertAt, IInv, PlaceInv, Adding
<1>7. Queued' = Queued \union {addTask[p]}
  <2>1. ASSUME NEW t \in Task
        PROVE  t \in Queued' <=> t \in Queued \/ t = addTask[p]
    <3>1. t \in Queued' <=> \E d \in Chunk : \E i \in Slot : array'[d][i] = t
      BY <1>5 DEF Queued
    <3>2. t \in Queued <=> \E d \in Chunk : \E i \in Slot : array[d][i] = t
      BY <1>2 DEF Queued
    <3>3. t # NoTask
      BY QueueAssumption
    <3> QED
      BY <1>1, <1>4, <3>1, <3>2, <3>3
  <2> QED
    BY <1>6, <2>1 DEF Queued
<1> QED
  BY <1>1, <1>4, <1>6, <1>7

LEMMA InsertStep ==
    ASSUME IInv, NEW p \in Thread, Insert(p)
    PROVE  IInv'
<1>1. PICK c \in Chunk, n \in Slot : InsertAt(p, c, n)
  BY InsertFacts
<1>2. TypeInv'
  <2>1. array' \in [Chunk -> [0..(TasksPerChunk - 1) -> Task \union {NoTask}]]
    <3>1. array \in [Chunk -> [Slot -> Task \union {NoTask}]]
      BY DEF IInv, TypeInv, TypeOK, Slot
    <3>2. [array[c] EXCEPT ![n] = addTask[p]] \in [Slot -> Task \union {NoTask}]
      BY <1>1, <3>1 DEF InsertAt
    <3> QED
      BY <1>1, <3>1, <3>2 DEF InsertAt, Slot
  <2>2. packed' \in [Chunk -> [locked : BOOLEAN, pos : 0..TasksPerChunk,
                               count : 0..TasksPerChunk]]
    <3> DEFINE R == [locked : BOOLEAN, pos : 0..TasksPerChunk, count : 0..TasksPerChunk]
    <3>1. packed \in [Chunk -> R]
      BY DEF IInv, TypeInv, TypeOK
    <3>2. [packed[c] EXCEPT !.locked = FALSE, !.count = n + 1] \in R
      BY <1>1, <3>1 DEF InsertAt
    <3> HIDE DEF R
    <3>3. packed' \in [Chunk -> R]
      BY <1>1, <3>1, <3>2 DEF InsertAt
    <3> QED
      BY <3>3 DEF R
  <2> QED
    BY <1>1, <2>1, <2>2, FirstAt
    DEF InsertAt, IInv, TypeInv, TypeOK, pullVars, history
<1>3. \A x \in Chunk : \A q \in Thread :
        /\ AddHolds(q, x)' <=> AddHolds(q, x) /\ q # p
        /\ Holder(q, x)' <=> Holder(q, x)
  BY <1>1 DEF InsertAt, AddHolds, Holder, pullVars, IInv, TypeInv, TypeOK
<1>4. /\ packed'[c].count = n + 1 /\ AddHolds(p, c)
      /\ \A x \in Chunk \ {c} : packed'[x] = packed[x]
  BY <1>1 DEF InsertAt, IInv, TypeInv, TypeOK
<1>5. LockInv'
  BY <1>3, <1>4 DEF IInv, LockInv, IsLocked
<1>6. CountInv'
  <2>1. \A i \in Slot : array'[c][i] # NoTask <=> i < n + 1
    <3>1. n \in Nat /\ \A i \in Slot : i \in Int
      BY DEF Slot
    <3>2. /\ array'[c][n] = addTask[p]
          /\ \A i \in Slot \ {n} : array'[c][i] = array[c][i]
      BY <1>1, InsertSlots
    <3>3. addTask[p] # NoTask
      BY <1>1 DEF InsertAt
    <3>4. \A i \in Slot : array[c][i] # NoTask <=> i < n
      BY <1>1 DEF InsertAt, Packed
    <3> QED
      BY <3>1, <3>2, <3>3, <3>4
  <2>2. \A q \in Thread : ~Holder(q, c)
    BY <1>4 DEF IInv, LockInv
  <2>3. ASSUME NEW x \in Chunk \ {c}, NEW k PROVE Packed(x, k)' <=> Packed(x, k)
    BY <1>1, InsertSlots DEF Packed
  <2>4. count' = count
    BY <1>1 DEF InsertAt, pullVars
  <2>5. \A x \in Chunk \ {c} :
          /\ (\A q \in Thread : ~Holder(q, x)) => Packed(x, packed[x].count)'
          /\ \A q \in Thread : Holder(q, x) => Packed(x, count[q])'
    BY <1>4, <2>3, <2>4 DEF IInv, CountInv, Packed
  <2>6. Packed(c, packed[c].count)'
    BY <1>4, <2>1 DEF Packed
  <2> QED
    BY <1>3, <2>2, <2>5, <2>6 DEF CountInv
<1>7. ApartInv'
  <2>1. \A d \in Chunk : \A i \in Slot : array[d][i] # addTask[p]
    <3>1. \A d \in Chunk : DOMAIN array[d] = Slot
      BY DEF IInv, TypeInv, TypeOK, Slot
    <3>2. addTask[p] \in Task /\ addTask[p] \notin Queued
      BY <1>1, InsertSlots DEF InsertAt
    <3> QED
      BY <3>1, <3>2 DEF Queued
  <2> QED
    BY <1>1, <2>1, InsertSlots DEF IInv, ApartInv
<1>8. AddInv'
  BY <1>1 DEF InsertAt, IInv, AddInv, TypeInv, TypeOK
<1>9. PlaceInv'
  <2>1. \A t \in Task : Adding(t)' <=> Adding(t) /\ t # addTask[p]
    BY <1>1, QueueAssumption DEF InsertAt, Adding, IInv, AddInv, TypeInv, TypeOK
  <2>2. Queued' = Queued \union {addTask[p]} /\ Adding(addTask[p])
    BY <1>1, InsertSlots DEF Adding
  <2> QED
    BY <1>1, <2>1, <2>2 DEF InsertAt, history, IInv, PlaceInv
<1> QED
  BY <1>2, <1>5, <1>6, <1>7, <1>8, <1>9 DEF IInv

-----------------------------------------------------------------------------
(* Pull                                                                    *)

LEMMA PullLockStep ==
    ASSUME IInv, NEW p \in Thread, PullLock(p)
    PROVE  IInv'
<1> DEFINE c == ChunkAt(p, pullAt[p])
<1>1. /\ pullPc[p] = "try" /\ pullPc' = [pullPc EXCEPT ![p] = "scan"]
      /\ ~IsLocked(c) /\ packed' = [packed EXCEPT ![c].locked = TRUE]
      /\ pos' = [pos EXCEPT ![p] = packed[c].pos]
      /\ count' = [count EXCEPT ![p] = packed[c].count]
      /\ UNCHANGED <<array, depthOf, addPc, addTask, addAt, pullAt, second, pulled,
                     history>>
  BY DEF PullLock, MayLock, Locked, Goto, addVars
<1>2. c \in Chunk /\ pullAt[p] \in At
  BY ChunkAtType DEF IInv, TypeInv
<1>3. TypeInv'
  <2>1. packed[c].pos \in 0..TasksPerChunk /\ packed[c].count \in 0..TasksPerChunk
    BY <1>2 DEF IInv, TypeInv, TypeOK
  <2>2. packed' \in [Chunk -> [locked : BOOLEAN, pos : 0..TasksPerChunk,
                               count : 0..TasksPerChunk]]
    BY <1>1 DEF IInv, TypeInv, TypeOK
  <2>3. TypeOK'
    BY <1>1, <2>1, <2>2 DEF IInv, TypeInv, TypeOK
  <2> QED
    BY <1>1, <2>3 DEF IInv, TypeInv, history
<1>4. PICK d \in Chunk : d = c
  BY <1>2
<1>5. /\ packed'[d].locked = TRUE /\ packed'[d].count = packed[d].count
      /\ \A x \in Chunk \ {d} : packed'[x] = packed[x]
      /\ count'[p] = packed[d].count
      /\ \A q \in Thread \ {p} : count'[q] = count[q]
  BY <1>1, <1>4 DEF IInv, TypeInv, TypeOK
<1>6. \A x \in Chunk : \A q \in Thread :
        /\ AddHolds(q, x)' <=> AddHolds(q, x)
        /\ Holder(q, x)' <=> Holder(q, x) \/ (q = p /\ x = d)
        /\ ~Holder(p, x)
  BY <1>1, <1>4 DEF AddHolds, Holder, IInv, TypeInv, TypeOK
<1>7. LockInv'
  BY <1>1, <1>4, <1>5, <1>6, Unheld DEF IInv, LockInv, IsLocked
<1>8. CountInv'
  <2>1. \A x \in Chunk : packed'[x].count = packed[x].count
    BY <1>5
  <2>2. Packed(d, packed[d].count)
    BY <1>1, <1>4, Unheld DEF IInv, CountInv
  <2>3. \A x \in Chunk :
          /\ (\A q \in Thread : ~Holder(q, x)') => Packed(x, packed[x].count)
          /\ \A q \in Thread : Holder(q, x)' => Packed(x, count'[q])
    BY <1>5, <1>6, <2>2 DEF IInv, CountInv
  <2> QED
    BY <1>1, <2>1, <2>3 DEF CountInv, Packed
<1>9. SamePlaces
  BY <1>1 DEF SamePlaces, history
<1> QED
  BY <1>1, <1>3, <1>7, <1>8, <1>9, PlacesKept DEF IInv

\* The chunk, the slot and the number of the tasks of a search: the slot that is
\* looked at holds a task.
ScanAt(p, c, i, n) ==
    /\ c = ChunkAt(p, pullAt[p]) /\ i = pos[p] /\ n = count[p]
    /\ Holder(p, c)
    /\ n \in 1..TasksPerChunk /\ i \in Slot /\ i < n /\ n - 1 \in Slot
    /\ Packed(c, n)
    /\ Current(p) = array[c][i] /\ Current(p) \in Task /\ Current(p) \in Queued

LEMMA ScanFacts ==
    ASSUME IInv, NEW p \in Thread, Scanning(p)
    PROVE  \E c \in Chunk, i \in Slot, n \in 1..TasksPerChunk : ScanAt(p, c, i, n)
<1> DEFINE c == ChunkAt(p, pullAt[p])
<1>1. c \in Chunk
  BY ChunkAtType DEF IInv, TypeInv
<1>2. /\ pos[p] \in 0..TasksPerChunk /\ count[p] \in 0..TasksPerChunk
      /\ packed[c].pos \in 0..TasksPerChunk
      /\ TasksPerChunk \in Nat
  BY <1>1, QueueAssumption DEF IInv, TypeInv, TypeOK
<1>3. pos[p] < count[p]
  BY <1>2 DEF Scanning, ScanEnd, StartPos
<1>4. pos[p] \in Slot /\ count[p] \in 1..TasksPerChunk /\ count[p] - 1 \in Slot
  BY <1>2, <1>3 DEF Slot
<1>5. Holder(p, c)
  BY DEF Scanning, Holder
<1>6. Packed(c, count[p])
  BY <1>1, <1>5 DEF IInv, CountInv
<1>7. Current(p) = array[c][pos[p]] /\ Current(p) # NoTask
  BY <1>3, <1>4, <1>6 DEF Current, Packed
<1>8. Current(p) \in Task /\ Current(p) \in Queued
  <2>1. array \in [Chunk -> [Slot -> Task \union {NoTask}]]
    BY DEF IInv, TypeInv, TypeOK, Slot
  <2>2. Current(p) \in Task
    BY <1>1, <1>4, <1>7, <2>1
  <2> QED
    BY <1>1, <1>4, <1>7, <2>1, <2>2 DEF Queued
<1> QED
  BY <1>1, <1>3, <1>4, <1>5, <1>6, <1>7, <1>8 DEF ScanAt

\* The removal: the last task moves to the slot of the one that is removed.
LEMMA RemovedSlots ==
    ASSUME IInv, NEW p \in Thread, RemoveCurrent(p),
           NEW c \in Chunk, NEW i \in Slot, NEW n \in 1..TasksPerChunk,
           ScanAt(p, c, i, n)
    PROVE  /\ array' \in [Chunk -> [Slot -> Task \union {NoTask}]]
           /\ \A k \in Slot : array'[c][k] =
                IF k = n - 1 THEN NoTask
                ELSE IF k = i THEN array[c][n - 1] ELSE array[c][k]
           /\ \A d \in Chunk \ {c} : array'[d] = array[d]
           /\ count' = [count EXCEPT ![p] = n - 1]
<1>1. array \in [Chunk -> [Slot -> Task \union {NoTask}]]
  BY DEF IInv, TypeInv, TypeOK, Slot
<1>2. /\ array' = [array EXCEPT ![c] = Removed(array[c], i, n)]
      /\ count' = [count EXCEPT ![p] = n - 1]
  BY DEF RemoveCurrent, ScanAt
<1>3. n - 1 \in Slot
  BY DEF ScanAt
<1>4. Removed(array[c], i, n) \in [Slot -> Task \union {NoTask}]
  BY <1>1, <1>3 DEF Removed
<1>5. \A k \in Slot : Removed(array[c], i, n)[k] =
        IF k = n - 1 THEN NoTask
        ELSE IF k = i THEN array[c][n - 1] ELSE array[c][k]
  BY <1>1, <1>3 DEF Removed
<1> QED
  BY <1>1, <1>2, <1>4, <1>5

\* The tasks are at the front again, in one slot each, and Current(p) is gone.
LEMMA RemovedQueue ==
    ASSUME IInv, NEW p \in Thread, RemoveCurrent(p),
           NEW c \in Chunk, NEW i \in Slot, NEW n \in 1..TasksPerChunk,
           ScanAt(p, c, i, n)
    PROVE  /\ Packed(c, n - 1)'
           /\ \A d \in Chunk \ {c} : \A m \in 0..TasksPerChunk :
                Packed(d, m)' <=> Packed(d, m)
           /\ ApartInv'
           /\ Queued' = Queued \ {Current(p)}
<1>1. /\ array' \in [Chunk -> [Slot -> Task \union {NoTask}]]
      /\ \A k \in Slot : array'[c][k] =
            IF k = n - 1 THEN NoTask
            ELSE IF k = i THEN array[c][n - 1] ELSE array[c][k]
      /\ \A d \in Chunk \ {c} : array'[d] = array[d]
  BY RemovedSlots
<1>2. /\ i < n /\ n - 1 \in Slot /\ n \in Nat /\ \A k \in Slot : k \in Nat
      /\ \A k \in Slot : array[c][k] # NoTask <=> k < n
      /\ Current(p) = array[c][i] /\ Current(p) \in Task
  BY DEF ScanAt, Packed, Slot
<1>3. array \in [Chunk -> [Slot -> Task \union {NoTask}]]
  BY DEF IInv, TypeInv, TypeOK, Slot
<1>4. \A k \in Slot : array'[c][k] # NoTask <=> k < n - 1
  BY <1>1, <1>2
<1>5. \A d \in Chunk \ {c} : \A m \in 0..TasksPerChunk :
        Packed(d, m)' <=> Packed(d, m)
  BY <1>1 DEF Packed
<1>6. \A d \in Chunk : \A k, l \in Slot :
        array'[d][k] = array'[d][l] /\ array'[d][k] # NoTask => k = l
  <2>1. \A d \in Chunk : \A k, l \in Slot :
          array[d][k] = array[d][l] /\ array[d][k] # NoTask => k = l
    BY DEF IInv, ApartInv
  <2>2. \A k, l \in Slot :
          array'[c][k] = array'[c][l] /\ array'[c][k] # NoTask => k = l
    BY <1>1, <1>2, <2>1
  <2> QED
    BY <1>1, <2>1, <2>2
<1>7. \A d, e \in Chunk : \A k, l \in Slot :
        d # e => array'[d][k] = NoTask \/ array'[d][k] # array'[e][l]
  <2>1. \A d, e \in Chunk : \A k, l \in Slot :
          d # e => array[d][k] = NoTask \/ array[d][k] # array[e][l]
    BY DEF IInv, ApartInv
  <2>2. \A k \in Slot : \/ array'[c][k] = NoTask
                        \/ \E l \in Slot : array'[c][k] = array[c][l]
    BY <1>1, <1>2
  <2> QED
    BY <1>1, <2>1, <2>2
<1>8. ApartInv'
  BY <1>6, <1>7 DEF ApartInv
<1>9. Queued' = Queued \ {Current(p)}
  <2>1. ASSUME NEW t \in Task
        PROVE  t \in Queued' <=> t \in Queued /\ t # Current(p)
    <3>1. t \in Queued' <=> \E d \in Chunk : \E k \in Slot : array'[d][k] = t
      BY <1>1 DEF Queued
    <3>2. t \in Queued <=> \E d \in Chunk : \E k \in Slot : array[d][k] = t
      BY <1>3 DEF Queued
    <3>3. t # NoTask /\ Current(p) # NoTask
      BY <1>2, QueueAssumption
    <3>4. \A d \in Chunk : \A k \in Slot : array[d][k] = Current(p) => d = c /\ k = i
      BY <1>2, <3>3 DEF IInv, ApartInv
    <3>5. (\E k \in Slot : array'[c][k] = t)
            <=> (\E k \in Slot : array[c][k] = t) /\ t # Current(p)
      <4>1. ASSUME NEW k \in Slot, array'[c][k] = t
            PROVE  (\E l \in Slot : array[c][l] = t) /\ t # Current(p)
        <5>1. CASE k = i /\ k # n - 1
          BY <1>1, <1>2, <3>3, <3>4, <4>1, <5>1
        <5>2. CASE k # i /\ k # n - 1
          BY <1>1, <3>4, <4>1, <5>2
        <5>3. CASE k = n - 1
          BY <1>1, <3>3, <4>1, <5>3
        <5> QED
          BY <5>1, <5>2, <5>3
      <4>2. ASSUME NEW k \in Slot, array[c][k] = t, t # Current(p)
            PROVE  \E l \in Slot : array'[c][l] = t
        <5>1. k # i
          BY <1>2, <4>2
        <5>2. CASE k = n - 1
          BY <1>1, <1>2, <4>2, <5>1, <5>2
        <5>3. CASE k # n - 1
          BY <1>1, <4>2, <5>1, <5>3
        <5> QED
          BY <5>2, <5>3
      <4> QED
        BY <4>1, <4>2
    <3>6. \A d \in Chunk \ {c} : \A k \in Slot :
            array'[d][k] = t <=> array[d][k] = t /\ t # Current(p)
      BY <1>1, <3>4
    <3> QED
      BY <3>1, <3>2, <3>4, <3>5, <3>6
  <2> QED
    BY <2>1 DEF Queued
<1> QED
  BY <1>4, <1>5, <1>8, <1>9 DEF Packed

\* A step of a search that changes no array and unlocks nothing.
LEMMA PassStep ==
    ASSUME IInv, NEW p \in Thread, KeepTask(p) \/ Wrap(p)
    PROVE  IInv'
<1>1. /\ UNCHANGED <<packed, array, depthOf, addPc, addTask, addAt, pullPc, pullAt,
                     count, pulled, history>>
      /\ pos' = [pos EXCEPT ![p] = pos'[p]] /\ pos'[p] \in 0..TasksPerChunk
      /\ second' \in [Thread -> BOOLEAN]
  <2>1. CASE KeepTask(p)
    <3>1. PICK c \in Chunk, i \in Slot, n \in 1..TasksPerChunk : ScanAt(p, c, i, n)
      BY <2>1, ScanFacts DEF KeepTask
    <3>2. pos[p] + 1 \in 0..TasksPerChunk
      BY <3>1, QueueAssumption DEF ScanAt, Slot
    <3> QED
      BY <2>1, <3>2 DEF KeepTask, queueVars, addVars, IInv, TypeInv, TypeOK
  <2>2. CASE Wrap(p)
    <3>1. 0 \in 0..TasksPerChunk
      BY QueueAssumption
    <3> QED
      BY <2>2, <3>1 DEF Wrap, queueVars, addVars, IInv, TypeInv, TypeOK
  <2> QED
    BY <2>1, <2>2
<1>2. TypeInv'
  <2>1. TypeOK'
    BY <1>1 DEF IInv, TypeInv, TypeOK
  <2> QED
    BY <1>1, <2>1 DEF IInv, TypeInv, history
<1>3. SameLocks /\ SamePlaces
  BY <1>1 DEF SameLocks, SamePlaces, AddHolds, Holder, history
<1> QED
  BY <1>1, <1>2, <1>3, LocksKept, PlacesKept DEF IInv

\* A task is removed, the holders and the packed words are the same.
LEMMA RemoveKeeps ==
    ASSUME IInv, NEW p \in Thread, RemoveCurrent(p),
           NEW c \in Chunk, NEW i \in Slot, NEW n \in 1..TasksPerChunk,
           ScanAt(p, c, i, n), packed' = packed,
           \A x \in Chunk : \A q \in Thread :
                /\ AddHolds(q, x)' <=> AddHolds(q, x)
                /\ Holder(q, x)' <=> Holder(q, x)
    PROVE  LockInv' /\ CountInv'
<1>1. LockInv'
  BY DEF IInv, LockInv, IsLocked
<1>2. /\ Packed(c, n - 1)'
      /\ \A d \in Chunk \ {c} : \A m \in 0..TasksPerChunk :
            Packed(d, m)' <=> Packed(d, m)
  BY RemovedQueue
<1>3. count'[p] = n - 1 /\ \A q \in Thread \ {p} : count'[q] = count[q]
  <2>1. count' = [count EXCEPT ![p] = n - 1]
    BY RemovedSlots
  <2> QED
    BY <2>1 DEF IInv, TypeInv, TypeOK
<1>4. Holder(p, c) /\ \A q \in Thread : Holder(q, c) => q = p
  BY DEF ScanAt, IInv, LockInv
<1>5. \A d \in Chunk \ {c} : ~Holder(p, d)
  BY DEF Holder, ScanAt
<1>6. /\ \A d \in Chunk : packed[d].count \in 0..TasksPerChunk
      /\ \A q \in Thread : count[q] \in 0..TasksPerChunk
  BY DEF IInv, TypeInv, TypeOK
<1>7. CountInv'
  <2> SUFFICES ASSUME NEW x \in Chunk
               PROVE  /\ (\A q \in Thread : ~Holder(q, x)')
                            => Packed(x, packed[x].count)'
                      /\ \A q \in Thread : Holder(q, x)' => Packed(x, count[q])'
    BY DEF CountInv
  <2>1. CASE x = c
    BY <1>2, <1>3, <1>4, <2>1 DEF Packed
  <2>2. CASE x # c
    <3>1. /\ (\A q \in Thread : ~Holder(q, x)) => Packed(x, packed[x].count)
          /\ \A q \in Thread : Holder(q, x) => Packed(x, count[q])
      BY DEF IInv, CountInv
    <3>2. \A m \in 0..TasksPerChunk : Packed(x, m)' <=> Packed(x, m)
      BY <1>2, <2>2
    <3>3. \A q \in Thread : Holder(q, x) => count'[q] = count[q]
      BY <1>3, <1>5, <2>2
    <3> QED
      BY <1>6, <3>1, <3>2, <3>3 DEF Packed
  <2> QED
    BY <2>1, <2>2
<1> QED
  BY <1>1, <1>7

LEMMA TakeStep ==
    ASSUME IInv, NEW p \in Thread, TakeTask(p)
    PROVE  IInv' /\ Current(p) \in Queued /\ Queued' = Queued \ {Current(p)}
<1>1. PICK c \in Chunk, i \in Slot, n \in 1..TasksPerChunk : ScanAt(p, c, i, n)
  BY ScanFacts DEF TakeTask
<1>2. /\ RemoveCurrent(p)
      /\ pulled' = [pulled EXCEPT ![p] = Current(p)]
      /\ ran' = ran \union {Current(p)}
      /\ UNCHANGED <<packed, depthOf, addPc, addTask, addAt, pullPc, pullAt, pos,
                     second, called, dropped, inputsOf>>
  BY DEF TakeTask, addVars
<1>3. /\ Current(p) \in Task /\ Current(p) \in Queued
      /\ Queued' = Queued \ {Current(p)} /\ ApartInv'
  BY <1>1, <1>2, RemovedQueue DEF ScanAt
<1>4. TypeInv'
  <2>1. array' \in [Chunk -> [0..(TasksPerChunk - 1) -> Task \union {NoTask}]]
    BY <1>1, <1>2, RemovedSlots DEF Slot
  <2>2. count' \in [Thread -> 0..TasksPerChunk]
    <3>1. count' = [count EXCEPT ![p] = n - 1] /\ n - 1 \in 0..TasksPerChunk
      BY <1>1, <1>2, RemovedSlots, QueueAssumption
    <3> QED
      BY <3>1 DEF IInv, TypeInv, TypeOK
  <2>3. TypeOK'
    BY <1>2, <1>3, <2>1, <2>2 DEF IInv, TypeInv, TypeOK
  <2> QED
    BY <1>2, <1>3, <2>3 DEF IInv, TypeInv
<1>5. LockInv' /\ CountInv'
  <2>1. \A x \in Chunk : \A q \in Thread :
            /\ AddHolds(q, x)' <=> AddHolds(q, x)
            /\ Holder(q, x)' <=> Holder(q, x)
    BY <1>2 DEF AddHolds, Holder
  <2> QED
    BY <1>1, <1>2, <2>1, RemoveKeeps
<1>6. AddInv'
  BY <1>2 DEF IInv, AddInv
<1>7. PlaceInv'
  BY <1>2, <1>3 DEF IInv, PlaceInv, Adding
<1> QED
  BY <1>3, <1>4, <1>5, <1>6, <1>7 DEF IInv

\* Dropping a task moves it from the queue, before OnCancel() may submit
\* another one.
LEMMA DropStep ==
    ASSUME IInv, NEW p \in Thread, DropTask(p)
    PROVE  IInv' /\ Current(p) \in Queued /\ Queued' = Queued \ {Current(p)}
<1>1. PICK c \in Chunk, i \in Slot, n \in 1..TasksPerChunk : ScanAt(p, c, i, n)
  BY ScanFacts DEF DropTask
<1>2. /\ RemoveCurrent(p) /\ addPc[p] = "none"
      /\ dropped' = dropped \union {Current(p)}
      /\ pos' = [pos EXCEPT ![p] = @ + 1]
      /\ UNCHANGED <<packed, depthOf, pullPc, pullAt, pulled, second, ran, inputsOf>>
  BY DEF DropTask, Scanning
<1>3. /\ Current(p) \in Task /\ Current(p) \in Queued
      /\ Queued' = Queued \ {Current(p)} /\ ApartInv'
  BY <1>1, <1>2, RemovedQueue DEF ScanAt
<1>4. \/ \E t \in Task \ called : StartAdd(p, t)
      \/ UNCHANGED <<addPc, addTask, addAt, called>>
  <2>1. Submits[Current(p)] \subseteq Task
    BY <1>3, QueueAssumption
  <2> QED
    BY <2>1 DEF DropTask, addVars
<1>5. TypeInv'
  <2>1. array' \in [Chunk -> [0..(TasksPerChunk - 1) -> Task \union {NoTask}]]
    BY <1>1, <1>2, RemovedSlots DEF Slot
  <2>2. count' \in [Thread -> 0..TasksPerChunk]
    <3>1. count' = [count EXCEPT ![p] = n - 1] /\ n - 1 \in 0..TasksPerChunk
      BY <1>1, <1>2, RemovedSlots, QueueAssumption
    <3> QED
      BY <3>1 DEF IInv, TypeInv, TypeOK
  <2>3. pos[p] + 1 \in 0..TasksPerChunk
    BY <1>1, QueueAssumption DEF ScanAt, Slot
  <2>4. /\ addPc' \in [Thread -> {"none", "try", "insert", "next"}]
        /\ addTask' \in [Thread -> Task \union {NoTask}]
        /\ addAt' \in [Thread -> At] /\ called' \subseteq Task
    <3>1. CASE UNCHANGED <<addPc, addTask, addAt, called>>
      BY <3>1 DEF IInv, TypeInv, TypeOK
    <3>2. ASSUME NEW t \in Task \ called, StartAdd(p, t)
          PROVE  /\ addPc' \in [Thread -> {"none", "try", "insert", "next"}]
                 /\ addTask' \in [Thread -> Task \union {NoTask}]
                 /\ addAt' \in [Thread -> At] /\ called' \subseteq Task
      BY <3>2, FirstAt DEF StartAdd, IInv, TypeInv, TypeOK
    <3> QED
      BY <1>4, <3>1, <3>2
  <2>5. TypeOK'
    BY <1>2, <2>1, <2>2, <2>3, <2>4 DEF IInv, TypeInv, TypeOK
  <2> QED
    BY <1>2, <1>3, <2>4, <2>5 DEF IInv, TypeInv
<1>6. LockInv' /\ CountInv'
  <2>1. \A x \in Chunk : \A q \in Thread :
            /\ AddHolds(q, x)' <=> AddHolds(q, x)
            /\ Holder(q, x)' <=> Holder(q, x)
    BY <1>2, <1>4 DEF AddHolds, Holder, StartAdd, IInv, TypeInv, TypeOK
  <2> QED
    BY <1>1, <1>2, <2>1, RemoveKeeps
<1>7. AddInv' /\ PlaceInv'
  <2>1. CASE UNCHANGED <<addPc, addTask, addAt, called>>
    BY <1>2, <1>3, <2>1 DEF IInv, AddInv, PlaceInv, Adding
  <2>2. ASSUME NEW t \in Task \ called, StartAdd(p, t) PROVE AddInv' /\ PlaceInv'
    <3>1. /\ AddInv' /\ called' = called \union {t}
          /\ \A u \in Task : Adding(u)' <=> Adding(u) \/ u = t
      BY <1>2, <2>2, StartFacts
    <3>2. t # Current(p) /\ Current(p) \in called
      BY <1>3 DEF IInv, PlaceInv
    <3>3. PlaceInv'
      BY <1>2, <1>3, <3>1, <3>2 DEF IInv, PlaceInv
    <3> QED
      BY <3>1, <3>3
  <2> QED
    BY <1>4, <2>1, <2>2
<1> QED
  BY <1>3, <1>5, <1>6, <1>7 DEF IInv

\* The count that the search has arrived at becomes the one of the chunk.
LEMMA UnlockStep ==
    ASSUME IInv, NEW p \in Thread, Unlock(p)
    PROVE  IInv'
<1> DEFINE c == ChunkAt(p, pullAt[p])
<1>1. /\ pullPc[p] = "scan"
      /\ packed' = [packed EXCEPT ![c] =
                       [locked |-> FALSE, pos |-> pos[p], count |-> count[p]]]
      /\ pullPc' = [pullPc EXCEPT ![p] = pullPc'[p]] /\ pullPc'[p] \in {"idle", "next"}
      /\ pulled' = [pulled EXCEPT ![p] = NoTask]
      /\ pos' = [pos EXCEPT ![p] = 0] /\ count' = [count EXCEPT ![p] = 0]
      /\ second' = [second EXCEPT ![p] = FALSE]
      /\ UNCHANGED <<array, depthOf, addPc, addTask, addAt, history>>
  BY DEF Unlock, Goto, addVars, IInv, TypeInv, TypeOK
<1>2. pullAt' = [pullAt EXCEPT ![p] = pullAt'[p]] /\ pullAt'[p] \in At
  <2>1. pullAt' = pullAt \/ pullAt' = [pullAt EXCEPT ![p] = <<0, 0>>]
    BY DEF Unlock
  <2> QED
    BY <2>1, FirstAt DEF IInv, TypeInv
<1>3. c \in Chunk
  BY ChunkAtType DEF IInv, TypeInv
<1>4. TypeInv'
  <2>1. pos[p] \in 0..TasksPerChunk /\ count[p] \in 0..TasksPerChunk
        /\ 0 \in 0..TasksPerChunk
    BY QueueAssumption DEF IInv, TypeInv, TypeOK
  <2>2. packed' \in [Chunk -> [locked : BOOLEAN, pos : 0..TasksPerChunk,
                               count : 0..TasksPerChunk]]
    BY <1>1, <2>1 DEF IInv, TypeInv, TypeOK
  <2>3. /\ pullPc' \in [Thread -> {"idle", "load", "try", "scan", "next"}]
        /\ pulled' \in [Thread -> Task \union {NoTask}]
        /\ second' \in [Thread -> BOOLEAN]
    BY <1>1 DEF IInv, TypeInv, TypeOK
  <2>4. pos' \in [Thread -> 0..TasksPerChunk] /\ count' \in [Thread -> 0..TasksPerChunk]
    BY <1>1, <2>1 DEF IInv, TypeInv, TypeOK
  <2>5. TypeOK'
    BY <1>1, <2>2, <2>3, <2>4 DEF IInv, TypeInv, TypeOK
  <2> QED
    BY <1>1, <1>2, <2>5 DEF IInv, TypeInv, history
<1>5. PICK d \in Chunk : d = c
  BY <1>3
<1>6. Holder(p, d) /\ \A x \in Chunk \ {d} : ~Holder(p, x)
  BY <1>1, <1>5 DEF Holder
<1>7. \A x \in Chunk : \A q \in Thread :
        /\ AddHolds(q, x)' <=> AddHolds(q, x)
        /\ Holder(q, x)' <=> Holder(q, x) /\ q # p
  BY <1>1, <1>2 DEF AddHolds, Holder, IInv, TypeInv, TypeOK
<1>8. /\ packed'[d].count = count[p]
      /\ \A x \in Chunk \ {d} : packed'[x] = packed[x]
      /\ \A q \in Thread \ {p} : count'[q] = count[q]
  BY <1>1, <1>5 DEF IInv, TypeInv, TypeOK
<1>9. \A q \in Thread : ~AddHolds(q, d) /\ (Holder(q, d) => q = p)
  BY <1>6 DEF IInv, LockInv
<1>10. LockInv'
  BY <1>6, <1>7, <1>8, <1>9 DEF IInv, LockInv, IsLocked
<1>11. CountInv'
  <2>1. \A x \in Chunk :
          /\ (\A q \in Thread : ~Holder(q, x)') => Packed(x, packed'[x].count)
          /\ \A q \in Thread : Holder(q, x)' => Packed(x, count'[q])
    BY <1>6, <1>7, <1>8, <1>9 DEF IInv, CountInv
  <2> QED
    BY <1>1, <2>1 DEF CountInv, Packed
<1>12. SamePlaces
  BY <1>1 DEF SamePlaces, history
<1> QED
  BY <1>1, <1>4, <1>10, <1>11, <1>12, PlacesKept DEF IInv
-----------------------------------------------------------------------------
LEMMA IInvInit == Init => IInv
<1> SUFFICES ASSUME Init PROVE IInv
  OBVIOUS
<1>1. /\ 0 \in 0..TasksPerChunk /\ 0 \in 0..MaxDepth
      /\ TasksPerChunk \in Nat \ {0}
  BY QueueAssumption
<1>2. TypeInv
  <2>1. TypeOK
    BY <1>1 DEF Init, TypeOK
  <2> QED
    BY <2>1, FirstAt DEF Init, TypeInv
<1>3. LockInv
  BY DEF Init, LockInv, AddHolds, Holder
<1>4. \A c \in Chunk : \A i \in Slot : array[c][i] = NoTask
  BY DEF Init, Slot
<1>5. CountInv
  BY <1>4 DEF Init, CountInv, Packed, Holder, Slot
<1>6. ApartInv /\ AddInv
  BY <1>4 DEF Init, ApartInv, AddInv
<1>7. PlaceInv
  <2>1. Queued = {}
    BY <1>4, QueueAssumption DEF Init, Queued, Slot
  <2>2. \A t \in Task : ~Adding(t)
    BY QueueAssumption DEF Init, Adding
  <2> QED
    BY <2>1, <2>2 DEF Init, PlaceInv
<1> QED
  BY <1>2, <1>3, <1>5, <1>6, <1>7 DEF IInv

LEMMA IInvStep ==
    ASSUME IInv, [Next]_vars
    PROVE  IInv'
<1>1. CASE UNCHANGED vars
  <2>1. /\ UNCHANGED <<array, packed, depthOf, addPc, addTask, addAt, pullPc, pullAt,
                       pos, count, second, pulled, history>>
    BY <1>1 DEF vars, queueVars, addVars, pullVars
  <2>2. TypeInv'
    BY <2>1 DEF IInv, TypeInv, TypeOK, history
  <2>3. SameLocks /\ SamePlaces
    BY <2>1 DEF SameLocks, SamePlaces, AddHolds, Holder, history
  <2> QED
    BY <2>1, <2>2, <2>3, LocksKept, PlacesKept DEF IInv
<1>2. ASSUME NEW p \in Thread, AddStep(p) PROVE IInv'
  BY <1>2, QuietAddStep, AddLockStep, InsertStep, ChunkFullStep
  DEF AddStep, QuietAdd
<1>3. ASSUME NEW p \in Thread, PullStep(p) \/ CallPull(p) PROVE IInv'
  BY <1>3, QuietPullStep, PullLockStep, PassStep, TakeStep, DropStep, UnlockStep
  DEF PullStep, QuietPull
<1> QED
  BY <1>1, <1>2, <1>3, CallAddStep, ChangeStep DEF Next

LEMMA IInvAlways == Spec => []IInv
<1>1. IInv /\ [Next]_vars => IInv'
  BY IInvStep
<1> QED
  BY IInvInit, <1>1, PTL DEF Spec

\* Types, and every place a thread is at is a chunk.
THEOREM QueueTypeCorrect == Spec => []TypeOK
<1>1. IInv => TypeOK
  BY DEF IInv, TypeInv
<1> QED
  BY IInvAlways, <1>1, PTL

\* The number in the packed word, or that of the search that has the chunk, says
\* which slots hold a task.
THEOREM CountTellsTasks == Spec => []NoGap
<1>1. ASSUME IInv PROVE NoGap
  <2> SUFFICES ASSUME NEW c \in Chunk, NEW i \in DOMAIN array[c]
               PROVE  array[c][i] # NoTask <=>
                        \/ (\E p \in Thread : Holder(p, c) /\ i < count[p])
                        \/ (\A p \in Thread : ~Holder(p, c)) /\ i < packed[c].count
    BY DEF NoGap
  <2>1. i \in Slot
    BY <1>1 DEF IInv, TypeInv, TypeOK, Slot
  <2>2. CASE \E p \in Thread : Holder(p, c)
    <3>1. PICK p \in Thread : Holder(p, c)
      BY <2>2
    <3>2. \A q \in Thread : Holder(q, c) => q = p
      BY <1>1, <3>1 DEF IInv, LockInv
    <3>3. array[c][i] # NoTask <=> i < count[p]
      BY <1>1, <2>1, <3>1 DEF IInv, CountInv, Packed
    <3> QED
      BY <3>1, <3>2, <3>3
  <2>3. CASE \A p \in Thread : ~Holder(p, c)
    BY <1>1, <2>1, <2>3 DEF IInv, CountInv, Packed
  <2> QED
    BY <2>2, <2>3
<1> QED
  BY IInvAlways, <1>1, PTL

\* A task that Add() was called for is in one slot of one array, in the hands of
\* one thread that adds it, handed over to be run, or canceled.
THEOREM NoneLostOrDoubled == Spec => []OnePlace
<1>1. ASSUME IInv, NEW t \in called
      PROVE  \E x \in Places(t) : Places(t) = {x}
  <2>1. t \in Task /\ t # NoTask
    BY <1>1, QueueAssumption DEF IInv, TypeInv
  <2>2. \A c \in Chunk : DOMAIN array[c] = Slot
    BY <1>1 DEF IInv, TypeInv, TypeOK, Slot
  <2>3. t \notin Queued => Slots(t) = {}
    <3>1. \A s \in Chunk \X Slot : s[1] \in Chunk /\ s[2] \in Slot
      OBVIOUS
    <3> QED
      BY <2>1, <2>2, <3>1 DEF Queued, Slots, Slot
  <2>4. CASE t \in Queued
    <3>1. PICK c \in Chunk : \E i \in Slot : array[c][i] = t
      BY <2>2, <2>4 DEF Queued
    <3>2. PICK i \in Slot : array[c][i] = t
      BY <3>1
    <3>3. \A d \in Chunk : \A k \in Slot : array[d][k] = t => d = c /\ k = i
      BY <1>1, <2>1, <3>2 DEF IInv, ApartInv
    <3>4. Slots(t) = {<<c, i>>}
      <4>1. \A s \in Chunk \X Slot :
                s = <<s[1], s[2]>> /\ s[1] \in Chunk /\ s[2] \in Slot
        OBVIOUS
      <4>2. <<c, i>> \in Chunk \X Slot /\ <<c, i>>[1] = c /\ <<c, i>>[2] = i
        OBVIOUS
      <4> QED
        BY <3>2, <3>3, <4>1, <4>2 DEF Slots, Slot
    <3>5. /\ {q \in Thread : addTask[q] = t} = {}
          /\ {t} \intersect ran = {} /\ {t} \intersect dropped = {}
      BY <1>1, <2>1, <2>4 DEF IInv, PlaceInv, Adding
    <3> QED
      BY <3>4, <3>5 DEF Places
  <2>5. CASE Adding(t)
    <3>1. PICK p \in Thread : addTask[p] = t
      BY <2>5 DEF Adding
    <3>2. {q \in Thread : addTask[q] = t} = {p}
      BY <1>1, <2>1, <3>1 DEF IInv, AddInv
    <3>3. Slots(t) = {} /\ {t} \intersect ran = {} /\ {t} \intersect dropped = {}
      BY <1>1, <2>1, <2>3, <2>5 DEF IInv, PlaceInv
    <3>4. \A x : x \in Places(t) <=> x = <<"add", p>>
      BY <3>2, <3>3 DEF Places
    <3>5. Places(t) = {<<"add", p>>}
      BY <3>4
    <3> QED
      BY <3>5
  <2>6. CASE t \in ran \/ t \in dropped
    <3>1. Slots(t) = {} /\ {q \in Thread : addTask[q] = t} = {}
      BY <1>1, <2>1, <2>3, <2>6 DEF IInv, PlaceInv, Adding
    <3>2. \/ {t} \intersect ran = {t} /\ {t} \intersect dropped = {}
          \/ {t} \intersect ran = {} /\ {t} \intersect dropped = {t}
      BY <1>1, <2>1, <2>6 DEF IInv, PlaceInv
    <3>3. CASE {t} \intersect ran = {t} /\ {t} \intersect dropped = {}
      <4>1. \A x : x \in Places(t) <=> x = <<"ran", t>>
        BY <3>1, <3>3 DEF Places
      <4>2. Places(t) = {<<"ran", t>>}
        BY <4>1
      <4> QED
        BY <4>2
    <3>4. CASE {t} \intersect ran = {} /\ {t} \intersect dropped = {t}
      <4>1. \A x : x \in Places(t) <=> x = <<"dropped", t>>
        BY <3>1, <3>4 DEF Places
      <4>2. Places(t) = {<<"dropped", t>>}
        BY <4>1
      <4> QED
        BY <4>2
    <3> QED
      BY <3>2, <3>3, <3>4
  <2> QED
    BY <1>1, <2>1, <2>4, <2>5, <2>6 DEF IInv, PlaceInv
<1>2. IInv => OnePlace
  BY <1>1 DEF OnePlace
<1> QED
  BY IInvAlways, <1>2, PTL
-----------------------------------------------------------------------------
(* The bag of tasks                                                        *)

BagStutter == UNCHANGED <<Queued, ran, dropped, inputsOf>>

\* Nothing but the insertion, the removal and the readiness is seen outside.
LEMMA SilentStep ==
    ASSUME IInv, UNCHANGED <<array, ran, dropped, inputsOf>>
    PROVE  BagStutter
BY DEF BagStutter, Queued

LEMMA InsertIsAdd ==
    ASSUME IInv, NEW p \in Thread, Insert(p)
    PROVE  \E t \in Task : Bag!Add(t)
<1>1. PICK c \in Chunk, n \in Slot : InsertAt(p, c, n)
  BY InsertFacts
<1>2. addTask[p] \in Task /\ addTask[p] \notin Queued
      /\ Queued' = Queued \union {addTask[p]}
  BY <1>1, InsertSlots DEF InsertAt
<1>3. addTask[p] \notin ran /\ addTask[p] \notin dropped
  BY <1>2 DEF IInv, PlaceInv, Adding
<1>4. UNCHANGED <<ran, dropped, inputsOf>>
  BY <1>1 DEF InsertAt, history
<1> QED
  BY <1>2, <1>3, <1>4 DEF Bag!Add

LEMMA TakeIsTake ==
    ASSUME IInv, NEW p \in Thread, TakeTask(p)
    PROVE  \E t \in Task : Bag!Take(t)
<1>1. Current(p) \in Queued /\ Queued' = Queued \ {Current(p)}
  BY TakeStep
<1>2. Current(p) \in Task
  BY <1>1 DEF Queued
<1>3. /\ inputsOf[Current(p)] = "ready" /\ ran' = ran \union {Current(p)}
      /\ UNCHANGED <<dropped, inputsOf>>
  BY DEF TakeTask
<1> QED
  BY <1>1, <1>2, <1>3 DEF Bag!Take

LEMMA DropIsDrop ==
    ASSUME IInv, NEW p \in Thread, DropTask(p)
    PROVE  \E t \in Task : Bag!Drop(t)
<1>1. Current(p) \in Queued /\ Queued' = Queued \ {Current(p)}
  BY DropStep
<1>2. Current(p) \in Task
  BY <1>1 DEF Queued
<1>3. /\ inputsOf[Current(p)] = "canceled" /\ dropped' = dropped \union {Current(p)}
      /\ UNCHANGED <<ran, inputsOf>>
  BY DEF DropTask
<1> QED
  BY <1>1, <1>2, <1>3 DEF Bag!Drop

LEMMA ChangeIsChange ==
    ASSUME IInv, NEW t \in Task, NEW r \in {"ready", "canceled"}, Change(t, r)
    PROVE  Bag!Change(t, r)
<1>1. Queued' = Queued
  BY DEF Change, queueVars, Queued
<1> QED
  BY <1>1 DEF Change, Bag!Change

\* LfTaskQueue is the bag of tasks that the scheduler takes it for, however
\* additions, searches and cancellations meet.
THEOREM QueueIsBag == Spec => ImplementsBag
<1>1. Init => Bag!Init
  <2> SUFFICES ASSUME Init PROVE Bag!Init
    OBVIOUS
  <2>1. Queued = {}
    BY QueueAssumption DEF Init, Queued
  <2> QED
    BY <2>1 DEF Init, Bag!Init
<1>2. ASSUME IInv, [Next]_vars PROVE [Bag!Next]_Bag!vars
  <2>1. BagStutter => UNCHANGED Bag!vars
    BY DEF BagStutter, Bag!vars
  <2>2. CASE UNCHANGED vars
    BY <1>2, <2>1, <2>2, SilentStep DEF vars, queueVars, history
  <2>3. ASSUME NEW p \in Thread, AddStep(p) PROVE [Bag!Next]_Bag!vars
    <3>1. CASE Insert(p)
      BY <1>2, <3>1, InsertIsAdd DEF Bag!Next
    <3>2. CASE ~Insert(p)
      <4>1. UNCHANGED <<array, ran, dropped, inputsOf>>
        BY <2>3, <3>2
        DEF AddStep, AddLock, AddSkip, ChunkFull, NextChunk, Overflow, queueVars,
            history
      <4> QED
        BY <1>2, <2>1, <4>1, SilentStep
    <3> QED
      BY <3>1, <3>2
  <2>4. ASSUME NEW p \in Thread, PullStep(p) \/ CallPull(p)
        PROVE  [Bag!Next]_Bag!vars
    <3>1. CASE TakeTask(p)
      BY <1>2, <3>1, TakeIsTake DEF Bag!Next
    <3>2. CASE DropTask(p)
      BY <1>2, <3>2, DropIsDrop DEF Bag!Next
    <3>3. CASE ~TakeTask(p) /\ ~DropTask(p)
      <4>1. UNCHANGED <<array, ran, dropped, inputsOf>>
        BY <2>4, <3>3
        DEF PullStep, CallPull, Load, PullSkip, PullLock, KeepTask, Wrap, Unlock,
            PullNext, queueVars, history
      <4> QED
        BY <1>2, <2>1, <4>1, SilentStep
    <3> QED
      BY <3>1, <3>2, <3>3
  <2>5. ASSUME NEW p \in Thread, NEW t \in Task, CallAdd(p, t)
        PROVE  [Bag!Next]_Bag!vars
    <3>1. UNCHANGED <<array, ran, dropped, inputsOf>>
      BY <2>5 DEF CallAdd, queueVars
    <3> QED
      BY <1>2, <2>1, <3>1, SilentStep
  <2>6. ASSUME NEW t \in Task, NEW r \in {"ready", "canceled"}, Change(t, r)
        PROVE  [Bag!Next]_Bag!vars
    BY <1>2, <2>6, ChangeIsChange DEF Bag!Next, Bag!Readiness
  <2> QED
    BY <1>2, <2>2, <2>3, <2>4, <2>5, <2>6 DEF Next
<1> QED
  BY IInvAlways, <1>1, <1>2, PTL DEF Spec, ImplementsBag, Bag!Spec
==============================================================================
