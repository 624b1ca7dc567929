--------------------------- MODULE IndexedPoolProofs ---------------------------
(***************************************************************************)
(* Proofs about IndexedPool, for every number of threads, chunks, groups   *)
(* and elements: an element is handed out once, the bits tell who has      *)
(* what, the high level is exact when nobody is about to update it, and a  *)
(* search that no Unassign overlaps fails only if the pool is exhausted.   *)
(***************************************************************************)
EXTENDS IndexedPool, FiniteSetTheorems, WellFoundedInduction, TLAPS

Search == {"chunk", "lockAlloc", "setPtr", "setCount", "load", "groups"}
Give == {"find", "clear"}
Update == {"lockFull", "check", "write"}

TypeInv ==
    /\ assigned \in [Chunk \X Group -> SUBSET Slot]
    /\ full \in [Chunk -> SUBSET Group]
    /\ guard \in [Chunk -> Thread \union {None}]
    /\ chunksPtr \subseteq Chunk
    /\ highChunkCount \in 0..MaxChunks
    /\ allocGuard \in Thread \union {None}
    /\ pc \in [Thread -> {"idle"} \union Search \union Give \union Update]
    /\ at \in [Thread -> 0..MaxChunks]
    /\ known \in [Thread -> 0..MaxChunks]
    /\ seen \in [Thread -> SUBSET Group]
    /\ group \in [Thread -> Group]
    /\ arg \in [Thread -> Index \union {None}]
    /\ held \subseteq Index /\ lost \subseteq Index
    /\ overlap \in [Thread -> BOOLEAN]

\* Who searches begins at the first chunk and unassigns nothing; who is in a
\* chunk is in one of the table.
PlaceInv ==
    \A p \in Thread :
        /\ pc[p] = "idle" => at[p] = 0
        /\ pc[p] \in {"idle"} \union Search => arg[p] = None
        /\ pc[p] \in Give => arg[p] # None
        /\ pc[p] \in (Search \ {"chunk"}) \union Update => at[p] < MaxChunks

\* An index is in one place: held, lost, or in the hands of one thread.
GiveInv ==
    /\ held \intersect lost = {}
    /\ \A p \in Thread : pc[p] \in Give => arg[p] \notin held \union lost
    /\ \A p, q \in Thread :
          pc[p] \in Give /\ pc[q] \in Give /\ arg[p] = arg[q] => p = q

GuardInv == \A p \in Thread : pc[p] \in {"check", "write"} => guard[at[p]] = p

Marks(p, c, g) == Updating(p, c, g) /\ arg[p] = None
Unmarks(p, c, g) == Updating(p, c, g) /\ arg[p] # None

\* A mark that is wrong, or is going to be written wrong, is put right by a
\* thread that has still to take the lock.
MarkInv(c, g) ==
    /\ g \in full[c] /\ assigned[<<c, g>>] # Slot => \E p \in Thread : Unmarks(p, c, g)
    /\ g \notin full[c] /\ assigned[<<c, g>>] = Slot => \E p \in Thread : Marks(p, c, g)
    /\ \A p \in Thread :
          /\ pc[p] = "write" /\ Marks(p, c, g) /\ assigned[<<c, g>>] # Slot =>
                \E q \in Thread : pc[q] = "lockFull" /\ Unmarks(q, c, g)
          /\ pc[p] = "write" /\ Unmarks(p, c, g) /\ assigned[<<c, g>>] = Slot =>
                \E q \in Thread : pc[q] = "lockFull" /\ Marks(q, c, g)

MarksInv == \A c \in Chunk, g \in Group : MarkInv(c, g)

\* What a search that no Unassign overlaps has behind it is assigned.
BehindInv ==
    \A p \in Thread : pc[p] \in Search /\ ~overlap[p] =>
        /\ \A q \in Thread : arg[q] = None
        /\ \A x \in Chunk \X Group : x[1] < at[p] => assigned[x] = Slot
        /\ pc[p] = "groups" => \A g \in Group \ seen[p] : assigned[<<at[p], g>>] = Slot

IInv == TypeInv /\ PlaceInv /\ GiveInv /\ BitsTellHeld /\ GuardInv /\ MarksInv /\ BehindInv

-----------------------------------------------------------------------------
(* Arithmetic of the indices, and the first element of a set.              *)

\* The fundamental theorem of division.
LEMMA DivMod ==
    ASSUME NEW m \in Nat \ {0}, NEW q \in Nat, NEW r \in 0..(m - 1)
    PROVE  (q * m + r) \div m = q /\ (q * m + r) % m = r
  BY SMTT(30)

LEMMA DivModInverse ==
    ASSUME NEW m \in Nat \ {0}, NEW n \in Nat
    PROVE  /\ n \div m \in Nat /\ n % m \in 0..(m - 1)
           /\ (n \div m) * m + (n % m) = n
  BY SMTT(30)

\* q * m + r < n * m when q < n and r < m.
LEMMA BelowProduct ==
    ASSUME NEW m \in Nat \ {0}, NEW n \in Nat, NEW q \in 0..(n - 1), NEW r \in 0..(m - 1)
    PROVE  q * m + r \in 0..(n * m - 1)
<1>1. q * m >= 0 /\ q * m \in Int /\ n * m \in Int
  BY SMTT(30)
<1>2. (n - 1 - q) * m >= 0
  BY SMTT(30)
<1>3. n * m - m - q * m >= 0
  BY <1>2, SMTT(30)
<1> QED
  BY <1>1, <1>3

LEMMA QuotientBelow ==
    ASSUME NEW m \in Nat \ {0}, NEW n \in Nat, NEW k \in 0..(n * m - 1)
    PROVE  k \div m \in 0..(n - 1)
<1>1. k \in Nat
  BY SMTT(30)
<1>2. k \div m \in Nat /\ (k \div m) * m + (k % m) = k /\ k % m >= 0
  BY <1>1, DivModInverse
<1>3. ASSUME k \div m >= n PROVE FALSE
  <2>1. (k \div m - n) * m >= 0
    BY <1>2, <1>3, SMTT(30)
  <2>2. (k \div m) * m >= n * m
    BY <1>2, <2>1, SMTT(30)
  <2> QED
    BY <1>2, <2>2
<1> QED
  BY <1>2, <1>3

LEMMA SizeType == ChunkSize \in Nat \ {0}
  BY PoolAssumption, SMTT(30) DEF ChunkSize

\* An index and the chunk, group and element it stands for determine each other.
LEMMA IndexOfPlace ==
    ASSUME NEW c \in Chunk, NEW g \in Group, NEW s \in Slot
    PROVE  /\ IndexOfSlot(c, g, s) \in Index
           /\ ChunkOf(IndexOfSlot(c, g, s)) = c
           /\ GroupOf(IndexOfSlot(c, g, s)) = g
           /\ SlotOf(IndexOfSlot(c, g, s)) = s
<1> DEFINE r == g * LowLvlCount + s
<1>1. r \in 0..(ChunkSize - 1)
  BY BelowProduct, PoolAssumption DEF ChunkSize, Group, Slot
<1>2. r \div LowLvlCount = g /\ r % LowLvlCount = s
  BY DivMod, PoolAssumption DEF Group, Slot
<1> HIDE DEF r
<1>3. IndexOfSlot(c, g, s) = c * ChunkSize + r
  BY DEF IndexOfSlot, r
<1>4. /\ (c * ChunkSize + r) \div ChunkSize = c
      /\ (c * ChunkSize + r) % ChunkSize = r
  BY <1>1, DivMod, SizeType DEF Chunk
<1>5. c * ChunkSize + r \in Index
  BY <1>1, BelowProduct, SizeType, PoolAssumption DEF Index, Chunk
<1> QED
  BY <1>2, <1>3, <1>4, <1>5 DEF ChunkOf, GroupOf, SlotOf

LEMMA PlaceOfIndex ==
    ASSUME NEW i \in Index
    PROVE  /\ ChunkOf(i) \in Chunk /\ GroupOf(i) \in Group /\ SlotOf(i) \in Slot
           /\ IndexOfSlot(ChunkOf(i), GroupOf(i), SlotOf(i)) = i
<1> DEFINE r == i % ChunkSize
<1>1. i \in Nat
  BY DEF Index
<1>2. /\ i \div ChunkSize \in Chunk
      /\ r \in 0..(ChunkSize - 1) /\ (i \div ChunkSize) * ChunkSize + r = i
  BY <1>1, QuotientBelow, DivModInverse, SizeType, PoolAssumption DEF Index, Chunk
<1> HIDE DEF r
<1>3. /\ r \div LowLvlCount \in Group
      /\ r % LowLvlCount \in Slot
      /\ (r \div LowLvlCount) * LowLvlCount + (r % LowLvlCount) = r
  <2>1. r \in 0..(HighLvlCount * LowLvlCount - 1)
    BY <1>2 DEF ChunkSize
  <2>2. r \in Nat
    BY <1>2, SizeType
  <2> QED
    BY <2>1, <2>2, QuotientBelow, DivModInverse, PoolAssumption DEF Group, Slot
<1> QED
  BY <1>2, <1>3 DEF ChunkOf, GroupOf, SlotOf, IndexOfSlot, r

\* First(S) is an element of S: the elements below a given one are a finite set,
\* and strict inclusion of finite sets is well founded.
LEMMA FirstIsIn ==
    ASSUME NEW n \in Nat, NEW S \in SUBSET (0..n), S # {}
    PROVE  First(S) \in S
<1> DEFINE Below(k) == {j \in S : j <= k}
           T == {Below(k) : k \in S}
           U == FiniteSubsetsOf(S)
<1>1. IsFiniteSet(S)
  <2>1. IsFiniteSet(0..n)
    BY FS_Interval
  <2> QED
    BY <2>1, FS_Subset
<1>2. U = SUBSET S
  BY <1>1, FS_FiniteSubsetsOfFinite
<1>3. IsWellFoundedOn(StrictSubsetOrdering(S), U)
  BY FS_StrictSubsetOrderingWellFounded
<1>4. T \subseteq U /\ T # {}
  <2>1. \A k \in S : Below(k) \in SUBSET S
    OBVIOUS
  <2>2. T # {}
    OBVIOUS
  <2> HIDE DEF U
  <2> QED
    BY <1>2, <2>1, <2>2
<1>5. PICK x \in T : \A y \in T : ~ (<<y, x>> \in StrictSubsetOrdering(S))
  <2> HIDE DEF T, U
  <2> QED
    BY <1>3, <1>4, WFMin
<1>6. PICK k \in S : x = Below(k)
  BY <1>5
<1>7. ASSUME NEW j \in S, j < k PROVE FALSE
  <2>1. Below(j) \subseteq x /\ k \in x /\ k \notin Below(j)
    <3>1. j \in Nat /\ k \in Nat /\ \A i \in S : i \in Nat
      OBVIOUS
    <3>2. k \in Below(k) /\ k \notin Below(j)
      BY <1>7, <3>1
    <3>3. \A i \in Below(j) : i \in Below(k)
      <4> SUFFICES ASSUME NEW i \in S, i <= j PROVE i <= k
        OBVIOUS
      <4>1. i \in Nat /\ j \in Nat /\ k \in Nat
        BY <3>1
      <4> QED
        BY <1>7, <4>1
    <3> HIDE DEF Below
    <3> QED
      BY <1>6, <3>2, <3>3
  <2>2. <<Below(j), x>> \in StrictSubsetOrdering(S)
    BY <2>1, <1>4, <1>2 DEF StrictSubsetOrdering
  <2> QED
    BY <1>5, <2>2
<1>8. \A j \in S : k <= j
  BY <1>7
<1> QED
  BY <1>6, <1>8 DEF First

LEMMA FirstGroup == ASSUME NEW S \in SUBSET Group, S # {} PROVE First(S) \in S
<1> DEFINE n == HighLvlCount - 1
<1>1. n \in Nat /\ S \in SUBSET (0..n)
  BY PoolAssumption DEF Group
<1> HIDE DEF n
<1> QED
  BY <1>1, FirstIsIn

LEMMA FirstSlot == ASSUME NEW S \in SUBSET Slot, S # {} PROVE First(S) \in S
<1> DEFINE n == LowLvlCount - 1
<1>1. n \in Nat /\ S \in SUBSET (0..n)
  BY PoolAssumption DEF Slot
<1> HIDE DEF n
<1> QED
  BY <1>1, FirstIsIn

-----------------------------------------------------------------------------
(* Types.                                                                  *)

StepOf(p) ==
    \/ CallAssign(p) \/ AssignStep(p) \/ UnassignStep(p) \/ UpdateStep(p)
    \/ \E i \in held : CallUnassign(p, i) \/ CallUnassignPtr(p, i)

LEMMA Places ==
    ASSUME TypeInv, PlaceInv, NEW p \in Thread
    PROVE  /\ pc[p] \in (Search \ {"chunk"}) \union Update => at[p] \in Chunk
           /\ pc[p] \in Give => /\ arg[p] \in Index
                                /\ ChunkOf(arg[p]) \in Chunk /\ GroupOf(arg[p]) \in Group
                                /\ SlotOf(arg[p]) \in Slot
<1>1. pc[p] \in (Search \ {"chunk"}) \union Update => at[p] \in Chunk
  BY PoolAssumption DEF TypeInv, PlaceInv, Chunk
<1>2. pc[p] \in Give => arg[p] \in Index
  BY DEF TypeInv, PlaceInv
<1> QED
  BY <1>1, <1>2, PlaceOfIndex

LEMMA FirstElements ==
    ASSUME TypeInv, PlaceInv, NEW p \in Thread, pc[p] = "groups", seen[p] # {}
    PROVE  /\ Elements(p) = <<at[p], First(seen[p])>>
           /\ at[p] \in Chunk /\ First(seen[p]) \in seen[p] /\ First(seen[p]) \in Group
           /\ Elements(p) \in Chunk \X Group
<1>1. at[p] \in Chunk
  BY Places DEF Search
<1>2. First(seen[p]) \in seen[p] /\ First(seen[p]) \in Group
  BY FirstGroup DEF TypeInv
<1> QED
  BY <1>1, <1>2 DEF Elements

\* What is left of the locals after the call has returned.
LEMMA ReturnType ==
    ASSUME TypeInv, NEW p \in Thread, Return(p)
    PROVE  /\ pc' \in [Thread -> {"idle"} \union Search \union Give \union Update]
           /\ at' \in [Thread -> 0..MaxChunks] /\ known' \in [Thread -> 0..MaxChunks]
           /\ seen' \in [Thread -> SUBSET Group] /\ group' \in [Thread -> Group]
           /\ arg' \in [Thread -> Index \union {None}] /\ overlap' \in [Thread -> BOOLEAN]
<1>1. 0 \in 0..MaxChunks /\ 0 \in Group
  BY PoolAssumption DEF Group
<1> QED
  BY <1>1 DEF TypeInv, Return, Goto

LEMMA AssignType ==
    ASSUME TypeInv, PlaceInv, NEW p \in Thread, CallAssign(p) \/ AssignStep(p)
    PROVE  TypeInv'
<1> USE DEF Goto
<1>1. CASE CallAssign(p)
  BY <1>1 DEF CallAssign, TypeInv, poolVars, Search
<1>2. CASE EnterChunk(p)
  BY <1>2 DEF EnterChunk, TypeInv, poolVars, locals, history, Search
<1>3. CASE LockAlloc(p)
  BY <1>3 DEF LockAlloc, TypeInv, poolVars, locals, history, Search
<1>4. CASE AllocChunk(p)
  BY <1>4 DEF AllocChunk, TypeInv, locals, history, Search
<1>5. CASE ChunkAllocated(p)
  BY <1>5 DEF ChunkAllocated, TypeInv, poolVars, locals, history, Search
<1>6. CASE AllocFails(p)
  BY <1>6, ReturnType DEF AllocFails, TypeInv
<1>7. CASE SetPtr(p)
  <2>1. at[p] \in Chunk
    BY <1>7, Places DEF SetPtr, Search
  <2> QED
    BY <1>7, <2>1 DEF SetPtr, TypeInv, locals, history, Search
<1>8. CASE SetCount(p)
  <2>1. at[p] + 1 \in 0..MaxChunks
    BY <1>8, Places, PoolAssumption DEF SetCount, Search, Chunk
  <2> QED
    BY <1>8, <2>1 DEF SetCount, TypeInv, locals, history, Search
<1>9. CASE LoadAvailable(p)
  BY <1>9 DEF LoadAvailable, TypeInv, poolVars, history, Search
<1>10. CASE TakeElement(p)
  <2> DEFINE x == Elements(p)
             s == First(Slot \ assigned[x])
  <2>1. /\ x \in Chunk \X Group /\ x[1] \in Chunk /\ x[2] \in Group
    BY <1>10, FirstElements DEF TakeElement
  <2>2. s \in Slot
    BY <1>10, <2>1, FirstSlot DEF TakeElement
  <2>3. IndexOfSlot(x[1], x[2], s) \in Index
    BY <2>1, <2>2, IndexOfPlace
  <2> HIDE DEF x, s
  <2>4. /\ assigned' = [assigned EXCEPT ![x] = @ \union {s}]
        /\ held' = held \union {IndexOfSlot(x[1], x[2], s)}
        /\ UNCHANGED <<full, guard, chunksPtr, highChunkCount, allocGuard, lost>>
        /\ \/ /\ pc' = [pc EXCEPT ![p] = "lockFull"]
              /\ group' = [group EXCEPT ![p] = x[2]]
              /\ UNCHANGED <<at, known, seen, arg, overlap>>
           \/ Return(p)
    BY <1>10 DEF TakeElement, x, s
  <2>5. assigned' \in [Chunk \X Group -> SUBSET Slot] /\ held' \subseteq Index
    BY <2>1, <2>2, <2>3, <2>4 DEF TypeInv
  <2>6. CASE Return(p)
    BY <2>4, <2>5, <2>6, ReturnType DEF TypeInv
  <2>7. CASE ~Return(p)
    BY <2>1, <2>4, <2>5, <2>7 DEF TypeInv, Update
  <2> QED
    BY <2>6, <2>7
<1>11. CASE SkipGroup(p)
  BY <1>11 DEF SkipGroup, TypeInv, poolVars, history
<1>12. CASE LeaveChunk(p)
  <2>1. at[p] + 1 \in 0..MaxChunks
    BY <1>12, Places, PoolAssumption DEF LeaveChunk, Search, Chunk
  <2> QED
    BY <1>12, <2>1 DEF LeaveChunk, TypeInv, poolVars, history, Search
<1>13. CASE AssignFails(p)
  BY <1>13, ReturnType DEF AssignFails, TypeInv, poolVars
<1> QED
  BY <1>1, <1>2, <1>3, <1>4, <1>5, <1>6, <1>7, <1>8, <1>9, <1>10, <1>11, <1>12, <1>13
  DEF AssignStep

LEMMA UnassignType ==
    ASSUME TypeInv, PlaceInv, NEW p \in Thread,
           \/ UnassignStep(p)
           \/ \E i \in held : CallUnassign(p, i) \/ CallUnassignPtr(p, i)
    PROVE  TypeInv'
<1> USE DEF Goto
<1>1. ASSUME NEW i \in held, CallUnassign(p, i) \/ CallUnassignPtr(p, i) PROVE TypeInv'
  <2>1. PICK l \in Give : StartUnassign(p, i, l)
    BY <1>1 DEF CallUnassign, CallUnassignPtr, Give
  <2>2. arg' \in [Thread -> Index \union {None}] /\ held' \subseteq Index
    BY <2>1 DEF StartUnassign, TypeInv
  <2>3. overlap' \in [Thread -> BOOLEAN]
    BY <2>1 DEF StartUnassign, TypeInv
  <2>4. pc' \in [Thread -> {"idle"} \union Search \union Give \union Update]
    BY <2>1 DEF StartUnassign, TypeInv
  <2> QED
    BY <2>1, <2>2, <2>3, <2>4 DEF StartUnassign, TypeInv, poolVars
<1>2. CASE FindIndex(p)
  BY <1>2 DEF FindIndex, TypeInv, poolVars, locals, history, Give
<1>3. CASE FindNoIndex(p)
  <2>1. arg[p] \in Index
    BY <1>3, Places DEF FindNoIndex, Give
  <2> QED
    BY <1>3, <2>1, ReturnType DEF FindNoIndex, TypeInv, poolVars
<1>4. CASE ClearBit(p)
  <2> DEFINE x == <<ChunkOf(arg[p]), GroupOf(arg[p])>>
  <2>1. /\ x \in Chunk \X Group /\ x[1] \in Chunk /\ x[2] \in Group
        /\ x[1] \in 0..MaxChunks
    BY <1>4, Places, PoolAssumption DEF ClearBit, Give, Chunk
  <2> HIDE DEF x
  <2>2. /\ assigned' = [assigned EXCEPT ![x] = @ \ {SlotOf(arg[p])}]
        /\ UNCHANGED <<full, guard, chunksPtr, highChunkCount, allocGuard, held, lost>>
        /\ \/ /\ pc' = [pc EXCEPT ![p] = "lockFull"]
              /\ at' = [at EXCEPT ![p] = x[1]]
              /\ group' = [group EXCEPT ![p] = x[2]]
              /\ UNCHANGED <<known, seen, arg, overlap>>
           \/ Return(p)
    BY <1>4 DEF ClearBit, x
  <2>3. assigned' \in [Chunk \X Group -> SUBSET Slot]
    BY <2>1, <2>2 DEF TypeInv
  <2>4. CASE Return(p)
    BY <2>2, <2>3, <2>4, ReturnType DEF TypeInv
  <2>5. CASE ~Return(p)
    BY <2>1, <2>2, <2>3, <2>5 DEF TypeInv, Update
  <2> QED
    BY <2>4, <2>5
<1> QED
  BY <1>1, <1>2, <1>3, <1>4 DEF UnassignStep

LEMMA UpdateType ==
    ASSUME TypeInv, PlaceInv, NEW p \in Thread, UpdateStep(p)
    PROVE  TypeInv'
<1> USE DEF Goto
<1>1. CASE LockFull(p)
  BY <1>1 DEF LockFull, TypeInv, locals, history, Update
<1>2. CASE CheckFull(p)
  BY <1>2 DEF CheckFull, TypeInv, poolVars, locals, history, Update
<1>3. CASE NoUpdate(p)
  BY <1>3, ReturnType DEF NoUpdate, TypeInv
<1>4. CASE WriteFull(p)
  <2>1. full' \in [Chunk -> SUBSET Group] /\ guard' \in [Chunk -> Thread \union {None}]
    <3>1. group[p] \in Group /\ at[p] \in Chunk
      BY <1>4, Places DEF WriteFull, TypeInv, Update
    <3>2. \/ full' = [full EXCEPT ![at[p]] = @ \ {group[p]}]
          \/ full' = [full EXCEPT ![at[p]] = @ \union {group[p]}]
      BY <1>4 DEF WriteFull
    <3>3. full' \in [Chunk -> SUBSET Group]
      BY <3>1, <3>2 DEF TypeInv
    <3> QED
      BY <1>4, <3>3 DEF WriteFull, TypeInv
  <2> QED
    BY <1>4, <2>1, ReturnType DEF WriteFull, TypeInv
<1> QED
  BY <1>1, <1>2, <1>3, <1>4 DEF UpdateStep

LEMMA TypeStep ==
    ASSUME TypeInv, PlaceInv, [Next]_vars
    PROVE  TypeInv'
<1>1. ASSUME NEW p \in Thread, StepOf(p) PROVE TypeInv'
  BY <1>1, AssignType, UnassignType, UpdateType DEF StepOf
<1>2. CASE UNCHANGED vars
  BY <1>2 DEF TypeInv, vars, poolVars, locals, history
<1> QED
  BY <1>1, <1>2 DEF Next, StepOf

-----------------------------------------------------------------------------
(* What a step does to the threads.                                        *)

\* The locals of the others stay as they are.
LEMMA OthersKept ==
    ASSUME TypeInv, NEW p \in Thread, StepOf(p), NEW q \in Thread, q # p
    PROVE  /\ pc'[q] = pc[q] /\ at'[q] = at[q] /\ seen'[q] = seen[q]
           /\ group'[q] = group[q] /\ arg'[q] = arg[q]
<1> USE DEF TypeInv, Goto
<1>1. Return(p) => /\ pc'[q] = pc[q] /\ at'[q] = at[q] /\ seen'[q] = seen[q]
                   /\ group'[q] = group[q] /\ arg'[q] = arg[q]
  BY DEF Return
<1>2. CASE CallAssign(p)
  BY <1>2 DEF CallAssign
<1>3. CASE EnterChunk(p) \/ LockAlloc(p) \/ AllocChunk(p) \/ ChunkAllocated(p)
  BY <1>3 DEF EnterChunk, LockAlloc, AllocChunk, ChunkAllocated, locals
<1>4. CASE SetPtr(p) \/ SetCount(p) \/ LoadAvailable(p)
  BY <1>4 DEF SetPtr, SetCount, LoadAvailable, locals
<1>5. CASE AllocFails(p) \/ AssignFails(p)
  BY <1>1, <1>5 DEF AllocFails, AssignFails
<1>6. CASE TakeElement(p)
  <2>1. \/ Return(p)
        \/ /\ pc' = [pc EXCEPT ![p] = "lockFull"]
           /\ group' = [group EXCEPT ![p] = Elements(p)[2]]
           /\ UNCHANGED <<at, seen, arg>>
    BY <1>6 DEF TakeElement
  <2> QED
    BY <1>1, <2>1
<1>7. CASE SkipGroup(p) \/ LeaveChunk(p)
  BY <1>7 DEF SkipGroup, LeaveChunk
<1>8. CASE FindIndex(p) \/ FindNoIndex(p)
  BY <1>1, <1>8 DEF FindIndex, FindNoIndex, locals
<1>9. CASE ClearBit(p)
  <2>1. \/ Return(p)
        \/ /\ pc' = [pc EXCEPT ![p] = "lockFull"]
           /\ at' = [at EXCEPT ![p] = ChunkOf(arg[p])]
           /\ group' = [group EXCEPT ![p] = GroupOf(arg[p])]
           /\ UNCHANGED <<seen, arg>>
    BY <1>9 DEF ClearBit
  <2> QED
    BY <1>1, <2>1
<1>10. CASE UpdateStep(p)
  BY <1>1, <1>10 DEF UpdateStep, LockFull, CheckFull, NoUpdate, WriteFull, locals
<1>11. ASSUME NEW i \in held, CallUnassign(p, i) \/ CallUnassignPtr(p, i)
       PROVE  /\ pc'[q] = pc[q] /\ at'[q] = at[q] /\ seen'[q] = seen[q]
              /\ group'[q] = group[q] /\ arg'[q] = arg[q]
  BY <1>11 DEF CallUnassign, CallUnassignPtr, StartUnassign
<1> QED
  BY <1>2, <1>3, <1>4, <1>5, <1>6, <1>7, <1>8, <1>9, <1>10, <1>11
  DEF StepOf, AssignStep, UnassignStep

\* Where a thread can go.
Moves(p) ==
    \/ pc'[p] = "idle" /\ at'[p] = 0 /\ arg'[p] = None
    \/ /\ \/ pc[p] \in Search /\ pc'[p] \in (Search \ {"chunk"}) \union {"lockFull"}
          \/ pc[p] \in Update /\ pc'[p] \in {"check", "write"}
       /\ arg'[p] = arg[p] /\ at'[p] = at[p] /\ at[p] < MaxChunks
    \/ pc[p] = "groups" /\ pc'[p] = "chunk" /\ arg'[p] = arg[p]
    \/ pc[p] = "idle" /\ pc'[p] = "chunk" /\ at'[p] = at[p] /\ arg'[p] = arg[p]
    \/ pc[p] = "idle" /\ pc'[p] \in Give /\ arg'[p] \in held /\ at'[p] = at[p]
    \/ pc[p] \in Give /\ pc'[p] \in Give /\ arg'[p] = arg[p] /\ at'[p] = at[p]
    \/ pc[p] \in Give /\ pc'[p] = "lockFull" /\ arg'[p] = arg[p] /\ at'[p] < MaxChunks

LEMMA MovesStep ==
    ASSUME TypeInv, PlaceInv, NEW p \in Thread, StepOf(p)
    PROVE  Moves(p)
<1> USE DEF TypeInv, Goto, Search, Give, Update
<1>0. pc[p] \in (Search \ {"chunk"}) \union Update => at[p] < MaxChunks
  BY DEF PlaceInv
<1>1. ASSUME Return(p) PROVE pc'[p] = "idle" /\ at'[p] = 0 /\ arg'[p] = None
  BY <1>1 DEF Return
<1>2. CASE CallAssign(p)
  BY <1>2 DEF CallAssign, Moves
<1>3. CASE EnterChunk(p) \/ LockAlloc(p)
  BY <1>3 DEF EnterChunk, LockAlloc, locals, Moves
<1>4. CASE AllocChunk(p) \/ ChunkAllocated(p) \/ SetPtr(p) \/ SetCount(p)
  BY <1>0, <1>4 DEF AllocChunk, ChunkAllocated, SetPtr, SetCount, locals, Moves
<1>5. CASE LoadAvailable(p) \/ SkipGroup(p)
  BY <1>0, <1>5 DEF LoadAvailable, SkipGroup, Moves
<1>6. CASE AllocFails(p) \/ AssignFails(p) \/ FindNoIndex(p) \/ NoUpdate(p) \/ WriteFull(p)
  BY <1>1, <1>6 DEF AllocFails, AssignFails, FindNoIndex, NoUpdate, WriteFull, Moves
<1>7. CASE TakeElement(p)
  <2>1. \/ Return(p)
        \/ pc' = [pc EXCEPT ![p] = "lockFull"] /\ UNCHANGED <<at, arg>>
    BY <1>7 DEF TakeElement
  <2>2. pc[p] = "groups"
    BY <1>7 DEF TakeElement
  <2> QED
    BY <1>0, <1>1, <2>1, <2>2 DEF Moves
<1>8. CASE LeaveChunk(p)
  BY <1>8 DEF LeaveChunk, Moves
<1>9. CASE FindIndex(p)
  BY <1>9 DEF FindIndex, locals, Moves
<1>10. CASE ClearBit(p)
  <2>1. pc[p] = "clear" /\ ChunkOf(arg[p]) < MaxChunks
    BY <1>10, Places, PoolAssumption DEF ClearBit, Chunk
  <2>2. \/ Return(p)
        \/ /\ pc' = [pc EXCEPT ![p] = "lockFull"]
           /\ at' = [at EXCEPT ![p] = ChunkOf(arg[p])] /\ UNCHANGED arg
    BY <1>10 DEF ClearBit
  <2> QED
    BY <1>1, <2>1, <2>2 DEF Moves
<1>11. CASE LockFull(p) \/ CheckFull(p)
  BY <1>0, <1>11 DEF LockFull, CheckFull, locals, Moves
<1>12. ASSUME NEW i \in held, CallUnassign(p, i) \/ CallUnassignPtr(p, i) PROVE Moves(p)
  BY <1>12 DEF CallUnassign, CallUnassignPtr, StartUnassign, Moves
<1> QED
  BY <1>2, <1>3, <1>4, <1>5, <1>6, <1>7, <1>8, <1>9, <1>10, <1>11, <1>12
  DEF StepOf, AssignStep, UnassignStep, UpdateStep

LEMMA PlaceStep ==
    ASSUME TypeInv, PlaceInv, [Next]_vars
    PROVE  PlaceInv'
<1>1. ASSUME NEW p \in Thread, StepOf(p), NEW q \in Thread
      PROVE  /\ pc'[q] = "idle" => at'[q] = 0
             /\ pc'[q] \in {"idle"} \union Search => arg'[q] = None
             /\ pc'[q] \in Give => arg'[q] # None
             /\ pc'[q] \in (Search \ {"chunk"}) \union Update => at'[q] < MaxChunks
  <2>1. CASE q # p
    <3>1. pc'[q] = pc[q] /\ at'[q] = at[q] /\ arg'[q] = arg[q]
      BY <1>1, <2>1, OthersKept
    <3> QED
      BY <3>1 DEF PlaceInv
  <2>2. CASE q = p
    <3>1. None \notin held
      <4>1. \A i \in Index : i \in Nat
        BY DEF Index
      <4> QED
        BY <4>1, PoolAssumption DEF TypeInv
    <3>2. /\ pc[p] \in Search => arg[p] = None
          /\ pc[p] \in Give => arg[p] # None
          /\ pc[p] = "idle" => arg[p] = None /\ at[p] = 0
          /\ pc[p] \in {"idle"} \union Search \union Give \union Update
      BY DEF PlaceInv, TypeInv
    <3>3. Moves(p)
      BY <1>1, MovesStep
    <3> QED
      BY <2>2, <3>1, <3>2, <3>3 DEF Moves, Search, Give, Update
  <2> QED
    BY <2>1, <2>2
<1>2. CASE UNCHANGED vars
  BY <1>2 DEF PlaceInv, vars, locals
<1> QED
  BY <1>1, <1>2 DEF Next, StepOf, PlaceInv

-----------------------------------------------------------------------------
(* Who has an index.                                                       *)

InUse(i) == i \in held \union lost \/ \E p \in Thread : pc[p] \in Give /\ arg[p] = i

LEMMA FreshIsUnused == \A i : Fresh(i) <=> ~InUse(i)
  BY DEF Fresh, InUse, Give

\* The steps that change neither an element nor who has an index.
Quiet(p) ==
    \/ CallAssign(p) \/ EnterChunk(p) \/ LockAlloc(p) \/ AllocChunk(p)
    \/ ChunkAllocated(p) \/ AllocFails(p) \/ SetPtr(p) \/ SetCount(p)
    \/ LoadAvailable(p) \/ SkipGroup(p) \/ LeaveChunk(p) \/ AssignFails(p)
    \/ FindIndex(p) \/ UpdateStep(p)

LEMMA StepCases ==
    ASSUME NEW p \in Thread, StepOf(p)
    PROVE  \/ Quiet(p) \/ TakeElement(p) \/ FindNoIndex(p) \/ ClearBit(p)
           \/ \E i \in held : CallUnassign(p, i) \/ CallUnassignPtr(p, i)
  BY DEF StepOf, AssignStep, UnassignStep, Quiet

LEMMA QuietKeeps ==
    ASSUME TypeInv, PlaceInv, NEW p \in Thread, Quiet(p)
    PROVE  /\ UNCHANGED <<assigned, held, lost>>
           /\ \A q \in Thread : /\ pc'[q] \in Give <=> pc[q] \in Give
                                /\ pc[q] \in Give => arg'[q] = arg[q]
<1>1. UNCHANGED <<assigned, held, lost>>
  BY DEF Quiet, CallAssign, EnterChunk, LockAlloc, AllocChunk, ChunkAllocated, AllocFails,
         SetPtr, SetCount, LoadAvailable, SkipGroup, LeaveChunk, AssignFails, FindIndex,
         UpdateStep, LockFull, CheckFull, NoUpdate, WriteFull, poolVars, history
<1>2. StepOf(p)
  BY DEF Quiet, StepOf, AssignStep, UnassignStep
<1>3. ASSUME NEW q \in Thread
      PROVE  /\ pc'[q] \in Give <=> pc[q] \in Give
             /\ pc[q] \in Give => arg'[q] = arg[q]
  <2>1. CASE q # p
    BY <1>2, <2>1, OthersKept
  <2>2. CASE q = p /\ FindIndex(p)
    BY <2>2 DEF FindIndex, TypeInv, Goto, locals, Give
  <2>3. CASE q = p /\ ~FindIndex(p)
    <3>1. pc[p] \notin Give
      BY <2>3 DEF Quiet, CallAssign, EnterChunk, LockAlloc, AllocChunk, ChunkAllocated,
                  AllocFails, SetPtr, SetCount, LoadAvailable, SkipGroup, LeaveChunk,
                  AssignFails, UpdateStep, LockFull, CheckFull, NoUpdate, WriteFull, Give
    <3>2. pc'[p] \notin Give
      <4>1. CASE CallAssign(p)
        BY <4>1 DEF CallAssign, Goto, TypeInv, Give
      <4>2. CASE ~CallAssign(p)
        <5>1. pc[p] # "idle"
          BY <2>3, <4>2 DEF Quiet, EnterChunk, LockAlloc, AllocChunk, ChunkAllocated,
                  AllocFails, SetPtr, SetCount, LoadAvailable, SkipGroup, LeaveChunk,
                  AssignFails, UpdateStep, LockFull, CheckFull, NoUpdate, WriteFull
        <5>2. Moves(p)
          BY <1>2, MovesStep
        <5> QED
          BY <3>1, <5>1, <5>2 DEF Moves, Search, Update, Give
      <4> QED
        BY <4>1, <4>2
    <3> QED
      BY <2>3, <3>1, <3>2
  <2> QED
    BY <2>1, <2>2, <2>3
<1> QED
  BY <1>1, <1>3

\* Assign takes the element s of a group, and is to mark it when it was the last.
Takes(p, c, g, s) ==
    /\ s \notin assigned[<<c, g>>]
    /\ ~InUse(IndexOfSlot(c, g, s))
    /\ assigned' = [assigned EXCEPT ![<<c, g>>] = @ \union {s}]
    /\ held' = held \union {IndexOfSlot(c, g, s)}
    /\ lost' = lost
    /\ pc[p] = "groups"
    /\ \/ pc'[p] = "idle" /\ Slot \ assigned[<<c, g>>] # {s}
       \/ /\ pc'[p] = "lockFull" /\ Slot \ assigned[<<c, g>>] = {s}
          /\ at'[p] = c /\ group'[p] = g /\ arg'[p] = None

\* The element Assign takes was free, and so nobody had its index.
LEMMA TakeFacts ==
    ASSUME TypeInv, PlaceInv, BitsTellHeld, NEW p \in Thread, TakeElement(p)
    PROVE  \E c \in Chunk, g \in Group, s \in Slot : Takes(p, c, g, s)
<1> DEFINE x == Elements(p)
           c == at[p]
           g == First(seen[p])
           s == First(Slot \ assigned[x])
<1>1. x = <<c, g>> /\ c \in Chunk /\ g \in Group /\ x \in Chunk \X Group
  BY FirstElements DEF TakeElement
<1>2. s \in Slot /\ s \notin assigned[x]
  BY <1>1, FirstSlot DEF TakeElement
<1>3. arg[p] = None
  BY DEF TakeElement, PlaceInv, Search
<1> HIDE DEF x, c, g, s
<1>4. ~InUse(IndexOfSlot(c, g, s))
  <2> DEFINE i == IndexOfSlot(c, g, s)
  <2>1. i \in Index /\ ChunkOf(i) = c /\ GroupOf(i) = g /\ SlotOf(i) = s
    BY <1>1, <1>2, IndexOfPlace
  <2> HIDE DEF i
  <2>2. Fresh(i)
    BY <1>1, <1>2, <2>1 DEF BitsTellHeld
  <2> QED
    BY <2>2, FreshIsUnused DEF i
<1>5. /\ assigned' = [assigned EXCEPT ![x] = @ \union {s}]
      /\ held' = held \union {IndexOfSlot(x[1], x[2], s)}
      /\ lost' = lost /\ pc[p] = "groups"
      /\ \/ /\ pc' = [pc EXCEPT ![p] = "lockFull"] /\ Slot \ assigned[x] = {s}
            /\ group' = [group EXCEPT ![p] = x[2]] /\ UNCHANGED <<at, arg>>
         \/ Return(p) /\ Slot \ assigned[x] # {s}
  BY DEF TakeElement, Goto, x, s
<1>6. \/ pc'[p] = "idle" /\ Slot \ assigned[x] # {s}
      \/ /\ pc'[p] = "lockFull" /\ Slot \ assigned[x] = {s}
         /\ at'[p] = c /\ group'[p] = g /\ arg'[p] = None
  <2>1. Return(p) => pc'[p] = "idle"
    BY DEF Return, Goto, TypeInv
  <2> QED
    BY <1>1, <1>3, <1>5, <2>1 DEF TypeInv, c
<1> QED
  BY <1>1, <1>2, <1>4, <1>5, <1>6 DEF Takes

\* Unassign takes an index from who holds it.
LEMMA StartFacts ==
    ASSUME TypeInv, NEW p \in Thread, NEW i \in held,
           CallUnassign(p, i) \/ CallUnassignPtr(p, i)
    PROVE  /\ pc[p] = "idle" /\ pc'[p] \in Give /\ arg'[p] = i
           /\ held' = held \ {i} /\ lost' = lost /\ assigned' = assigned
           /\ at'[p] = at[p]
  BY DEF CallUnassign, CallUnassignPtr, StartUnassign, TypeInv, Goto, Give, poolVars

LEMMA LostFacts ==
    ASSUME TypeInv, NEW p \in Thread, FindNoIndex(p)
    PROVE  /\ pc[p] \in Give /\ pc'[p] = "idle"
           /\ lost' = lost \union {arg[p]} /\ held' = held /\ assigned' = assigned
  BY DEF FindNoIndex, Return, TypeInv, Goto, Give, poolVars

\* Unassign clears the bit of the element s, and is to unmark a full group.
Clears(p, c, g, s) ==
    /\ arg[p] = IndexOfSlot(c, g, s) /\ arg[p] \in Index
    /\ c = ChunkOf(arg[p]) /\ g = GroupOf(arg[p]) /\ s = SlotOf(arg[p])
    /\ assigned' = [assigned EXCEPT ![<<c, g>>] = @ \ {s}]
    /\ held' = held /\ lost' = lost
    /\ pc[p] \in Give /\ arg[p] # None
    /\ \/ pc'[p] = "idle" /\ assigned[<<c, g>>] # Slot
       \/ /\ pc'[p] = "lockFull" /\ assigned[<<c, g>>] = Slot
          /\ at'[p] = c /\ group'[p] = g /\ arg'[p] = arg[p]

LEMMA ClearFacts ==
    ASSUME TypeInv, PlaceInv, NEW p \in Thread, ClearBit(p)
    PROVE  \E c \in Chunk, g \in Group, s \in Slot : Clears(p, c, g, s)
<1> DEFINE c == ChunkOf(arg[p])
           g == GroupOf(arg[p])
           s == SlotOf(arg[p])
<1>1. pc[p] \in Give /\ arg[p] # None
  BY DEF ClearBit, Give, PlaceInv
<1>2. arg[p] \in Index /\ c \in Chunk /\ g \in Group /\ s \in Slot
  BY <1>1, Places
<1>3. arg[p] = IndexOfSlot(c, g, s)
  BY <1>2, PlaceOfIndex
<1>4. c \in 0..MaxChunks
  BY <1>2, PoolAssumption DEF Chunk
<1>5. /\ assigned' = [assigned EXCEPT ![<<c, g>>] = @ \ {s}]
      /\ held' = held /\ lost' = lost
      /\ \/ Return(p) /\ assigned[<<c, g>>] # Slot
         \/ /\ pc' = [pc EXCEPT ![p] = "lockFull"] /\ assigned[<<c, g>>] = Slot
            /\ at' = [at EXCEPT ![p] = c] /\ group' = [group EXCEPT ![p] = g]
            /\ arg' = arg
  BY DEF ClearBit, WasFull, Goto
<1> HIDE DEF c, g, s
<1>6. Return(p) => pc'[p] = "idle"
  BY DEF Return, Goto, TypeInv
<1>7. \/ pc'[p] = "idle" /\ assigned[<<c, g>>] # Slot
      \/ /\ pc'[p] = "lockFull" /\ assigned[<<c, g>>] = Slot
         /\ at'[p] = c /\ group'[p] = g /\ arg'[p] = arg[p]
  BY <1>5, <1>6 DEF TypeInv
<1> QED
  BY <1>1, <1>2, <1>3, <1>5, <1>7 DEF c, g, s, Clears

LEMMA GiveStep ==
    ASSUME TypeInv, PlaceInv, GiveInv, BitsTellHeld, [Next]_vars
    PROVE  GiveInv'
<1>1. ASSUME NEW p \in Thread, StepOf(p) PROVE GiveInv'
  <2>1. \A q \in Thread : q # p => pc'[q] = pc[q] /\ arg'[q] = arg[q]
    BY <1>1, OthersKept
  <2>2. CASE Quiet(p)
    <3>1. /\ held' = held /\ lost' = lost
          /\ \A q \in Thread : /\ pc'[q] \in Give <=> pc[q] \in Give
                               /\ pc[q] \in Give => arg'[q] = arg[q]
      BY <2>2, QuietKeeps
    <3> QED
      BY <3>1 DEF GiveInv
  <2>3. CASE TakeElement(p)
    <3>1. PICK c \in Chunk, g \in Group, s \in Slot : Takes(p, c, g, s)
      BY <2>3, TakeFacts
    <3>2. pc'[p] \notin Give
      BY <3>1 DEF Takes, Give
    <3> QED
      BY <2>1, <3>1, <3>2 DEF GiveInv, InUse, Takes
  <2>4. CASE FindNoIndex(p)
    <3>1. /\ pc[p] \in Give /\ pc'[p] = "idle"
          /\ lost' = lost \union {arg[p]} /\ held' = held
      BY <2>4, LostFacts
    <3>2. pc'[p] \notin Give
      BY <3>1 DEF Give
    <3> QED
      BY <2>1, <3>1, <3>2 DEF GiveInv
  <2>5. CASE ClearBit(p)
    <3>1. held' = held /\ lost' = lost /\ pc'[p] \in {"idle", "lockFull"}
      BY <2>5, ClearFacts DEF Clears
    <3>2. pc'[p] \notin Give
      BY <3>1 DEF Give
    <3> QED
      BY <2>1, <3>1, <3>2 DEF GiveInv
  <2>6. ASSUME NEW i \in held, CallUnassign(p, i) \/ CallUnassignPtr(p, i) PROVE GiveInv'
    <3>1. /\ pc'[p] \in Give /\ arg'[p] = i /\ held' = held \ {i} /\ lost' = lost
      BY <2>6, StartFacts
    <3> QED
      BY <2>1, <3>1 DEF GiveInv
  <2> QED
    BY <1>1, <2>2, <2>3, <2>4, <2>5, <2>6, StepCases
<1>2. CASE UNCHANGED vars
  BY <1>2 DEF GiveInv, vars, locals, history
<1> QED
  BY <1>1, <1>2 DEF Next, StepOf

LEMMA BitsStep ==
    ASSUME TypeInv, PlaceInv, GiveInv, BitsTellHeld, [Next]_vars
    PROVE  BitsTellHeld'
<1> DEFINE Bit(i) == SlotOf(i) \in assigned[<<ChunkOf(i), GroupOf(i)>>]
<1>1. \A i \in Index : Bit(i) <=> InUse(i)
  BY FreshIsUnused DEF BitsTellHeld
<1>2. \A i \in Index : ChunkOf(i) \in Chunk /\ GroupOf(i) \in Group /\ SlotOf(i) \in Slot
  BY PlaceOfIndex
<1>3. ASSUME NEW p \in Thread, StepOf(p), NEW i \in Index PROVE (Bit(i) <=> InUse(i))'
  <2>1. \A q \in Thread : q # p => pc'[q] = pc[q] /\ arg'[q] = arg[q]
    BY <1>3, OthersKept
  <2>2. CASE Quiet(p)
    <3>1. /\ assigned' = assigned /\ held' = held /\ lost' = lost
          /\ \A q \in Thread : /\ pc'[q] \in Give <=> pc[q] \in Give
                               /\ pc[q] \in Give => arg'[q] = arg[q]
      BY <2>2, QuietKeeps
    <3> QED
      BY <1>1, <3>1 DEF InUse
  <2>3. CASE TakeElement(p)
    <3>1. PICK c \in Chunk, g \in Group, s \in Slot : Takes(p, c, g, s)
      BY <2>3, TakeFacts
    <3> DEFINE j == IndexOfSlot(c, g, s)
    <3>2. ChunkOf(j) = c /\ GroupOf(j) = g /\ SlotOf(j) = s
      BY IndexOfPlace
    <3>3. i = j <=> ChunkOf(i) = c /\ GroupOf(i) = g /\ SlotOf(i) = s
      BY <3>2, PlaceOfIndex
    <3> HIDE DEF j
    <3>4. Bit(i)' <=> Bit(i) \/ i = j
      BY <1>2, <3>1, <3>3 DEF TypeInv, Takes
    <3>5. InUse(i)' <=> InUse(i) \/ i = j
      BY <2>1, <3>1 DEF InUse, Give, Takes, j
    <3> QED
      BY <1>1, <3>4, <3>5
  <2>4. CASE FindNoIndex(p)
    <3>1. /\ pc[p] \in Give /\ pc'[p] = "idle" /\ assigned' = assigned
          /\ lost' = lost \union {arg[p]} /\ held' = held
      BY <2>4, LostFacts
    <3>2. InUse(i)' <=> InUse(i)
      BY <2>1, <3>1 DEF InUse, Give
    <3> QED
      BY <1>1, <3>1, <3>2
  <2>5. CASE ClearBit(p)
    <3>1. PICK c \in Chunk, g \in Group, s \in Slot : Clears(p, c, g, s)
      BY <2>5, ClearFacts
    <3>2. i = arg[p] <=> ChunkOf(i) = c /\ GroupOf(i) = g /\ SlotOf(i) = s
      BY <3>1, PlaceOfIndex DEF Clears
    <3>3. Bit(i)' <=> Bit(i) /\ i # arg[p]
      BY <1>2, <3>1, <3>2 DEF TypeInv, Clears
    <3>4. InUse(i)' <=> InUse(i) /\ i # arg[p]
      <4>1. pc'[p] \notin Give
        BY <3>1 DEF Give, Clears
      <4>2. InUse(i)' => InUse(i)
        BY <2>1, <3>1, <4>1 DEF InUse, Clears
      <4>3. i = arg[p] => ~InUse(i)'
        BY <2>1, <3>1, <4>1 DEF InUse, GiveInv, Clears
      <4>4. InUse(i) /\ i # arg[p] => InUse(i)'
        BY <2>1, <3>1 DEF InUse, Clears
      <4> QED
        BY <4>2, <4>3, <4>4
    <3> QED
      BY <1>1, <3>3, <3>4
  <2>6. ASSUME NEW k \in held, CallUnassign(p, k) \/ CallUnassignPtr(p, k)
        PROVE  (Bit(i) <=> InUse(i))'
    <3>1. /\ pc[p] = "idle" /\ pc'[p] \in Give /\ arg'[p] = k
          /\ held' = held \ {k} /\ lost' = lost /\ assigned' = assigned
      BY <2>6, StartFacts
    <3>2. InUse(i)' <=> InUse(i)
      <4>1. pc[p] \notin Give
        BY <3>1 DEF Give
      <4> QED
        BY <2>1, <3>1, <4>1 DEF InUse
    <3> QED
      BY <1>1, <3>1, <3>2
  <2> QED
    BY <1>3, <2>2, <2>3, <2>4, <2>5, <2>6, StepCases
<1>4. ASSUME UNCHANGED vars, NEW i \in Index PROVE (Bit(i) <=> InUse(i))'
  BY <1>1, <1>4 DEF InUse, vars, poolVars, locals, history
<1>5. \A i \in Index : (Bit(i) <=> InUse(i))'
  BY <1>3, <1>4 DEF Next, StepOf
<1> QED
  BY <1>5, FreshIsUnused DEF BitsTellHeld, Fresh, InUse, Give

-----------------------------------------------------------------------------
(* The marks of the high level.                                            *)

\* The steps that leave the words of the pool and the updates alone.
LEMMA OutsideUpdate ==
    ASSUME TypeInv, PlaceInv, NEW p \in Thread, StepOf(p),
           ~UpdateStep(p), ~TakeElement(p), ~ClearBit(p)
    PROVE  /\ UNCHANGED <<assigned, full, guard>>
           /\ pc[p] \notin Update /\ pc'[p] \notin Update
<1> USE DEF TypeInv, Goto, Update
<1>1. Return(p) => pc'[p] = "idle"
  BY DEF Return
<1>2. CASE CallAssign(p) \/ EnterChunk(p) \/ LockAlloc(p) \/ AllocChunk(p)
  BY <1>2 DEF CallAssign, EnterChunk, LockAlloc, AllocChunk, poolVars
<1>3. CASE ChunkAllocated(p) \/ SetPtr(p) \/ SetCount(p) \/ LoadAvailable(p)
  BY <1>3 DEF ChunkAllocated, SetPtr, SetCount, LoadAvailable, poolVars
<1>4. CASE SkipGroup(p) \/ LeaveChunk(p) \/ FindIndex(p)
  BY <1>4 DEF SkipGroup, LeaveChunk, FindIndex, poolVars
<1>5. CASE AllocFails(p) \/ AssignFails(p) \/ FindNoIndex(p)
  BY <1>1, <1>5 DEF AllocFails, AssignFails, FindNoIndex, poolVars
<1>6. ASSUME NEW i \in held, CallUnassign(p, i) \/ CallUnassignPtr(p, i)
      PROVE  /\ UNCHANGED <<assigned, full, guard>>
             /\ pc[p] \notin Update /\ pc'[p] \notin Update
  BY <1>6 DEF CallUnassign, CallUnassignPtr, StartUnassign, poolVars
<1> QED
  BY <1>2, <1>3, <1>4, <1>5, <1>6 DEF StepOf, AssignStep, UnassignStep

LEMMA LockFacts ==
    ASSUME TypeInv, NEW p \in Thread, LockFull(p)
    PROVE  /\ pc[p] = "lockFull" /\ pc'[p] = "check" /\ guard[at[p]] = None
           /\ guard' = [guard EXCEPT ![at[p]] = p] /\ assigned' = assigned /\ full' = full
           /\ at'[p] = at[p] /\ group'[p] = group[p] /\ arg'[p] = arg[p]
  BY DEF LockFull, TypeInv, Goto, locals

LEMMA CheckFacts ==
    ASSUME TypeInv, NEW p \in Thread, CheckFull(p)
    PROVE  /\ pc[p] = "check" /\ pc'[p] = "write" /\ StillSo(p)
           /\ UNCHANGED <<guard, assigned, full>>
           /\ at'[p] = at[p] /\ group'[p] = group[p] /\ arg'[p] = arg[p]
  BY DEF CheckFull, TypeInv, Goto, locals, poolVars

LEMMA LeaveFacts ==
    ASSUME TypeInv, NEW p \in Thread, NoUpdate(p) \/ WriteFull(p)
    PROVE  /\ pc[p] \in {"check", "write"} /\ pc'[p] = "idle"
           /\ guard' = [guard EXCEPT ![at[p]] = None] /\ assigned' = assigned
  BY DEF NoUpdate, WriteFull, Return, TypeInv, Goto

LEMMA GuardStep ==
    ASSUME TypeInv, PlaceInv, BitsTellHeld, GuardInv, [Next]_vars
    PROVE  GuardInv'
<1>1. ASSUME NEW p \in Thread, StepOf(p), NEW q \in Thread, pc'[q] \in {"check", "write"}
      PROVE  guard'[at'[q]] = q
  <2>1. q # p => pc'[q] = pc[q] /\ at'[q] = at[q]
    BY <1>1, OthersKept
  <2>2. q # p => at[q] \in Chunk /\ guard[at[q]] = q
    BY <1>1, <2>1, Places DEF GuardInv, Update
  <2>3. CASE TakeElement(p)
    <3>1. guard' = guard /\ pc'[p] \in {"idle", "lockFull"}
      BY <2>3, TakeFacts DEF TakeElement, Takes
    <3> QED
      BY <1>1, <2>1, <2>2, <3>1
  <2>4. CASE ClearBit(p)
    <3>1. guard' = guard /\ pc'[p] \in {"idle", "lockFull"}
      BY <2>4, ClearFacts DEF ClearBit, Clears
    <3> QED
      BY <1>1, <2>1, <2>2, <3>1
  <2>5. CASE LockFull(p)
    <3>1. /\ pc[p] = "lockFull" /\ pc'[p] = "check" /\ guard[at[p]] = None
          /\ guard' = [guard EXCEPT ![at[p]] = p] /\ at'[p] = at[p]
      BY <2>5, LockFacts
    <3>2. at[p] \in Chunk
      BY <3>1, Places DEF Update
    <3> QED
      BY <2>1, <2>2, <3>1, <3>2, PoolAssumption DEF TypeInv
  <2>6. CASE CheckFull(p)
    <3>1. pc[p] = "check" /\ at'[p] = at[p] /\ guard' = guard
      BY <2>6, CheckFacts
    <3> QED
      BY <2>1, <2>2, <3>1 DEF GuardInv
  <2>7. CASE NoUpdate(p) \/ WriteFull(p)
    <3>1. /\ pc[p] \in {"check", "write"} /\ pc'[p] = "idle"
          /\ guard' = [guard EXCEPT ![at[p]] = None]
      BY <2>7, LeaveFacts
    <3>2. guard[at[p]] = p
      BY <3>1 DEF GuardInv
    <3> QED
      BY <1>1, <2>1, <2>2, <3>1, <3>2 DEF TypeInv
  <2>8. CASE ~UpdateStep(p) /\ ~TakeElement(p) /\ ~ClearBit(p)
    <3>1. guard' = guard /\ pc'[p] \notin Update
      BY <1>1, <2>8, OutsideUpdate
    <3> QED
      BY <1>1, <2>1, <2>2, <3>1 DEF Update
  <2> QED
    BY <2>3, <2>4, <2>5, <2>6, <2>7, <2>8 DEF UpdateStep
<1>2. CASE UNCHANGED vars
  BY <1>2 DEF GuardInv, vars, poolVars, locals
<1>3. \A p \in Thread : pc'[p] \in {"check", "write"} => guard'[at'[p]] = p
  BY <1>1, <1>2 DEF Next, StepOf, GuardInv
<1> QED
  BY <1>3 DEF GuardInv

Kept(q) == /\ pc'[q] = pc[q] /\ at'[q] = at[q]
           /\ group'[q] = group[q] /\ arg'[q] = arg[q]

\* A step of p that is no update of the group, before or after.
LEMMA MarkKept ==
    ASSUME NEW c, NEW g, MarkInv(c, g),
           NEW p \in Thread, \A q \in Thread : q # p => Kept(q),
           ~Updating(p, c, g), ~Updating(p, c, g)',
           (assigned[<<c, g>>] = Slot)' <=> assigned[<<c, g>>] = Slot,
           (g \in full[c])' <=> g \in full[c]
    PROVE  MarkInv(c, g)'
<1>1. \A q \in Thread : /\ Updating(q, c, g)' <=> Updating(q, c, g)
                        /\ Updating(q, c, g) => Kept(q)
  BY DEF Kept, Updating
<1>2. \A q \in Thread : /\ Marks(q, c, g)' <=> Marks(q, c, g)
                        /\ Unmarks(q, c, g)' <=> Unmarks(q, c, g)
                        /\ Marks(q, c, g) \/ Unmarks(q, c, g) => pc'[q] = pc[q]
  BY <1>1 DEF Marks, Unmarks, Kept
<1> QED
  BY <1>2 DEF MarkInv

\* A thread fills the group, or takes an element of the full one.
LEMMA MarkNew ==
    ASSUME NEW c, NEW g, NEW p \in Thread,
           pc'[p] = "lockFull", Updating(p, c, g)',
           (assigned[<<c, g>>] = Slot)' <=> arg'[p] = None
    PROVE  MarkInv(c, g)'
  BY DEF MarkInv, Marks, Unmarks

\* An update goes on, and the others have still to take the lock.
LEMMA MarkGoesOn ==
    ASSUME NEW c, NEW g, MarkInv(c, g),
           NEW p \in Thread, \A q \in Thread : q # p => Kept(q),
           Updating(p, c, g),
           pc'[p] \in {"check", "write"}, pc'[p] = "write" => StillSo(p),
           at'[p] = at[p], group'[p] = group[p], arg'[p] = arg[p],
           \A q \in Thread : q # p /\ Updating(q, c, g) => pc[q] = "lockFull",
           UNCHANGED <<assigned, full>>
    PROVE  MarkInv(c, g)'
<1>1. \A q \in Thread : /\ Marks(q, c, g)' <=> Marks(q, c, g)
                        /\ Unmarks(q, c, g)' <=> Unmarks(q, c, g)
  BY DEF Marks, Unmarks, Kept, Updating
<1>2. ASSUME NEW q \in Thread, pc'[q] = "write", Updating(q, c, g)'
      PROVE  q = p
  BY <1>2 DEF Kept, Updating
<1>3. pc'[p] = "write" => /\ Marks(p, c, g) => assigned[<<c, g>>] = Slot
                          /\ Unmarks(p, c, g) => assigned[<<c, g>>] # Slot
  BY DEF StillSo, Unassigning, Marks, Unmarks, Updating
<1>4. \A q \in Thread : Marks(q, c, g)' \/ Unmarks(q, c, g)' => Updating(q, c, g)'
  BY DEF Marks, Unmarks
<1> QED
  BY <1>1, <1>2, <1>3, <1>4 DEF MarkInv

\* An update ends, with the mark as it is or written.
LEMMA MarkDone ==
    ASSUME NEW c, NEW g, MarkInv(c, g),
           NEW p \in Thread, \A q \in Thread : q # p => Kept(q),
           Updating(p, c, g), pc'[p] = "idle",
           \A q \in Thread : q # p /\ Updating(q, c, g) => pc[q] = "lockFull",
           assigned' = assigned,
           \/ ~StillSo(p) /\ ((g \in full[c])' <=> g \in full[c])
           \/ pc[p] = "write" /\ ((g \in full[c])' <=> arg[p] = None)
    PROVE  MarkInv(c, g)'
<1>1. \A q \in Thread : q # p => /\ Marks(q, c, g)' <=> Marks(q, c, g)
                                 /\ Unmarks(q, c, g)' <=> Unmarks(q, c, g)
                                 /\ Updating(q, c, g)' => pc'[q] = "lockFull"
  BY DEF Marks, Unmarks, Kept, Updating
<1>2. ~Updating(p, c, g)'
  BY DEF Updating
<1>3. \A q \in Thread : Marks(q, c, g)' \/ Unmarks(q, c, g)' => Updating(q, c, g)'
  BY DEF Marks, Unmarks
<1>4. CASE ~StillSo(p) /\ ((g \in full[c])' <=> g \in full[c])
  <2>1. /\ Marks(p, c, g) => assigned[<<c, g>>] # Slot
        /\ Unmarks(p, c, g) => assigned[<<c, g>>] = Slot
    BY <1>4 DEF StillSo, Unassigning, Marks, Unmarks, Updating
  <2> QED
    BY <1>1, <1>2, <1>3, <1>4, <2>1 DEF MarkInv
<1>5. CASE pc[p] = "write" /\ ((g \in full[c])' <=> arg[p] = None)
  <2>1. CASE arg[p] = None
    <3>1. Marks(p, c, g) /\ (g \in full[c])'
      BY <1>5, <2>1 DEF Marks
    <3>2. assigned[<<c, g>>] # Slot =>
            \E q \in Thread : pc[q] = "lockFull" /\ Unmarks(q, c, g)
      BY <1>5, <3>1 DEF MarkInv
    <3> QED
      BY <1>1, <1>2, <1>3, <1>5, <3>1, <3>2 DEF MarkInv
  <2>2. CASE arg[p] # None
    <3>1. Unmarks(p, c, g) /\ ~(g \in full[c])'
      BY <1>5, <2>2 DEF Unmarks
    <3>2. assigned[<<c, g>>] = Slot =>
            \E q \in Thread : pc[q] = "lockFull" /\ Marks(q, c, g)
      BY <1>5, <3>1 DEF MarkInv
    <3> QED
      BY <1>1, <1>2, <1>3, <1>5, <3>1, <3>2 DEF MarkInv
  <2> QED
    BY <2>1, <2>2
<1> QED
  BY <1>4, <1>5

\* Who has the lock, or takes it, is alone behind it.
LEMMA OthersWait ==
    ASSUME TypeInv, PlaceInv, GuardInv,
           NEW p \in Thread, NEW q \in Thread, q # p, NEW g, Updating(q, at[p], g),
           \/ pc[p] \in {"check", "write"}
           \/ pc[p] = "lockFull" /\ guard[at[p]] = None
    PROVE  pc[q] = "lockFull"
  BY PoolAssumption DEF GuardInv, Updating

LEMMA MarksStep ==
    ASSUME TypeInv, PlaceInv, BitsTellHeld, GuardInv, MarksInv, [Next]_vars
    PROVE  MarksInv'
<1>1. ASSUME NEW p \in Thread, StepOf(p), NEW c \in Chunk, NEW g \in Group
      PROVE  MarkInv(c, g)'
  <2>1. \A q \in Thread : q # p => Kept(q)
    BY <1>1, OthersKept DEF Kept
  <2>2. MarkInv(c, g)
    BY <1>1 DEF MarksInv
  <2>3. CASE TakeElement(p)
    <3>1. PICK c1 \in Chunk, g1 \in Group, s \in Slot : Takes(p, c1, g1, s)
      BY <2>3, TakeFacts
    <3>2. full' = full /\ ~Updating(p, c, g)
      BY <2>3, <3>1 DEF TakeElement, Updating, Takes
    <3>3. CASE <<c1, g1>> = <<c, g>> /\ pc'[p] = "lockFull"
      <4>1. assigned'[<<c, g>>] = Slot
        BY <3>1, <3>3 DEF TypeInv, Takes
      <4>2. Updating(p, c, g)' /\ arg'[p] = None
        BY <3>1, <3>3 DEF Updating, Takes
      <4> QED
        BY <3>3, <4>1, <4>2, MarkNew
    <3>4. CASE ~(<<c1, g1>> = <<c, g>> /\ pc'[p] = "lockFull")
      <4>1. (assigned[<<c, g>>] = Slot)' <=> assigned[<<c, g>>] = Slot
        <5>1. assigned'[<<c, g>>] = IF <<c1, g1>> = <<c, g>> THEN assigned[<<c, g>>] \union {s}
                                    ELSE assigned[<<c, g>>]
          BY <3>1 DEF TypeInv, Takes
        <5>2. <<c1, g1>> = <<c, g>> =>
                 assigned[<<c, g>>] # Slot /\ assigned[<<c, g>>] \union {s} # Slot
          BY <3>1, <3>4 DEF Takes
        <5> QED
          BY <5>1, <5>2
      <4>2. ~Updating(p, c, g)'
        BY <3>1, <3>4 DEF Updating, Takes
      <4> QED
        BY <2>1, <2>2, <3>2, <4>1, <4>2, MarkKept
    <3> QED
      BY <3>3, <3>4
  <2>4. CASE ClearBit(p)
    <3>1. PICK c1 \in Chunk, g1 \in Group, s \in Slot : Clears(p, c1, g1, s)
      BY <2>4, ClearFacts
    <3>2. full' = full /\ ~Updating(p, c, g)
      BY <2>4, <3>1 DEF ClearBit, Updating, Give, Clears
    <3>3. assigned'[<<c, g>>] = IF <<c1, g1>> = <<c, g>> THEN assigned[<<c, g>>] \ {s}
                                ELSE assigned[<<c, g>>]
      BY <3>1 DEF TypeInv, Clears
    <3>4. CASE <<c1, g1>> = <<c, g>> /\ pc'[p] = "lockFull"
      <4>1. assigned'[<<c, g>>] # Slot
        <5>1. s \in Slot /\ s \notin assigned'[<<c, g>>]
          BY <3>3, <3>4
        <5> QED
          BY <5>1
      <4>2. Updating(p, c, g)' /\ arg'[p] # None
        BY <3>1, <3>4 DEF Updating, Clears
      <4> QED
        BY <3>4, <4>1, <4>2, MarkNew
    <3>5. CASE ~(<<c1, g1>> = <<c, g>> /\ pc'[p] = "lockFull")
      <4>1. (assigned[<<c, g>>] = Slot)' <=> assigned[<<c, g>>] = Slot
        <5>1. <<c1, g1>> = <<c, g>> =>
                 assigned[<<c, g>>] # Slot /\ assigned[<<c, g>>] \ {s} # Slot
          BY <3>1, <3>5 DEF Clears
        <5> QED
          BY <3>3, <5>1
      <4>2. ~Updating(p, c, g)'
        BY <3>1, <3>5 DEF Updating, Clears
      <4> QED
        BY <2>1, <2>2, <3>2, <4>1, <4>2, MarkKept
    <3> QED
      BY <3>4, <3>5
  <2>5. CASE LockFull(p) \/ CheckFull(p)
    <3>1. /\ pc[p] \in Update /\ pc'[p] \in {"check", "write"}
          /\ pc'[p] = "write" => StillSo(p)
          /\ at'[p] = at[p] /\ group'[p] = group[p] /\ arg'[p] = arg[p]
          /\ UNCHANGED <<assigned, full>>
          /\ pc[p] = "check" \/ (pc[p] = "lockFull" /\ guard[at[p]] = None)
      BY <2>5, LockFacts, CheckFacts DEF Update
    <3>2. CASE Updating(p, c, g)
      <4>1. at[p] = c
        BY <3>2 DEF Updating
      <4>2. \A q \in Thread : q # p /\ Updating(q, c, g) => pc[q] = "lockFull"
        BY <3>1, <4>1, OthersWait
      <4> QED
        BY <2>1, <2>2, <3>1, <3>2, <4>2, MarkGoesOn
    <3>3. CASE ~Updating(p, c, g)
      <4>1. ~Updating(p, c, g)'
        BY <3>1, <3>3 DEF Updating, Update
      <4> QED
        BY <2>1, <2>2, <3>1, <3>3, <4>1, MarkKept
    <3> QED
      BY <3>2, <3>3
  <2>6. CASE NoUpdate(p) \/ WriteFull(p)
    <3>1. /\ pc[p] \in {"check", "write"} /\ pc'[p] = "idle"
          /\ assigned' = assigned
      BY <2>6, LeaveFacts
    <3>2. at[p] \in Chunk /\ full \in [Chunk -> SUBSET Group]
      BY <3>1, Places DEF Update, TypeInv
    <3>3. CASE Updating(p, c, g)
      <4>1. at[p] = c /\ group[p] = g
        BY <3>3 DEF Updating
      <4>2. \A q \in Thread : q # p /\ Updating(q, c, g) => pc[q] = "lockFull"
        BY <3>1, <4>1, OthersWait
      <4>3. NoUpdate(p) => ~StillSo(p) /\ full' = full
        BY DEF NoUpdate
      <4>4. WriteFull(p) => pc[p] = "write" /\ ((g \in full[c])' <=> arg[p] = None)
        <5>1. SUFFICES ASSUME WriteFull(p)
                       PROVE  pc[p] = "write" /\ ((g \in full[c])' <=> arg[p] = None)
          OBVIOUS
        <5>2. /\ pc[p] = "write"
              /\ full'[c] = IF arg[p] # None THEN full[c] \ {g} ELSE full[c] \union {g}
          BY <3>2, <4>1, <5>1 DEF WriteFull, Unassigning
        <5> QED
          BY <5>2
      <4> QED
        BY <2>1, <2>2, <2>6, <3>1, <3>3, <4>2, <4>3, <4>4, MarkDone
    <3>4. CASE ~Updating(p, c, g)
      <4>1. ~Updating(p, c, g)'
        BY <3>1 DEF Updating
      <4>2. (g \in full[c])' <=> g \in full[c]
        <5>1. CASE NoUpdate(p)
          BY <5>1 DEF NoUpdate
        <5>2. CASE WriteFull(p)
          <6>1. at[p] # c \/ group[p] # g
            BY <3>1, <3>4 DEF Updating
          <6>2. \/ full' = [full EXCEPT ![at[p]] = @ \ {group[p]}]
                \/ full' = [full EXCEPT ![at[p]] = @ \union {group[p]}]
            BY <5>2 DEF WriteFull
          <6> QED
            BY <3>2, <6>1, <6>2
        <5> QED
          BY <2>6, <5>1, <5>2
      <4> QED
        BY <2>1, <2>2, <3>1, <3>4, <4>1, <4>2, MarkKept
    <3> QED
      BY <3>3, <3>4
  <2>7. CASE ~UpdateStep(p) /\ ~TakeElement(p) /\ ~ClearBit(p)
    <3>1. /\ UNCHANGED <<assigned, full>>
          /\ pc[p] \notin Update /\ pc'[p] \notin Update
      BY <1>1, <2>7, OutsideUpdate
    <3>2. ~Updating(p, c, g) /\ ~Updating(p, c, g)'
      BY <3>1 DEF Updating, Update
    <3> QED
      BY <2>1, <2>2, <3>1, <3>2, MarkKept
  <2> QED
    BY <2>3, <2>4, <2>5, <2>6, <2>7 DEF UpdateStep
<1>2. ASSUME UNCHANGED vars, NEW c \in Chunk, NEW g \in Group PROVE MarkInv(c, g)'
  <2>1. /\ UNCHANGED <<assigned, full, pc>>
        /\ \A q \in Thread : /\ Marks(q, c, g)' <=> Marks(q, c, g)
                             /\ Unmarks(q, c, g)' <=> Unmarks(q, c, g)
    BY <1>2 DEF vars, poolVars, locals, Marks, Unmarks, Updating
  <2> QED
    BY <2>1 DEF MarksInv, MarkInv
<1> QED
  BY <1>1, <1>2 DEF Next, StepOf, MarksInv

-----------------------------------------------------------------------------
(* What a search has behind it.                                            *)

Behind(q) == pc[q] \in Search /\ ~overlap[q] =>
    /\ \A r \in Thread : arg[r] = None
    /\ \A x \in Chunk \X Group : x[1] < at[q] => assigned[x] = Slot
    /\ pc[q] = "groups" => \A g \in Group \ seen[q] : assigned[<<at[q], g>>] = Slot

\* A search that goes on beside the step of p.
LEMMA BehindOthers ==
    ASSUME TypeInv, PlaceInv, BitsTellHeld,
           NEW p \in Thread, StepOf(p), NEW q \in Thread, q # p, Behind(q)
    PROVE  Behind(q)'
<1> SUFFICES ASSUME pc'[q] \in Search, ~overlap'[q]
             PROVE  /\ \A r \in Thread : arg'[r] = None
                    /\ \A x \in Chunk \X Group : x[1] < at'[q] => assigned'[x] = Slot
                    /\ pc'[q] = "groups" =>
                          \A g \in Group \ seen'[q] : assigned'[<<at'[q], g>>] = Slot
  BY DEF Behind
<1>1. pc'[q] = pc[q] /\ at'[q] = at[q] /\ seen'[q] = seen[q]
  BY OthersKept
<1>2. arg[q] = None /\ pc[q] # "idle"
  BY <1>1 DEF PlaceInv, Search
<1>3. ASSUME NEW i \in held, CallUnassign(p, i) \/ CallUnassignPtr(p, i) PROVE FALSE
  <2>1. overlap'[q]
    BY <1>2, <1>3 DEF CallUnassign, CallUnassignPtr, StartUnassign, Unassigning
  <2> QED
    BY <2>1
<1>4. ~overlap[q]
  <2>1. CASE Quiet(p) \/ FindNoIndex(p)
    BY <2>1 DEF Quiet, CallAssign, EnterChunk, LockAlloc, AllocChunk, ChunkAllocated,
                AllocFails, SetPtr, SetCount, LoadAvailable, SkipGroup, LeaveChunk,
                AssignFails, FindIndex, UpdateStep, LockFull, CheckFull, NoUpdate,
                WriteFull, FindNoIndex, Return, TypeInv, history
  <2>2. CASE TakeElement(p) \/ ClearBit(p)
    <3>1. overlap' = overlap \/ overlap' = [overlap EXCEPT ![p] = FALSE]
      BY <2>2 DEF TakeElement, ClearBit, Return
    <3> QED
      BY <3>1 DEF TypeInv
  <2> QED
    BY <1>3, <2>1, <2>2, StepCases
<1>5. /\ \A r \in Thread : arg[r] = None
      /\ \A x \in Chunk \X Group : x[1] < at[q] => assigned[x] = Slot
      /\ pc[q] = "groups" => \A g \in Group \ seen[q] : assigned[<<at[q], g>>] = Slot
  BY <1>1, <1>4 DEF Behind
<1>6. ~ClearBit(p) /\ ~FindNoIndex(p)
  BY <1>5 DEF ClearBit, FindNoIndex, PlaceInv, Give
<1>7. \A r \in Thread : arg'[r] = None
  <2>1. Moves(p)
    BY MovesStep
  <2>2. pc[p] # "idle" \/ pc'[p] \notin Give
    <3>1. CASE Quiet(p)
      BY <3>1, QuietKeeps DEF Give
    <3>2. CASE TakeElement(p)
      BY <3>2 DEF TakeElement
    <3> QED
      BY <1>3, <1>6, <3>1, <3>2, StepCases
  <2>3. arg'[p] = None
    BY <1>5, <2>1, <2>2 DEF Moves
  <2> QED
    BY <1>5, <2>3, OthersKept
<1>8. \A x \in Chunk \X Group : assigned[x] = Slot => assigned'[x] = Slot
  <2>1. CASE Quiet(p)
    BY <2>1, QuietKeeps
  <2>2. CASE TakeElement(p)
    <3>1. PICK c \in Chunk, g \in Group, s \in Slot : Takes(p, c, g, s)
      BY <2>2, TakeFacts
    <3> QED
      BY <3>1 DEF TypeInv, Takes
  <2> QED
    BY <1>3, <1>6, <2>1, <2>2, StepCases
<1>9. pc[q] = "groups" => at[q] \in Chunk
  BY Places DEF Search
<1> QED
  BY <1>1, <1>5, <1>7, <1>8, <1>9

\* A step of the search itself.
LEMMA BehindSelf ==
    ASSUME TypeInv, PlaceInv, BitsTellHeld, MarksInv,
           NEW p \in Thread, StepOf(p), Behind(p)
    PROVE  Behind(p)'
<1> SUFFICES ASSUME pc'[p] \in Search, ~overlap'[p]
             PROVE  /\ \A r \in Thread : arg'[r] = None
                    /\ \A x \in Chunk \X Group : x[1] < at'[p] => assigned'[x] = Slot
                    /\ pc'[p] = "groups" =>
                          \A g \in Group \ seen'[p] : assigned'[<<at'[p], g>>] = Slot
  BY DEF Behind
<1> USE DEF Goto
<1>1. CASE CallAssign(p)
  <2>1. /\ arg' = arg /\ at'[p] = 0 /\ pc'[p] = "chunk" /\ assigned' = assigned
        /\ overlap'[p] = \E r \in Thread : Unassigning(r)
    BY <1>1 DEF CallAssign, TypeInv, PlaceInv, poolVars
  <2>2. \A x \in Chunk \X Group : ~(x[1] < 0)
    BY DEF Chunk
  <2> QED
    BY <2>1, <2>2 DEF Unassigning
<1>2. ASSUME pc[p] \in Search, overlap'[p] = overlap[p]
      PROVE  /\ \A r \in Thread : arg[r] = None
             /\ \A x \in Chunk \X Group : x[1] < at[p] => assigned[x] = Slot
             /\ pc[p] = "groups" => \A g \in Group \ seen[p] : assigned[<<at[p], g>>] = Slot
  BY <1>2 DEF Behind
<1>3. CASE \/ EnterChunk(p) \/ LockAlloc(p) \/ AllocChunk(p) \/ ChunkAllocated(p)
           \/ SetPtr(p) \/ SetCount(p)
  <2>1. /\ pc[p] \in Search /\ pc'[p] # "groups"
        /\ UNCHANGED <<overlap, arg, at, assigned>>
    BY <1>3 DEF EnterChunk, LockAlloc, AllocChunk, ChunkAllocated, SetPtr, SetCount,
                TypeInv, Search, poolVars, locals, history
  <2> QED
    BY <1>2, <2>1
<1>4. CASE LoadAvailable(p)
  <2>1. /\ pc[p] \in Search /\ at[p] \in Chunk
        /\ UNCHANGED <<overlap, arg, at, assigned>>
        /\ seen'[p] = Group \ full[at[p]]
    BY <1>4, Places DEF LoadAvailable, TypeInv, Search, poolVars, history
  <2>2. ASSUME NEW g \in Group \ seen'[p] PROVE assigned[<<at[p], g>>] = Slot
    <3>1. g \in full[at[p]] /\ MarkInv(at[p], g)
      BY <2>1 DEF MarksInv
    <3>2. ~ \E r \in Thread : Unmarks(r, at[p], g)
      BY <1>2, <2>1 DEF Unmarks
    <3> QED
      BY <3>1, <3>2 DEF MarkInv
  <2> QED
    BY <1>2, <2>1, <2>2
<1>5. CASE SkipGroup(p)
  <2>1. /\ pc[p] = "groups" /\ UNCHANGED <<overlap, arg, at, assigned>>
        /\ seen'[p] = seen[p] \ {First(seen[p])}
        /\ assigned[<<at[p], First(seen[p])>>] = Slot
    BY <1>5, FirstElements DEF SkipGroup, TypeInv, poolVars, history
  <2>2. pc[p] \in Search
    BY <2>1 DEF Search
  <2> QED
    BY <1>2, <2>1, <2>2
<1>6. CASE LeaveChunk(p)
  <2>1. /\ pc[p] = "groups" /\ pc'[p] = "chunk" /\ UNCHANGED <<overlap, arg, assigned>>
        /\ at'[p] = at[p] + 1 /\ seen[p] = {}
    BY <1>6 DEF LeaveChunk, TypeInv, poolVars, history
  <2>2. pc[p] \in Search /\ at[p] \in Chunk
    BY <2>1, Places DEF Search
  <2>3. ASSUME NEW x \in Chunk \X Group, x[1] < at[p] + 1 PROVE assigned[x] = Slot
    <3>1. x[1] < at[p] \/ x = <<at[p], x[2]>>
      BY <2>2, <2>3 DEF Chunk
    <3> QED
      BY <1>2, <2>1, <2>2, <3>1
  <2> QED
    BY <1>2, <2>1, <2>2, <2>3
<1>7. CASE \/ AllocFails(p) \/ AssignFails(p) \/ FindNoIndex(p) \/ FindIndex(p)
           \/ UpdateStep(p)
  <2>1. Return(p) => pc'[p] = "idle"
    BY DEF Return, TypeInv
  <2>2. pc'[p] \notin Search
    BY <1>7, <2>1 DEF AllocFails, AssignFails, FindNoIndex, FindIndex, UpdateStep,
          LockFull, CheckFull, NoUpdate, WriteFull, Search, TypeInv
  <2> QED
    BY <2>2
<1>8. CASE TakeElement(p) \/ ClearBit(p)
  <2>1. pc'[p] = "idle" \/ pc'[p] = "lockFull"
    BY <1>8, TakeFacts, ClearFacts DEF Takes, Clears
  <2> QED
    BY <2>1 DEF Search
<1>9. ASSUME NEW i \in held, CallUnassign(p, i) \/ CallUnassignPtr(p, i) PROVE FALSE
  <2>1. pc'[p] \in Give
    BY <1>9, StartFacts
  <2> QED
    BY <2>1 DEF Search, Give
<1> QED
  BY <1>1, <1>3, <1>4, <1>5, <1>6, <1>7, <1>8, <1>9
  DEF StepOf, AssignStep, UnassignStep

LEMMA BehindStep ==
    ASSUME TypeInv, PlaceInv, BitsTellHeld, MarksInv, BehindInv, [Next]_vars
    PROVE  BehindInv'
<1>1. \A q \in Thread : Behind(q)
  BY DEF BehindInv, Behind
<1>2. ASSUME NEW p \in Thread, StepOf(p), NEW q \in Thread PROVE Behind(q)'
  BY <1>1, <1>2, BehindOthers, BehindSelf
<1>3. ASSUME UNCHANGED vars, NEW q \in Thread PROVE Behind(q)'
  BY <1>1, <1>3 DEF Behind, vars, poolVars, locals, history
<1>4. \A q \in Thread : Behind(q)'
  BY <1>2, <1>3 DEF Next, StepOf
<1> QED
  BY <1>4 DEF BehindInv, Behind

-----------------------------------------------------------------------------
(* The theorems.                                                           *)

LEMMA IInvInit == Init => IInv
<1> SUFFICES ASSUME Init PROVE IInv
  OBVIOUS
<1>1. 0 \in 0..MaxChunks /\ 0 \in Group
  BY PoolAssumption DEF Group
<1>2. TypeInv
  BY <1>1 DEF Init, TypeInv
<1>3. PlaceInv /\ GiveInv /\ GuardInv
  BY DEF Init, PlaceInv, GiveInv, GuardInv, Search, Give, Update
<1>4. BitsTellHeld
  <2>1. \A i \in Index : /\ ChunkOf(i) \in Chunk /\ GroupOf(i) \in Group
                         /\ ~InUse(i)
    BY PlaceOfIndex DEF Init, InUse, Give
  <2> QED
    BY <2>1, FreshIsUnused DEF Init, BitsTellHeld
<1>5. MarksInv
  <2>1. 0 \in Slot
    BY PoolAssumption DEF Slot
  <2> QED
    BY <2>1 DEF Init, MarksInv, MarkInv, Marks, Unmarks, Updating
<1>6. BehindInv
  BY DEF Init, BehindInv, Search
<1> QED
  BY <1>2, <1>3, <1>4, <1>5, <1>6 DEF IInv

LEMMA IInvStep == IInv /\ [Next]_vars => IInv'
  BY TypeStep, PlaceStep, GiveStep, BitsStep, GuardStep, MarksStep, BehindStep DEF IInv

LEMMA IInvAlways == Spec => []IInv
<1>1. IInv /\ [Next]_vars => IInv'
  BY IInvStep
<1> QED
  BY IInvInit, <1>1, PTL DEF Spec

\* A bit is set for the elements that are held, are about to be given back or
\* were not found by Unassign, and for no other: _AssignInChunk and Unassign
\* change one bit of one word each.
THEOREM BitsAreRight == Spec => []BitsTellHeld
<1>1. IInv => BitsTellHeld
  BY DEF IInv
<1> QED
  BY IInvAlways, <1>1, PTL

\* The mark of a full group: the thread that fills a group and the one that takes
\* an element of the full group check, under the spinlock, whether it is still so
\* before they write.
THEOREM MarksAreExact == Spec => []FullIsExact
<1>1. IInv => FullIsExact
  BY DEF IInv, MarksInv, MarkInv, Marks, Unmarks, FullIsExact
<1> QED
  BY IInvAlways, <1>1, PTL

\* Assign passes no chunk over: it returns false only when the pool is exhausted,
\* or an element was given back meanwhile.
THEOREM FailsWhenExhausted == Spec => []OverflowIsReal
<1>1. ASSUME IInv PROVE OverflowIsReal
  <2> SUFFICES ASSUME NEW p \in Thread, pc[p] = "chunk", at[p] = MaxChunks, ~overlap[p],
                      NEW x \in Chunk \X Group
               PROVE  assigned[x] = Slot
    BY DEF OverflowIsReal
  <2>1. x[1] < at[p]
    BY PoolAssumption DEF Chunk
  <2>2. pc[p] \in Search
    BY DEF Search
  <2> QED
    BY <1>1, <2>1, <2>2 DEF IInv, BehindInv
<1> QED
  BY IInvAlways, <1>1, PTL

\* Assign returns an index that nobody has.
THEOREM HandedOutOnce == Spec => NeverTwice
<1>1. ASSUME IInv, [Next]_vars, NEW i \in held' \ held PROVE Fresh(i)
  <2>1. ASSUME NEW p \in Thread, StepOf(p) PROVE ~InUse(i)
    <3> USE DEF IInv
    <3>1. ~Quiet(p)
      BY <1>1, QuietKeeps
    <3>2. ~FindNoIndex(p)
      BY <1>1, LostFacts
    <3>3. ~ClearBit(p)
      BY <1>1, ClearFacts DEF Clears
    <3>4. ASSUME NEW k \in held, CallUnassign(p, k) \/ CallUnassignPtr(p, k) PROVE FALSE
      BY <1>1, <3>4, StartFacts
    <3>5. TakeElement(p)
      BY <2>1, <3>1, <3>2, <3>3, <3>4, StepCases
    <3>6. PICK c \in Chunk, g \in Group, s \in Slot : Takes(p, c, g, s)
      BY <1>1, <3>5, TakeFacts
    <3>7. i = IndexOfSlot(c, g, s)
      BY <1>1, <3>6 DEF Takes
    <3> QED
      BY <3>6, <3>7 DEF Takes
  <2>2. ~ UNCHANGED vars
    BY <1>1 DEF vars, history
  <2> QED
    BY <1>1, <2>1, <2>2, FreshIsUnused DEF Next, StepOf
<1>2. IInv /\ [Next]_vars => [\A i \in held' \ held : Fresh(i)]_vars
  BY <1>1
<1> QED
  BY IInvAlways, <1>2, PTL DEF Spec, NeverTwice
=============================================================================
