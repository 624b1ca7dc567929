----------------------------- MODULE IndexedPool -----------------------------
(***************************************************************************)
(* LfIndexedPool: elements in chunks that are allocated when they are      *)
(* needed and never freed (threading/Containers/LfIndexedPool.inl.h).  One *)
(* bit says of an element that it is assigned; one bit of the high level,  *)
(* 'available', that a group of them is full.  The scheduler takes the     *)
(* output chunks of the tasks from such a pool.                            *)
(*                                                                         *)
(* A step is one access to a shared word.  The compare-and-swap loop of    *)
(* _AssignInChunk, which reloads the word it has missed, is one step.      *)
(***************************************************************************)
EXTENDS Integers, FiniteSets

CONSTANTS
    Thread,
    MaxChunks,      \* 64 in the scheduler
    HighLvlCount,   \* groups of a chunk
    LowLvlCount,    \* elements of a group, 32 or 64
    None

ASSUME PoolAssumption ==
    /\ MaxChunks \in Nat \ {0} /\ HighLvlCount \in Nat \ {0}
    /\ LowLvlCount \in Nat \ {0}
    /\ None \notin Nat \union Thread

Chunk == 0..(MaxChunks - 1)
Group == 0..(HighLvlCount - 1)
Slot == 0..(LowLvlCount - 1)

ChunkSize == HighLvlCount * LowLvlCount
Index == 0..(MaxChunks * ChunkSize - 1)

IndexOfSlot_Bug(c, g, s) == g * LowLvlCount + s

\* An index is put together by Assign, and taken apart by Unassign.
IndexOfSlot(c, g, s) == c * ChunkSize + (g * LowLvlCount + s)

ChunkOf(i) == i \div ChunkSize

GroupOf(i) == (i % ChunkSize) \div LowLvlCount

SlotOf(i) == (i % ChunkSize) % LowLvlCount

VARIABLES
    assigned,   \* LowLevelChunk::assigned of every group, as a set
    full,       \* HighLevelChunk::available: the groups marked full
    guard,      \* availableGuard of every chunk: who holds it
    chunksPtr,  \* the chunks whose pointer is not null
    highChunkCount,
    allocGuard, \* who holds it
    pc,         \* of every thread: where it is
    at,         \* local: the chunk
    known,      \* local: hi_lvl_count
    seen,       \* local: hi_available, the groups still to try
    group,      \* local: chunk_idx
    arg,        \* of every thread: the index it unassigns
    held,       \* history: the indices Assign returned, not given back yet
    lost,       \* history: the indices Unassign did not find
    overlap     \* history: of a thread in Assign, whether an Unassign overlaps

poolVars == <<assigned, full, guard, chunksPtr, highChunkCount, allocGuard>>
locals == <<at, known, seen, group, arg>>
history == <<held, lost, overlap>>
vars == <<poolVars, pc, locals, history>>

Init ==
    /\ assigned = [x \in Chunk \X Group |-> {}]
    /\ full = [c \in Chunk |-> {}]
    /\ guard = [c \in Chunk |-> None]
    /\ chunksPtr = {} /\ highChunkCount = 0 /\ allocGuard = None
    /\ pc = [p \in Thread |-> "idle"]
    /\ at = [p \in Thread |-> 0] /\ known = [p \in Thread |-> 0]
    /\ seen = [p \in Thread |-> {}] /\ group = [p \in Thread |-> 0]
    /\ arg = [p \in Thread |-> None]
    /\ held = {} /\ lost = {} /\ overlap = [p \in Thread |-> FALSE]

Goto(p, l) == pc' = [pc EXCEPT ![p] = l]

\* The call of p returns; its locals are gone.
Return(p) ==
    /\ Goto(p, "idle")
    /\ at' = [at EXCEPT ![p] = 0] /\ known' = [known EXCEPT ![p] = 0]
    /\ seen' = [seen EXCEPT ![p] = {}] /\ group' = [group EXCEPT ![p] = 0]
    /\ arg' = [arg EXCEPT ![p] = None]
    /\ overlap' = [overlap EXCEPT ![p] = FALSE]

Unassigning(p) == arg[p] # None

-----------------------------------------------------------------------------
(* Assign                                                                  *)

CallAssign(p) ==
    /\ pc[p] = "idle"
    /\ known' = [known EXCEPT ![p] = highChunkCount]
    /\ overlap' = [overlap EXCEPT ![p] = \E q \in Thread : Unassigning(q)]
    /\ Goto(p, "chunk")
    /\ UNCHANGED <<poolVars, at, seen, group, arg, held, lost>>

\* The chunk is known, or its pointer is set: look for an element in it.
EnterChunk(p) ==
    /\ pc[p] = "chunk" /\ at[p] < MaxChunks
    /\ at[p] < known[p] \/ at[p] \in chunksPtr
    /\ Goto(p, "load")
    /\ UNCHANGED <<poolVars, locals, history>>

\* EXLOCK( _allocGuard )
LockAlloc(p) ==
    /\ pc[p] = "chunk" /\ at[p] < MaxChunks
    /\ at[p] >= known[p] /\ at[p] \notin chunksPtr
    /\ Goto(p, "lockAlloc")
    /\ UNCHANGED <<poolVars, locals, history>>

AllocChunk(p) ==
    /\ pc[p] = "lockAlloc" /\ allocGuard = None
    /\ at[p] \notin chunksPtr
    /\ allocGuard' = p
    /\ Goto(p, "setPtr")
    /\ UNCHANGED <<assigned, full, guard, chunksPtr, highChunkCount, locals,
                   history>>

\* Another thread has allocated the chunk meanwhile.
ChunkAllocated(p) ==
    /\ pc[p] = "lockAlloc" /\ allocGuard = None
    /\ at[p] \in chunksPtr
    /\ Goto(p, "load")
    /\ UNCHANGED <<poolVars, locals, history>>

\* The allocator is out of memory: Assign returns false.
AllocFails(p) ==
    /\ pc[p] = "setPtr"
    /\ allocGuard' = None
    /\ Return(p)
    /\ UNCHANGED <<assigned, full, guard, chunksPtr, highChunkCount, held, lost>>

\* The new chunk can be seen ...
SetPtr(p) ==
    /\ pc[p] = "setPtr"
    /\ chunksPtr' = chunksPtr \union {at[p]}
    /\ Goto(p, "setCount")
    /\ UNCHANGED <<assigned, full, guard, highChunkCount, allocGuard, locals,
                   history>>

\* ... and is counted only then.  Unlock.
SetCount(p) ==
    /\ pc[p] = "setCount"
    /\ highChunkCount' = at[p] + 1
    /\ allocGuard' = None
    /\ Goto(p, "load")
    /\ UNCHANGED <<assigned, full, guard, chunksPtr, locals, history>>

\* _AssignInChunk: the groups that are not marked full.
LoadAvailable(p) ==
    /\ pc[p] = "load"
    /\ seen' = [seen EXCEPT ![p] = Group \ full[at[p]]]
    /\ Goto(p, "groups")
    /\ UNCHANGED <<poolVars, at, known, group, arg, history>>

First(S) == CHOOSE n \in S : \A k \in S : n <= k

Elements(p) == <<at[p], First(seen[p])>>

\* The first free element of the group is taken; if it was the last one, the
\* group is to be marked full.
TakeElement(p) ==
    /\ pc[p] = "groups" /\ seen[p] # {}
    /\ LET x == Elements(p)
           free == Slot \ assigned[x]
           s == First(free)
       IN /\ free # {}
          /\ assigned' = [assigned EXCEPT ![x] = @ \union {s}]
          /\ held' = held \union {IndexOfSlot(x[1], x[2], s)}
          /\ IF free = {s}
             THEN /\ Goto(p, "lockFull")
                  /\ group' = [group EXCEPT ![p] = x[2]]
                  /\ UNCHANGED <<at, known, seen, arg, overlap>>
             ELSE Return(p)
    /\ UNCHANGED <<full, guard, chunksPtr, highChunkCount, allocGuard, lost>>

SkipGroup(p) ==
    /\ pc[p] = "groups" /\ seen[p] # {}
    /\ assigned[Elements(p)] = Slot
    /\ seen' = [seen EXCEPT ![p] = @ \ {First(@)}]
    /\ UNCHANGED <<poolVars, pc, at, known, group, arg, history>>

LeaveChunk(p) ==
    /\ pc[p] = "groups" /\ seen[p] = {}
    /\ at' = [at EXCEPT ![p] = @ + 1]
    /\ Goto(p, "chunk")
    /\ UNCHANGED <<poolVars, known, seen, group, arg, history>>

\* Pool overflow: Assign returns false.
AssignFails(p) ==
    /\ pc[p] = "chunk" /\ at[p] = MaxChunks
    /\ Return(p)
    /\ UNCHANGED <<poolVars, held, lost>>

-----------------------------------------------------------------------------
(* Unassign, of an index some thread holds                                 *)

\* Whoever is in Assign meanwhile may miss the element that is given back.
StartUnassign(p, i, l) ==
    /\ pc[p] = "idle" /\ i \in held
    /\ held' = held \ {i}
    /\ arg' = [arg EXCEPT ![p] = i]
    /\ overlap' = [q \in Thread |-> overlap[q] \/ (pc[q] # "idle" /\ ~Unassigning(q))]
    /\ Goto(p, l)
    /\ UNCHANGED <<poolVars, at, known, seen, group, lost>>

CallUnassign(p, i) == StartUnassign(p, i, "clear")

\* Unassign( ptr )
CallUnassignPtr(p, i) == StartUnassign(p, i, "find")

\* IndexOf: the chunk that has the pointer is among those that are counted.
FindIndex(p) ==
    /\ pc[p] = "find"
    /\ ChunkOf(arg[p]) < highChunkCount
    /\ Goto(p, "clear")
    /\ UNCHANGED <<poolVars, locals, history>>

\* Out of bounds: Unassign returns false.
FindNoIndex(p) ==
    /\ pc[p] = "find"
    /\ ChunkOf(arg[p]) >= highChunkCount
    /\ lost' = lost \union {arg[p]}
    /\ Return(p)
    /\ UNCHANGED <<poolVars, held>>

WasFull_Bug(S) == Cardinality(S) = LowLvlCount - 1

WasFull(S) == S = Slot

ClearBit(p) ==
    /\ pc[p] = "clear"
    /\ LET x == <<ChunkOf(arg[p]), GroupOf(arg[p])>>
       IN /\ assigned' = [assigned EXCEPT ![x] = @ \ {SlotOf(arg[p])}]
          /\ IF WasFull(assigned[x])
             THEN /\ Goto(p, "lockFull")
                  /\ at' = [at EXCEPT ![p] = x[1]]
                  /\ group' = [group EXCEPT ![p] = x[2]]
                  /\ UNCHANGED <<known, seen, arg, overlap>>
             ELSE Return(p)
    /\ UNCHANGED <<full, guard, chunksPtr, highChunkCount, allocGuard, held,
                   lost>>

-----------------------------------------------------------------------------
(* The update of 'available', under its spinlock                           *)

LockFull(p) ==
    /\ pc[p] = "lockFull" /\ guard[at[p]] = None
    /\ guard' = [guard EXCEPT ![at[p]] = p]
    /\ Goto(p, "check")
    /\ UNCHANGED <<assigned, full, chunksPtr, highChunkCount, allocGuard,
                   locals, history>>

StillSo_Bug(p) == TRUE

\* The low level may have changed before the lock was taken: is it still full,
\* or still not full?
StillSo(p) == Unassigning(p) <=> assigned[<<at[p], group[p]>>] # Slot

CheckFull(p) ==
    /\ pc[p] = "check" /\ StillSo(p)
    /\ Goto(p, "write")
    /\ UNCHANGED <<poolVars, locals, history>>

NoUpdate(p) ==
    /\ pc[p] = "check" /\ ~StillSo(p)
    /\ guard' = [guard EXCEPT ![at[p]] = None]
    /\ Return(p)
    /\ UNCHANGED <<assigned, full, chunksPtr, highChunkCount, allocGuard, held,
                   lost>>

WriteFull(p) ==
    /\ pc[p] = "write"
    /\ full' = [full EXCEPT ![at[p]] = IF Unassigning(p) THEN @ \ {group[p]}
                                       ELSE @ \union {group[p]}]
    /\ guard' = [guard EXCEPT ![at[p]] = None]
    /\ Return(p)
    /\ UNCHANGED <<assigned, chunksPtr, highChunkCount, allocGuard, held, lost>>

-----------------------------------------------------------------------------

AssignStep(p) ==
    \/ EnterChunk(p) \/ LockAlloc(p) \/ AllocChunk(p) \/ ChunkAllocated(p)
    \/ AllocFails(p) \/ SetPtr(p) \/ SetCount(p) \/ LoadAvailable(p)
    \/ TakeElement(p) \/ SkipGroup(p) \/ LeaveChunk(p) \/ AssignFails(p)

UnassignStep(p) == FindIndex(p) \/ FindNoIndex(p) \/ ClearBit(p)

UpdateStep(p) == LockFull(p) \/ CheckFull(p) \/ NoUpdate(p) \/ WriteFull(p)

Next ==
    \E p \in Thread :
        \/ CallAssign(p) \/ AssignStep(p) \/ UnassignStep(p) \/ UpdateStep(p)
        \/ \E i \in held : CallUnassign(p, i) \/ CallUnassignPtr(p, i)

Spec == Init /\ [][Next]_vars

-----------------------------------------------------------------------------
(* Properties                                                              *)

\* An element is handed out once: what Assign returns nobody holds, and nobody
\* is giving back.
Fresh(i) == i \notin held \union lost /\ \A p \in Thread : pc[p] \in {"find", "clear"} => arg[p] # i

NeverTwice == [][\A i \in held' \ held : Fresh(i)]_vars

\* The bits tell who has what: a bit is set for the elements that are held, that
\* are about to be given back, or that Unassign lost, and for no other.
BitsTellHeld ==
    \A i \in Index :
        SlotOf(i) \in assigned[<<ChunkOf(i), GroupOf(i)>>] <=> ~Fresh(i)

\* The bit of the high level is right whenever nobody is about to update it: the
\* race of the thread that fills a group and the one that empties it leaves no
\* group marked full for ever, and none free.
Updating(p, c, g) ==
    pc[p] \in {"lockFull", "check", "write"} /\ at[p] = c /\ group[p] = g

FullIsExact ==
    \A c \in Chunk, g \in Group :
        \/ g \in full[c] <=> assigned[<<c, g>>] = Slot
        \/ \E p \in Thread : Updating(p, c, g)

\* Assign fails for want of elements only if every element is assigned, unless
\* one was given back while it searched: no chunk is passed over, however the
\* allocation of chunks and the marking of groups go.
OverflowIsReal ==
    \A p \in Thread :
        pc[p] = "chunk" /\ at[p] = MaxChunks /\ ~overlap[p] =>
            \A x \in Chunk \X Group : assigned[x] = Slot

\* A thread that holds an element can give it back: CHECK( chunk_pool.Unassign(
\* old_chunk )) of the scheduler.
UnassignSucceeds == lost = {}
=============================================================================
