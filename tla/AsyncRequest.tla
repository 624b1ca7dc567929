----------------------------- MODULE AsyncRequest -----------------------------
(***************************************************************************)
(* Asynchronous reads and writes of files, and the tasks that wait for     *)
(* them (threading/DataSource/AsyncDataSource.{h,cpp},                     *)
(* UnixAsyncDataSource.cpp), with io_uring, which is the default on Linux  *)
(* (UnixAsyncDataSource_IOuring.h).                                        *)
(*                                                                         *)
(* A request is an object of a pool.  The thread that creates it has the   *)
(* name of the request here, Io is the one in ProcessEvents().  One step   *)
(* is one critical section, one call of the kernel, or one access to the   *)
(* status or the counter of the references.  There is one ring: a request  *)
(* goes to any ring that is not locked, and rings share nothing.  Cancel() *)
(* finds no ring, _GetIOURing( idx ) is null, and does nothing.            *)
(***************************************************************************)
EXTENDS Integers, FiniteSets, SequencesExt

CONSTANTS
    Request,    \* the objects of a pool of requests
    Task,       \* tasks that wait for a request, one dependency each
    Weak,       \* those with a weak dependency
    Io,         \* the thread in ProcessEvents()
    None,
    MaxDeps,    \* capacity of _deps, 4 in the code
    SqSize,     \* entries of the submission queue
    MayRefuse,  \* bound: io_uring_submit() may return an error
    MaxLives    \* bound: how often an object of the pool is used

ASSUME RequestAssumption == /\ Weak \subseteq Task
                            /\ Io \notin Request
                            /\ None \notin Request \union {Io}
                            /\ MaxDeps \in Nat \ {0}
                            /\ SqSize \in Nat \ {0}
                            /\ MayRefuse \in BOOLEAN
                            /\ MaxLives \in Nat

Process == Request \union {Io}

VARIABLES
    status,     \* _status
    refs,       \* the counter of the references
    deps,       \* _deps
    guard,      \* who holds the guard of the ring
    sq,         \* submission queue: entries the kernel has not taken
    inKernel,   \* the entries the kernel works on
    cq,         \* completion queue
    pc,         \* where a process is
    waits,      \* history: the request and life a task is registered on
    outcome,    \* of the dependency of a task
    life        \* history: how often the object was created

vars == <<status, refs, deps, guard, sq, inKernel, cq, pc, waits, outcome,
          life>>

ringVars == <<guard, sq, inKernel, cq>>
taskVars == <<deps, waits, outcome>>

\* What a submission entry points to: the object, in this life.
Entry == [request : Request, life : Nat]

ASSUME NoneAssumption == None \notin Entry

TypeOK ==
    /\ status \in [Request -> {"Destroyed", "InProgress", "Completed",
                               "Cancelled"}]
    /\ refs \in [Request -> Nat]
    /\ deps \in [Request -> SUBSET Task]
    /\ guard \in Process \union {None}
    /\ sq \in Seq(Entry)
    /\ inKernel \in SUBSET Entry
    /\ cq \in Seq([entry : Entry, ok : BOOLEAN])
    /\ pc \in [Process -> {"free", "ring", "submit", "user", "fail",
                           "notify", "deref", "drop", "peek"}]
    /\ waits \in [Task -> Entry \union {None}]
    /\ outcome \in [Task -> {"none", "waiting", "ready", "canceled", "refused"}]
    /\ life \in [Request -> Nat]

Init ==
    /\ status = [r \in Request |-> "Destroyed"]
    /\ refs = [r \in Request |-> 0]
    /\ deps = [r \in Request |-> {}]
    /\ guard = None
    /\ sq = <<>>
    /\ inKernel = {}
    /\ cq = <<>>
    /\ pc = [p \in Process |-> "free"]
    /\ waits = [t \in Task |-> None]
    /\ outcome = [t \in Task |-> "none"]
    /\ life = [r \in Request |-> 0]

Goto(p, from, to) ==
    /\ pc[p] = from
    /\ pc' = [pc EXCEPT ![p] = to]

This(r) == [request |-> r, life |-> life[r]]

IsFinished(r) == status[r] \in {"Completed", "Cancelled"}
-----------------------------------------------------------------------------
(* CreateResult() and _Create() *)

\* The object is assigned, has a reference of `res' and in _Init() one more
\* for the kernel.
Create_Bug(r) ==
    /\ life[r] < MaxLives
    /\ status[r] = "Destroyed"
    /\ Goto(r, "free", "ring")
    /\ status' = [status EXCEPT ![r] = "InProgress"]
    /\ refs' = [refs EXCEPT ![r] = 1]
    /\ life' = [life EXCEPT ![r] = @ + 1]
    /\ UNCHANGED <<ringVars, taskVars>>

Create(r) ==
    /\ life[r] < MaxLives
    /\ status[r] = "Destroyed"
    /\ Goto(r, "free", "ring")
    /\ status' = [status EXCEPT ![r] = "InProgress"]
    /\ refs' = [refs EXCEPT ![r] = 2]
    /\ life' = [life EXCEPT ![r] = @ + 1]
    /\ UNCHANGED <<ringVars, taskVars>>

\* _GetIOURing() locks the ring.  CHECK_ERR( sqe != null ) leaves it locked.
PrepareEntry(r) ==
    /\ guard = None
    /\ guard' = r
    /\ IF Len(sq) < SqSize
       THEN Goto(r, "ring", "submit") /\ sq' = Append(sq, This(r))
       ELSE Goto(r, "ring", "fail") /\ UNCHANGED sq
    /\ UNCHANGED <<status, refs, inKernel, cq, life, taskVars>>

\* io_uring_submit(): the kernel takes all entries of the queue and returns
\* their number, or an error and takes none.
SubmitEntries(r) ==
    /\ \E n \in {Len(sq)} \union (IF MayRefuse THEN {0} ELSE {}) :
        /\ Goto(r, "submit", IF n = 1 THEN "user" ELSE "fail")
        /\ IF n > 0 THEN inKernel' = inKernel \union ToSet(sq) /\ sq' = <<>>
                    ELSE UNCHANGED <<inKernel, sq>>
    /\ guard' = None
    /\ UNCHANGED <<status, refs, cq, life, taskVars>>

\* The kernel is done with an entry.
KernelDone(e) ==
    /\ inKernel' = inKernel \ {e}
    /\ \E ok \in BOOLEAN : cq' = Append(cq, [entry |-> e, ok |-> ok])
    /\ UNCHANGED <<status, refs, guard, sq, pc, life, taskVars>>
-----------------------------------------------------------------------------
(* ProcessEvents() *)

\* Every thread that finds the ring unlocked looks at the completions.
ProcessEvents ==
    /\ Goto(Io, "free", "peek")
    /\ guard = None
    /\ cq # <<>>
    /\ guard' = Io
    /\ UNCHANGED <<status, refs, sq, inKernel, cq, life, taskVars>>

\* There is nothing more in the completion queue.
Unlock ==
    /\ Goto(Io, "peek", "free")
    /\ cq = <<>>
    /\ guard' = None
    /\ UNCHANGED <<status, refs, sq, inKernel, cq, life, taskVars>>
-----------------------------------------------------------------------------
(* _Complete(), in ProcessEvents() or when _Create() has failed. *)

Completing(p) == pc[p] \in {"fail", "peek"} /\ (p = Io => cq # <<>>)

\* The request that p completes.
Target(p) == IF p = Io THEN Head(cq).entry.request ELSE p

Result(p) == p = Io /\ Head(cq).ok

\* The status is changed first ...
Complete(p) ==
    /\ Completing(p)
    /\ status' = [status EXCEPT ![Target(p)] =
                    IF Result(p) THEN "Completed" ELSE "Cancelled"]
    /\ pc' = [pc EXCEPT ![p] = "notify"]
    /\ UNCHANGED <<refs, life, ringVars, taskVars>>

SetDependencyCompleteStatus_Bug(p) ==
    LET r == Target(p) IN
    /\ Goto(p, "notify", "deref")
    /\ outcome' = [t \in Task |->
                    IF t \notin deps[r] THEN outcome[t]
                    ELSE IF Result(p) THEN "ready" ELSE "canceled"]
    /\ deps' = [deps EXCEPT ![r] = {}]
    /\ UNCHANGED <<status, refs, waits, life, ringVars>>

\* ... then _SetDependencyCompleteStatus(), under _depsGuard ...
SetDependencyCompleteStatus(p) ==
    LET r == Target(p) IN
    /\ Goto(p, "notify", "deref")
    /\ outcome' = [t \in Task |->
                    IF t \notin deps[r] THEN outcome[t]
                    ELSE IF Result(p) \/ t \in Weak THEN "ready"
                    ELSE "canceled"]
    /\ deps' = [deps EXCEPT ![r] = {}]
    /\ UNCHANGED <<status, refs, waits, life, ringVars>>

\* DecRef: the last one calls _ReleaseObject().
DecRef(r) ==
    /\ refs' = [refs EXCEPT ![r] = @ - 1]
    /\ status' = [status EXCEPT ![r] = IF refs[r] = 1 THEN "Destroyed" ELSE @]

\* ... and last the reference of the kernel is dropped, and the entry of
\* the queue is marked as seen.
CompleteDecRef(p) ==
    /\ Goto(p, "deref", IF p = Io THEN "peek" ELSE "drop")
    /\ DecRef(Target(p))
    /\ cq' = IF p = Io THEN Tail(cq) ELSE cq
    /\ UNCHANGED <<guard, sq, inKernel, life, taskVars>>
-----------------------------------------------------------------------------
(* The user of a request *)

\* The user drops its reference, CreateResult() that of a failed request.
Drop(r) ==
    /\ pc[r] \in {"user", "drop"}
    /\ pc' = [pc EXCEPT ![r] = "free"]
    /\ DecRef(r)
    /\ UNCHANGED <<life, ringVars, taskVars>>

\* Resolve() and _AddOnCompleteDependency(), under _depsGuard.  Run() of a
\* task with a refused dependency fails.
AddOnCompleteDependency_Bug(t, r) ==
    /\ pc[r] = "user"
    /\ waits[t] = None
    /\ waits' = [waits EXCEPT ![t] = This(r)]
    /\ outcome' = [outcome EXCEPT ![t] = "waiting"]
    /\ deps' = [deps EXCEPT ![r] = @ \union {t}]
    /\ UNCHANGED <<status, refs, pc, life, ringVars>>

IsFull(r) == Cardinality(deps[r]) >= MaxDeps

AddOnCompleteDependency(t, r) ==
    LET added == ~IsFinished(r) /\ ~IsFull(r) IN
    /\ pc[r] = "user"
    /\ waits[t] = None
    /\ waits' = [waits EXCEPT ![t] = This(r)]
    /\ deps' = [deps EXCEPT ![r] = @ \union (IF added THEN {t} ELSE {})]
    /\ outcome' = [outcome EXCEPT ![t] =
                    IF added THEN "waiting"
                    ELSE IF t \in Weak \/ status[r] = "Completed" THEN "ready"
                    ELSE "refused"]
    /\ UNCHANGED <<status, refs, pc, life, ringVars>>
-----------------------------------------------------------------------------
Creator(r) ==
    \/ PrepareEntry(r)
    \/ SubmitEntries(r)

CompleteStep(p) ==
    \/ Complete(p)
    \/ SetDependencyCompleteStatus(p)
    \/ CompleteDecRef(p)

Kernel == \E e \in inKernel : KernelDone(e)

User == \E r \in Request :
            \/ Create(r)
            \/ Drop(r)
            \/ \E t \in Task : AddOnCompleteDependency(t, r)

Next == \/ User
        \/ \E r \in Request : Creator(r)
        \/ \E p \in Process : CompleteStep(p)
        \/ ProcessEvents
        \/ Unlock
        \/ Kernel

Spec == Init /\ [][Next]_vars

\* Threads go on, the kernel works, and some thread calls ProcessEvents()
\* again and again: a ring is locked for the time of one submission.
Fairness == /\ \A r \in Request : /\ WF_vars(Creator(r))
                                  /\ WF_vars(pc[r] = "drop" /\ Drop(r))
            /\ \A p \in Process : WF_vars(CompleteStep(p))
            /\ SF_vars(ProcessEvents)
            /\ WF_vars(Unlock)
            /\ WF_vars(Kernel)

FairSpec == Spec /\ Fairness
-----------------------------------------------------------------------------
\* "Ref count was increased in '_Init()' to keep request alive until it is
\* complete" (UnixAsyncDataSource.cpp): whatever the kernel works on, or has
\* reported, is a request in progress and in the same life, so the memory it
\* reads from or writes to is still there.
Reported ==
    {cq[n].entry : n \in (IF pc[Io] \in {"notify", "deref"} THEN 2 ELSE 1)..Len(cq)}

AliveInKernel ==
    \A e \in inKernel \union Reported :
        status[e.request] = "InProgress" /\ life[e.request] = e.life

\* "ASSERT( stat == EStatus::InProgress )" in _Complete(): a request is
\* completed once.
CompletesOnce ==
    \A p \in Process : Completing(p) => status[Target(p)] = "InProgress"

\* A task is canceled only because of a strong dependency on a request that
\* was cancelled; one that is still listed waits for this life of the
\* request, however often the object was used before.
CanceledByRequest ==
    \A t \in Task :
        /\ outcome[t] = "canceled" => t \notin Weak
        /\ \A r \in Request : t \in deps[r] =>
                outcome[t] = "waiting" /\ waits[t] = This(r)

\* A request is a completion source: who is registered on it goes on after
\* it has finished and is never left behind, whether the registration or the
\* completion comes first.
Source == INSTANCE CompletionSource WITH
    Source <- Request \X (1..MaxLives),
    NoSource <- None,
    finished <- {s \in Request \X (1..MaxLives) :
                    \/ s[2] < life[s[1]]
                    \/ s[2] = life[s[1]] /\ status[s[1]] # "InProgress"},
    waitsFor <- [t \in Task |->
                    IF outcome[t] \in {"none", "refused"} THEN None
                    ELSE <<waits[t].request, waits[t].life>>],
    released <- {t \in Task : outcome[t] \in {"ready", "canceled"}}

RequestSource == Source!Spec
=============================================================================
