-------------------------- MODULE AsyncRequestProofs --------------------------
(***************************************************************************)
(* Proofs about AsyncRequest, for every number of requests, tasks and      *)
(* lives, as long as the kernel takes what is submitted (MayRefuse is      *)
(* FALSE): a request is completed once, while its object is alive, its     *)
(* tasks are told once, and it is a completion source for them.            *)
(***************************************************************************)
EXTENDS AsyncRequest, FiniteSetTheorems, TLAPS

\* The ring is locked for the time of one submission or one look at the
\* completions, and the submission queue is empty in between.
RingInv ==
    /\ \A r \in Request : /\ pc[r] \in {"free", "ring", "submit", "user"}
                          /\ pc[r] = "submit" <=> guard = r
    /\ pc[Io] \in {"free", "peek", "notify", "deref"}
    /\ pc[Io] # "free" <=> guard = Io
    /\ pc[Io] \in {"notify", "deref"} => cq # <<>>
    /\ sq = IF guard \in Request THEN <<This(guard)>> ELSE <<>>

\* An entry is in one place, once, and is of the present life of its request.
EntryInv ==
    /\ \A e \in inKernel : /\ e = This(e.request)
                           /\ pc[e.request] \notin {"ring", "submit"}
    /\ \A n \in DOMAIN cq : /\ cq[n].entry = This(cq[n].entry.request)
                            /\ pc[cq[n].entry.request] \notin {"ring", "submit"}
                            /\ cq[n].entry \notin inKernel
    /\ \A m, n \in DOMAIN cq : cq[m].entry = cq[n].entry => m = n

Reporting(r) == \E n \in DOMAIN cq : cq[n].entry = This(r)

\* The kernel, or what leads to it, has a reference.
KernelHolds(r) ==
    \/ pc[r] \in {"ring", "submit"}
    \/ This(r) \in inKernel
    \/ Reporting(r)

UserHolds(r) == pc[r] \in {"ring", "submit", "user"}

\* The completion of r has begun, and the reference is still to be dropped.
Told(r) == pc[Io] \in {"notify", "deref"} /\ Head(cq).entry = This(r)

RefInv ==
    \A r \in Request :
        /\ refs[r] = (IF UserHolds(r) THEN 1 ELSE 0)
                     + (IF KernelHolds(r) THEN 1 ELSE 0)
        /\ status[r] = "Destroyed" <=> refs[r] = 0
        /\ status[r] = "InProgress" <=> KernelHolds(r) /\ ~Told(r)
        /\ life[r] <= MaxLives
        /\ status[r] # "Destroyed" => life[r] > 0

\* A listed task waits for this life of the request, which is not finished or
\* whose tasks are not told yet.
DepsInv ==
    /\ \A r \in Request : \A t \in deps[r] :
        /\ outcome[t] = "waiting"
        /\ waits[t] = This(r)
        /\ status[r] = "InProgress" \/ (pc[Io] = "notify" /\ Told(r))
    /\ \A t \in Task : /\ waits[t] = None <=> outcome[t] = "none"
                       /\ outcome[t] = "canceled" => t \notin Weak

IInv == TypeOK /\ RingInv /\ EntryInv /\ RefInv /\ DepsInv

-----------------------------------------------------------------------------
(* Facts about the places of an entry                                      *)

LEMMA ThisFacts ==
    \A r, x \in Request :
        /\ This(r).request = r
        /\ This(r).life = life[r]
        /\ This(r) = This(x) <=> r = x
BY DEF This

\* The request of an entry is held by the kernel.
LEMMA EntryOwner ==
    ASSUME TypeOK, EntryInv
    PROVE  /\ \A e \in inKernel : e.request \in Request /\ This(e.request) \in inKernel
           /\ \A n \in DOMAIN cq : /\ cq[n].entry.request \in Request
                                   /\ Reporting(cq[n].entry.request)
<1>1. \A n \in DOMAIN cq : cq[n] \in [entry : Entry, ok : BOOLEAN]
  <2> DEFINE S == [entry : Entry, ok : BOOLEAN]
  <2>1. cq \in Seq(S)
    BY DEF TypeOK
  <2> HIDE DEF S
  <2>2. \A n \in DOMAIN cq : cq[n] \in S
    BY <2>1
  <2> QED
    BY <2>2 DEF S
<1> QED
  BY <1>1 DEF TypeOK, EntryInv, Entry, Reporting

\* An object that nobody refers to is in no queue and has no task.
LEMMA DestroyedFacts ==
    ASSUME IInv, NEW r \in Request, status[r] = "Destroyed"
    PROVE  /\ ~KernelHolds(r) /\ ~UserHolds(r)
           /\ \A e \in inKernel : e.request # r
           /\ \A n \in DOMAIN cq : cq[n].entry.request # r
           /\ deps[r] = {}
<1>1. ~KernelHolds(r) /\ ~UserHolds(r)
  BY DEF IInv, RefInv
<1>2. /\ \A e \in inKernel : e.request # r
      /\ \A n \in DOMAIN cq : cq[n].entry.request # r
  BY <1>1, EntryOwner DEF IInv, KernelHolds
<1>3. ~Told(r)
  <2>1. pc[Io] \in {"notify", "deref"} => 1 \in DOMAIN cq /\ Head(cq) = cq[1]
    BY DEF IInv, TypeOK, RingInv
  <2> QED
    BY <1>1, <2>1 DEF Told, KernelHolds, Reporting
<1> QED
  BY <1>1, <1>2, <1>3 DEF IInv, DepsInv

\* A reference keeps the object.
LEMMA HeldFacts ==
    ASSUME IInv, NEW r \in Request, UserHolds(r) \/ KernelHolds(r)
    PROVE  status[r] # "Destroyed" /\ life[r] \in 1..MaxLives
<1>1. refs[r] # 0
  BY DEF IInv, RefInv
<1>2. status[r] # "Destroyed" /\ life[r] <= MaxLives /\ life[r] > 0
  BY <1>1 DEF IInv, RefInv
<1>3. life[r] \in Nat /\ MaxLives \in Nat
  BY RequestAssumption DEF IInv, TypeOK
<1> QED
  BY <1>2, <1>3

\* The completion that the thread in ProcessEvents() is at.
LEMMA TargetFacts ==
    ASSUME IInv, cq # <<>>
    PROVE  /\ 1 \in DOMAIN cq /\ Head(cq) = cq[1]
           /\ Target(Io) \in Request
           /\ Head(cq).entry = This(Target(Io))
           /\ KernelHolds(Target(Io))
           /\ pc[Target(Io)] \in {"free", "user"}
<1>1. 1 \in DOMAIN cq /\ Head(cq) = cq[1]
  BY DEF IInv, TypeOK
<1> QED
  BY <1>1, EntryOwner DEF IInv, Target, EntryInv, KernelHolds, RingInv

\* Only the thread in ProcessEvents() completes a request.
LEMMA OnlyIo ==
    ASSUME IInv, NEW p \in Process, CompleteStep(p)
    PROVE  p = Io /\ cq # <<>> /\ guard = Io
BY RequestAssumption
DEF IInv, RingInv, CompleteStep, Complete, SetDependencyCompleteStatus,
    CompleteDecRef, Completing, Goto, Process
-----------------------------------------------------------------------------
(* Creation                                                                *)

LEMMA CreateStep ==
    ASSUME IInv, NEW r \in Request, Create(r)
    PROVE  IInv'
<1> USE RequestAssumption
<1>1. /\ status[r] = "Destroyed" /\ pc[r] = "free" /\ life[r] < MaxLives
      /\ status' = [status EXCEPT ![r] = "InProgress"]
      /\ refs' = [refs EXCEPT ![r] = 2]
      /\ life' = [life EXCEPT ![r] = @ + 1]
      /\ pc' = [pc EXCEPT ![r] = "ring"]
      /\ UNCHANGED <<guard, sq, inKernel, cq, deps, waits, outcome>>
  BY DEF Create, Goto, ringVars, taskVars
<1>2. TypeOK'
  BY <1>1 DEF IInv, TypeOK, Process
<1>3. /\ pc'[Io] = pc[Io] /\ pc'[r] = "ring"
      /\ \A x \in Request \ {r} : /\ pc'[x] = pc[x]
                                  /\ This(x)' = This(x)
                                  /\ status'[x] = status[x]
                                  /\ refs'[x] = refs[x] /\ life'[x] = life[x]
  BY <1>1 DEF IInv, TypeOK, Process, This
<1>4. guard # r
  BY <1>1 DEF IInv, RingInv
<1>5. RingInv'
  BY <1>1, <1>3, <1>4 DEF IInv, RingInv
<1>6. EntryInv'
  BY <1>1, <1>3, DestroyedFacts, EntryOwner DEF IInv, EntryInv
<1>7. \A x \in Request \ {r} : /\ KernelHolds(x)' <=> KernelHolds(x)
                               /\ UserHolds(x)' <=> UserHolds(x)
                               /\ Told(x)' <=> Told(x)
  BY <1>1, <1>3 DEF KernelHolds, UserHolds, Told, Reporting
<1>8. RefInv'
  <2>1. ~Told(r)'
    <3>1. Told(r)' => cq # <<>> /\ Head(cq).entry.request = r
      BY <1>1, <1>3 DEF Told, This, IInv, RingInv
    <3> QED
      BY <3>1, <1>1, DestroyedFacts, TargetFacts
  <2>2. /\ KernelHolds(r)' /\ UserHolds(r)' /\ refs'[r] = 2
        /\ status'[r] = "InProgress" /\ life'[r] \in 1..MaxLives
    BY <1>1, <1>3 DEF KernelHolds, UserHolds, IInv, TypeOK
  <2> QED
    BY <1>3, <1>7, <2>1, <2>2 DEF RefInv, IInv
<1>9. DepsInv'
  BY <1>1, <1>3, <1>7, DestroyedFacts DEF IInv, DepsInv
<1> QED
  BY <1>2, <1>5, <1>6, <1>8, <1>9 DEF IInv

LEMMA PrepareStep ==
    ASSUME IInv, NEW r \in Request, PrepareEntry(r)
    PROVE  IInv'
<1> USE RequestAssumption
<1>1. sq = <<>> /\ guard = None
  BY DEF IInv, RingInv, PrepareEntry
<1>2. /\ pc[r] = "ring" /\ pc' = [pc EXCEPT ![r] = "submit"]
      /\ guard' = r /\ sq' = <<This(r)>>
      /\ UNCHANGED <<status, refs, inKernel, cq, life, deps, waits, outcome>>
  BY <1>1 DEF PrepareEntry, Goto, taskVars
<1>3. /\ pc'[Io] = pc[Io] /\ pc'[r] = "submit"
      /\ \A x \in Request \ {r} : pc'[x] = pc[x]
      /\ \A x \in Request : This(x)' = This(x)
  BY <1>2 DEF IInv, TypeOK, Process, This
<1>4. TypeOK'
  <2>1. This(r) \in Entry
    BY DEF This, Entry, IInv, TypeOK
  <2> QED
    BY <1>2, <2>1 DEF IInv, TypeOK, Process
<1>5. RingInv'
  BY <1>1, <1>2, <1>3 DEF IInv, RingInv
<1>6. EntryInv'
  BY <1>2, <1>3, EntryOwner DEF IInv, EntryInv
<1>7. \A x \in Request : /\ KernelHolds(x)' <=> KernelHolds(x)
                         /\ UserHolds(x)' <=> UserHolds(x)
                         /\ Told(x)' <=> Told(x)
  BY <1>2, <1>3 DEF KernelHolds, UserHolds, Told, Reporting
<1>8. RefInv'
  BY <1>2, <1>7 DEF IInv, RefInv
<1>9. DepsInv'
  BY <1>2, <1>3, <1>7 DEF IInv, DepsInv
<1> QED
  BY <1>4, <1>5, <1>6, <1>8, <1>9 DEF IInv

\* The kernel takes the entry of r.
LEMMA SubmitFacts ==
    ASSUME IInv, MayRefuse = FALSE, NEW r \in Request, SubmitEntries(r)
    PROVE  /\ pc[r] = "submit" /\ pc' = [pc EXCEPT ![r] = "user"]
           /\ guard = r /\ guard' = None /\ sq' = <<>>
           /\ inKernel' = inKernel \union {This(r)}
           /\ UNCHANGED <<status, refs, cq, life, deps, waits, outcome>>
<1>1. pc[r] = "submit"
  BY DEF SubmitEntries, Goto
<1>2. guard = r /\ sq = <<This(r)>>
  BY <1>1 DEF IInv, RingInv
<1>3. Len(sq) = 1 /\ ToSet(sq) = {This(r)}
  BY <1>2 DEF ToSet
<1> QED
  BY <1>1, <1>2, <1>3 DEF SubmitEntries, Goto, taskVars

LEMMA SubmitStep ==
    ASSUME IInv, MayRefuse = FALSE, NEW r \in Request, SubmitEntries(r)
    PROVE  IInv'
<1> USE RequestAssumption
<1>0. /\ pc[r] = "submit" /\ pc' = [pc EXCEPT ![r] = "user"]
      /\ guard = r /\ guard' = None /\ sq' = <<>>
      /\ inKernel' = inKernel \union {This(r)}
      /\ UNCHANGED <<status, refs, cq, life, deps, waits, outcome>>
  BY SubmitFacts
<1>1. /\ pc'[Io] = pc[Io] /\ pc'[r] = "user"
      /\ \A x \in Request \ {r} : pc'[x] = pc[x]
      /\ \A x \in Request : This(x)' = This(x)
  BY <1>0 DEF IInv, TypeOK, Process, This
<1>2. TypeOK'
  <2>1. This(r) \in Entry
    BY DEF This, Entry, IInv, TypeOK
  <2> QED
    BY <1>0, <2>1 DEF IInv, TypeOK, Process
<1>3. RingInv'
  BY <1>0, <1>1 DEF IInv, RingInv
<1>4. EntryInv'
  <2>1. \A n \in DOMAIN cq : cq[n].entry # This(r)
    BY <1>0, ThisFacts DEF IInv, EntryInv
  <2> QED
    BY <1>0, <1>1, <2>1, ThisFacts, EntryOwner DEF IInv, EntryInv
<1>5. \A x \in Request : /\ KernelHolds(x)' <=> KernelHolds(x)
                         /\ UserHolds(x)' <=> UserHolds(x)
                         /\ Told(x)' <=> Told(x)
  BY <1>0, <1>1, ThisFacts DEF KernelHolds, UserHolds, Told, Reporting
<1>6. RefInv'
  BY <1>0, <1>5 DEF IInv, RefInv
<1>7. DepsInv'
  BY <1>0, <1>1, <1>5 DEF IInv, DepsInv
<1> QED
  BY <1>2, <1>3, <1>4, <1>6, <1>7 DEF IInv

LEMMA KernelStep ==
    ASSUME IInv, NEW e \in inKernel, KernelDone(e)
    PROVE  IInv'
<1> USE RequestAssumption
<1>1. PICK ok \in BOOLEAN : cq' = Append(cq, [entry |-> e, ok |-> ok])
  BY DEF KernelDone
<1>2. /\ inKernel' = inKernel \ {e}
      /\ UNCHANGED <<status, refs, guard, sq, pc, life, deps, waits, outcome>>
  BY DEF KernelDone, taskVars
<1>3. e \in Entry /\ e.request \in Request /\ e = This(e.request)
  BY DEF IInv, TypeOK, Entry, EntryInv
<1>4. TypeOK'
  <2>1. cq' \in Seq([entry : Entry, ok : BOOLEAN])
    BY <1>1, <1>3 DEF IInv, TypeOK
  <2> QED
    BY <1>2, <2>1 DEF IInv, TypeOK
<1>5. cq \in Seq([entry : Entry, ok : BOOLEAN])
  BY DEF IInv, TypeOK
<1>6. /\ DOMAIN cq' = 1..(Len(cq) + 1) /\ DOMAIN cq = 1..Len(cq)
      /\ Len(cq) \in Nat /\ cq'[Len(cq) + 1].entry = e
      /\ \A n \in DOMAIN cq : n \in DOMAIN cq' /\ cq'[n] = cq[n]
      /\ cq # <<>> => Head(cq') = Head(cq)
  BY <1>1, <1>5
<1>7. \A x \in Request : This(x)' = This(x)
  BY <1>2 DEF This
<1>8. RingInv'
  BY <1>2, <1>6, <1>7 DEF IInv, RingInv
<1>9. EntryInv'
  BY <1>2, <1>3, <1>6, <1>7, EntryOwner DEF IInv, EntryInv
<1>10. \A x \in Request : /\ KernelHolds(x)' <=> KernelHolds(x)
                          /\ UserHolds(x)' <=> UserHolds(x)
                          /\ Told(x)' <=> Told(x)
  <2> SUFFICES ASSUME NEW x \in Request
               PROVE  /\ KernelHolds(x)' <=> KernelHolds(x)
                      /\ UserHolds(x)' <=> UserHolds(x)
                      /\ Told(x)' <=> Told(x)
    OBVIOUS
  <2>1. Reporting(x)' <=> Reporting(x) \/ e = This(x)
    BY <1>6, <1>7 DEF Reporting
  <2>2. This(x)' \in inKernel' <=> This(x) \in inKernel /\ e # This(x)
    BY <1>2, <1>7
  <2>3. Told(x)' <=> Told(x)
    BY <1>2, <1>6, <1>7 DEF Told, IInv, RingInv
  <2> QED
    BY <1>2, <2>1, <2>2, <2>3 DEF KernelHolds, UserHolds
<1>11. RefInv'
  BY <1>2, <1>10 DEF IInv, RefInv
<1>12. DepsInv'
  BY <1>2, <1>7, <1>10 DEF IInv, DepsInv
<1> QED
  BY <1>4, <1>8, <1>9, <1>11, <1>12 DEF IInv
-----------------------------------------------------------------------------
(* ProcessEvents() and the completion                                      *)

LEMMA LookStep ==
    ASSUME IInv, ProcessEvents \/ Unlock
    PROVE  IInv'
<1> USE RequestAssumption
<1>1. /\ pc[Io] \in {"free", "peek"} /\ pc'[Io] \in {"free", "peek"}
      /\ pc' = [pc EXCEPT ![Io] = pc'[Io]]
      /\ guard' \in {Io, None}
      /\ pc'[Io] = "peek" <=> guard' = Io
      /\ guard \notin Request
      /\ UNCHANGED <<status, refs, sq, inKernel, cq, life, deps, waits, outcome>>
  BY DEF ProcessEvents, Unlock, Goto, IInv, TypeOK, RingInv, Process, taskVars
<1>2. /\ \A x \in Request : pc'[x] = pc[x]
      /\ \A x \in Request : This(x)' = This(x)
  BY <1>1 DEF IInv, TypeOK, Process, This
<1>3. TypeOK'
  BY <1>1 DEF IInv, TypeOK, Process
<1>4. RingInv'
  BY <1>1, <1>2 DEF IInv, RingInv
<1>5. EntryInv'
  BY <1>1, <1>2, EntryOwner DEF IInv, EntryInv
<1>6. \A x \in Request : /\ KernelHolds(x)' <=> KernelHolds(x)
                         /\ UserHolds(x)' <=> UserHolds(x)
                         /\ Told(x)' <=> Told(x)
  BY <1>1, <1>2 DEF KernelHolds, UserHolds, Told, Reporting
<1>7. RefInv'
  BY <1>1, <1>6 DEF IInv, RefInv
<1>8. DepsInv'
  BY <1>1, <1>2, <1>6 DEF IInv, DepsInv
<1> QED
  BY <1>3, <1>4, <1>5, <1>7, <1>8 DEF IInv

\* The request at hand is in progress until _Complete() changes its status.
LEMMA InProgressAtPeek ==
    ASSUME IInv, cq # <<>>, pc[Io] = "peek"
    PROVE  status[Target(Io)] = "InProgress"
BY TargetFacts DEF IInv, RefInv, Told

LEMMA CompleteInv ==
    ASSUME IInv, Complete(Io)
    PROVE  IInv'
<1> USE RequestAssumption
<1> DEFINE r == Target(Io)
<1>1. /\ pc[Io] = "peek" /\ cq # <<>> /\ pc' = [pc EXCEPT ![Io] = "notify"]
      /\ \E s \in {"Completed", "Cancelled"} : status' = [status EXCEPT ![r] = s]
      /\ UNCHANGED <<refs, life, guard, sq, inKernel, cq, deps, waits, outcome>>
  BY DEF IInv, RingInv, Complete, Completing, ringVars, taskVars
<1>2. /\ r \in Request /\ Head(cq).entry = This(r) /\ KernelHolds(r)
      /\ status[r] = "InProgress"
  BY <1>1, TargetFacts, InProgressAtPeek
<1> HIDE DEF r
<1>3. /\ pc'[Io] = "notify" /\ guard = Io
      /\ \A x \in Request : pc'[x] = pc[x] /\ This(x)' = This(x)
      /\ status'[r] \in {"Completed", "Cancelled"}
      /\ \A x \in Request \ {r} : status'[x] = status[x]
  BY <1>1, <1>2 DEF IInv, TypeOK, Process, This, RingInv
<1>4. TypeOK'
  BY <1>1, <1>2 DEF IInv, TypeOK, Process
<1>5. RingInv'
  BY <1>1, <1>3 DEF IInv, RingInv
<1>6. EntryInv'
  BY <1>1, <1>3, EntryOwner DEF IInv, EntryInv
<1>7. \A x \in Request : /\ KernelHolds(x)' <=> KernelHolds(x)
                         /\ UserHolds(x)' <=> UserHolds(x)
                         /\ Told(x)' <=> x = r
                         /\ ~Told(x)
  BY <1>1, <1>2, <1>3, ThisFacts DEF KernelHolds, UserHolds, Told, Reporting
<1>8. RefInv'
  BY <1>1, <1>2, <1>3, <1>7 DEF IInv, RefInv
<1>9. DepsInv'
  BY <1>1, <1>3, <1>7 DEF IInv, DepsInv
<1> QED
  BY <1>4, <1>5, <1>6, <1>8, <1>9 DEF IInv

LEMMA NotifyInv ==
    ASSUME IInv, SetDependencyCompleteStatus(Io)
    PROVE  IInv'
<1> USE RequestAssumption
<1> DEFINE r == Target(Io)
<1>1. /\ pc[Io] = "notify" /\ cq # <<>> /\ pc' = [pc EXCEPT ![Io] = "deref"]
      /\ deps' = [deps EXCEPT ![r] = {}]
      /\ outcome' = [t \in Task |->
                        IF t \notin deps[r] THEN outcome[t]
                        ELSE IF Result(Io) \/ t \in Weak THEN "ready"
                        ELSE "canceled"]
      /\ UNCHANGED <<status, refs, life, guard, sq, inKernel, cq, waits>>
  BY DEF IInv, RingInv, SetDependencyCompleteStatus, Goto, ringVars
<1>2. r \in Request /\ Head(cq).entry = This(r)
  BY <1>1, TargetFacts
<1> HIDE DEF r
<1>3. /\ pc'[Io] = "deref"
      /\ \A x \in Request : pc'[x] = pc[x] /\ This(x)' = This(x)
      /\ deps'[r] = {} /\ \A x \in Request \ {r} : deps'[x] = deps[x]
  BY <1>1, <1>2 DEF IInv, TypeOK, Process, This
<1>4. TypeOK'
  BY <1>1, <1>2 DEF IInv, TypeOK, Process
<1>5. RingInv'
  BY <1>1, <1>3 DEF IInv, RingInv
<1>6. EntryInv'
  BY <1>1, <1>3, EntryOwner DEF IInv, EntryInv
<1>7. \A x \in Request : /\ KernelHolds(x)' <=> KernelHolds(x)
                         /\ UserHolds(x)' <=> UserHolds(x)
                         /\ Told(x)' <=> x = r
                         /\ Told(x) <=> x = r
  BY <1>1, <1>2, <1>3, ThisFacts DEF KernelHolds, UserHolds, Told, Reporting
<1>8. RefInv'
  BY <1>1, <1>7 DEF IInv, RefInv
<1>9. DepsInv'
  <2>1. ASSUME NEW x \in Request, NEW t \in deps'[x]
        PROVE  /\ outcome'[t] = "waiting" /\ waits'[t] = This(x)'
               /\ status'[x] = "InProgress"
    <3>1. x # r /\ t \in deps[x] /\ t \in Task
      BY <1>3, <2>1 DEF IInv, TypeOK
    <3>2. t \notin deps[r]
      BY <1>2, <3>1, ThisFacts DEF IInv, DepsInv
    <3> QED
      BY <1>1, <1>3, <1>7, <3>1, <3>2 DEF IInv, DepsInv
  <2>2. ASSUME NEW t \in Task
        PROVE  /\ waits'[t] = None <=> outcome'[t] = "none"
               /\ outcome'[t] = "canceled" => t \notin Weak
    BY <1>1, <1>2, <2>2 DEF IInv, DepsInv
  <2> QED
    BY <2>1, <2>2 DEF DepsInv
<1> QED
  BY <1>4, <1>5, <1>6, <1>8, <1>9 DEF IInv

\* Two entries of the completion queue are of different requests, so the first
\* one is not reported again.
LEMMA DerefInv ==
    ASSUME IInv, CompleteDecRef(Io), NEW r \in Request, r = Target(Io)
    PROVE  IInv'
<1> USE RequestAssumption
<1>1. /\ pc[Io] = "deref" /\ cq # <<>> /\ pc' = [pc EXCEPT ![Io] = "peek"]
      /\ cq' = Tail(cq)
      /\ refs' = [refs EXCEPT ![r] = @ - 1]
      /\ status' = [status EXCEPT ![r] = IF refs[r] = 1 THEN "Destroyed" ELSE @]
      /\ UNCHANGED <<life, guard, sq, inKernel, deps, outcome, waits>>
  BY DEF IInv, RingInv, CompleteDecRef, Goto, DecRef, taskVars
<1>2. /\ r \in Request /\ Head(cq).entry = This(r) /\ KernelHolds(r)
      /\ 1 \in DOMAIN cq /\ Head(cq) = cq[1] /\ pc[r] \in {"free", "user"}
  BY <1>1, TargetFacts
<1>3. /\ pc'[Io] = "peek"
      /\ \A x \in Request : pc'[x] = pc[x] /\ This(x)' = This(x)
      /\ refs'[r] = refs[r] - 1
      /\ status'[r] = IF refs[r] = 1 THEN "Destroyed" ELSE status[r]
      /\ \A x \in Request \ {r} : status'[x] = status[x] /\ refs'[x] = refs[x]
  BY <1>1, <1>2 DEF IInv, TypeOK, Process, This
<1>4. cq \in Seq([entry : Entry, ok : BOOLEAN])
  BY DEF IInv, TypeOK
<1>5. /\ Len(cq) \in Nat \ {0} /\ DOMAIN cq = 1..Len(cq)
      /\ DOMAIN cq' = 1..(Len(cq) - 1)
      /\ \A n \in DOMAIN cq' : n + 1 \in DOMAIN cq /\ cq'[n] = cq[n + 1]
  BY <1>1, <1>4
<1>6. refs[r] \in {1, 2} /\ (refs[r] = 2 <=> UserHolds(r))
  BY <1>2 DEF IInv, RefInv
<1>7. TypeOK'
  <2>1. cq' \in Seq([entry : Entry, ok : BOOLEAN])
    BY <1>1, <1>4
  <2>2. refs[r] - 1 \in Nat
    BY <1>6
  <2> QED
    BY <1>1, <1>2, <2>1, <2>2 DEF IInv, TypeOK, Process
<1>8. RingInv'
  BY <1>1, <1>3 DEF IInv, RingInv
<1>9. EntryInv'
  <2>1. \A e \in inKernel : /\ e = This(e.request)'
                            /\ pc'[e.request] \notin {"ring", "submit"}
    BY <1>3, EntryOwner DEF IInv, EntryInv
  <2>2. \A n \in DOMAIN cq' : /\ (cq[n].entry = This(cq[n].entry.request))'
                              /\ pc'[cq'[n].entry.request] \notin {"ring", "submit"}
                              /\ cq'[n].entry \notin inKernel
    <3>1. \A n \in DOMAIN cq : /\ cq[n].entry.request \in Request
                               /\ cq[n].entry = This(cq[n].entry.request)
                               /\ pc[cq[n].entry.request] \notin {"ring", "submit"}
                               /\ cq[n].entry \notin inKernel
      BY EntryOwner DEF IInv, EntryInv
    <3> QED
      BY <1>1, <1>3, <1>5, <3>1 DEF This
  <2>3. \A m, n \in DOMAIN cq' : cq'[m].entry = cq'[n].entry => m = n
    <3>1. \A m, n \in DOMAIN cq : cq[m].entry = cq[n].entry => m = n
      BY DEF IInv, EntryInv
    <3> QED
      BY <1>5, <3>1
  <2> QED
    BY <1>1, <2>1, <2>2, <2>3 DEF EntryInv
<1>10. ~Reporting(r)'
  <2>1. \A n \in DOMAIN cq' : cq'[n].entry # cq[1].entry
    BY <1>2, <1>5 DEF IInv, EntryInv
  <2> QED
    BY <1>2, <1>3, <2>1 DEF Reporting
<1>11. ASSUME NEW x \in Request \ {r} PROVE Reporting(x)' <=> Reporting(x)
  <2>1. cq[1].entry # This(x)
    BY <1>2, ThisFacts
  <2>2. \A n \in DOMAIN cq \ {1} : n - 1 \in DOMAIN cq' /\ cq'[n - 1] = cq[n]
    BY <1>5
  <2> QED
    BY <1>3, <1>5, <2>1, <2>2 DEF Reporting
<1>12. This(r) \notin inKernel
  BY <1>2 DEF IInv, EntryInv
<1>13. \A x \in Request : /\ KernelHolds(x)' <=> x # r /\ KernelHolds(x)
                          /\ UserHolds(x)' <=> UserHolds(x)
                          /\ ~Told(x)'
                          /\ Told(x) <=> x = r
  <2>1. \A x \in Request : ~Told(x)' /\ (Told(x) <=> x = r)
    BY <1>1, <1>2, <1>3, ThisFacts DEF Told
  <2>2. ~KernelHolds(r)'
    <3>1. pc'[r] \notin {"ring", "submit"} /\ This(r)' \notin inKernel'
      BY <1>1, <1>2, <1>3, <1>12
    <3> QED
      BY <1>10, <3>1 DEF KernelHolds
  <2>3. \A x \in Request \ {r} : KernelHolds(x)' <=> KernelHolds(x)
    BY <1>1, <1>3, <1>11 DEF KernelHolds
  <2>4. \A x \in Request : UserHolds(x)' <=> UserHolds(x)
    BY <1>3 DEF UserHolds
  <2> QED
    BY <2>1, <2>2, <2>3, <2>4
<1>14. RefInv'
  BY <1>1, <1>2, <1>3, <1>6, <1>13 DEF IInv, RefInv
<1>15. DepsInv'
  <2>1. deps[r] = {}
    BY <1>1, <1>2, <1>13 DEF IInv, DepsInv, RefInv
  <2> QED
    BY <1>1, <1>3, <1>13, <2>1 DEF IInv, DepsInv
<1> QED
  BY <1>7, <1>8, <1>9, <1>14, <1>15 DEF IInv
-----------------------------------------------------------------------------
(* The user                                                                *)

LEMMA DropStep ==
    ASSUME IInv, NEW r \in Request, Drop(r)
    PROVE  IInv'
<1> USE RequestAssumption
<1>1. /\ pc[r] = "user" /\ pc' = [pc EXCEPT ![r] = "free"]
      /\ refs' = [refs EXCEPT ![r] = @ - 1]
      /\ status' = [status EXCEPT ![r] = IF refs[r] = 1 THEN "Destroyed" ELSE @]
      /\ UNCHANGED <<life, guard, sq, inKernel, cq, deps, outcome, waits>>
  BY DEF IInv, RingInv, Drop, DecRef, taskVars, ringVars
<1>2. /\ pc'[r] = "free" /\ pc'[Io] = pc[Io]
      /\ \A x \in Request : This(x)' = This(x)
      /\ refs'[r] = refs[r] - 1
      /\ status'[r] = IF refs[r] = 1 THEN "Destroyed" ELSE status[r]
      /\ \A x \in Request \ {r} : /\ pc'[x] = pc[x]
                                  /\ status'[x] = status[x] /\ refs'[x] = refs[x]
  BY <1>1 DEF IInv, TypeOK, Process, This
<1>3. refs[r] \in {1, 2} /\ (refs[r] = 2 <=> KernelHolds(r))
  BY <1>1 DEF IInv, RefInv, UserHolds
<1>4. TypeOK'
  <2>1. refs[r] - 1 \in Nat
    BY <1>3
  <2> QED
    BY <1>1, <2>1 DEF IInv, TypeOK, Process
<1>5. RingInv'
  BY <1>1, <1>2 DEF IInv, RingInv
<1>6. EntryInv'
  BY <1>1, <1>2, EntryOwner DEF IInv, EntryInv
<1>7. \A x \in Request : /\ KernelHolds(x)' <=> KernelHolds(x)
                         /\ UserHolds(x)' <=> x # r /\ UserHolds(x)
                         /\ Told(x)' <=> Told(x)
  BY <1>1, <1>2 DEF KernelHolds, UserHolds, Told, Reporting
<1>8. RefInv'
  BY <1>1, <1>2, <1>3, <1>7 DEF IInv, RefInv
<1>9. DepsInv'
  <2>1. \A t \in deps[r] : status'[r] = status[r]
    <3>1. Told(r) => KernelHolds(r)
      BY TargetFacts DEF Told, IInv, RingInv, KernelHolds, Reporting
    <3> QED
      BY <1>2, <1>3, <3>1 DEF IInv, DepsInv, RefInv
  <2> QED
    BY <1>1, <1>2, <1>7, <2>1 DEF IInv, DepsInv
<1> QED
  BY <1>4, <1>5, <1>6, <1>8, <1>9 DEF IInv

LEMMA AddStep ==
    ASSUME IInv, NEW t \in Task, NEW r \in Request, AddOnCompleteDependency(t, r)
    PROVE  IInv'
<1> USE RequestAssumption, NoneAssumption
<1> DEFINE added == ~IsFinished(r) /\ ~IsFull(r)
<1>1. /\ pc[r] = "user" /\ waits[t] = None
      /\ waits' = [waits EXCEPT ![t] = This(r)]
      /\ deps' = [deps EXCEPT ![r] = @ \union (IF added THEN {t} ELSE {})]
      /\ outcome' = [outcome EXCEPT ![t] =
                        IF added THEN "waiting"
                        ELSE IF t \in Weak \/ status[r] = "Completed" THEN "ready"
                        ELSE "refused"]
      /\ UNCHANGED <<status, refs, pc, life, guard, sq, inKernel, cq>>
  BY DEF AddOnCompleteDependency, ringVars
<1>2. added => status[r] = "InProgress"
  <2>1. status[r] # "Destroyed"
    BY <1>1 DEF IInv, RefInv, UserHolds
  <2> QED
    BY <2>1 DEF IsFinished, IInv, TypeOK
<1> HIDE DEF added
<1>3. This(r) \in Entry /\ \A x \in Request : This(x)' = This(x)
  BY <1>1 DEF This, Entry, IInv, TypeOK
<1>4. TypeOK'
  BY <1>1, <1>3 DEF IInv, TypeOK
<1>5. RingInv'
  BY <1>1, <1>3 DEF IInv, RingInv
<1>6. EntryInv'
  BY <1>1, <1>3, EntryOwner DEF IInv, EntryInv
<1>7. \A x \in Request : /\ KernelHolds(x)' <=> KernelHolds(x)
                         /\ UserHolds(x)' <=> UserHolds(x)
                         /\ Told(x)' <=> Told(x)
  BY <1>1, <1>3 DEF KernelHolds, UserHolds, Told, Reporting
<1>8. RefInv'
  BY <1>1, <1>7 DEF IInv, RefInv
<1>9. DepsInv'
  <2>1. /\ outcome[t] = "none"
        /\ \A x \in Request : t \notin deps[x]
    BY <1>1 DEF IInv, DepsInv
  <2>2. /\ waits'[t] = This(r) /\ waits'[t] # None
        /\ outcome'[t] \in {"waiting", "ready", "refused"}
        /\ added => outcome'[t] = "waiting"
        /\ \A u \in Task \ {t} : waits'[u] = waits[u] /\ outcome'[u] = outcome[u]
    BY <1>1, <1>3 DEF IInv, TypeOK
  <2>3. \A x \in Request : \A u \in deps'[x] :
            u \in Task /\ ((u \in deps[x] /\ u # t) \/ (u = t /\ x = r /\ added))
    BY <1>1, <2>1 DEF IInv, TypeOK
  <2>4. ASSUME NEW x \in Request, NEW u \in deps'[x]
        PROVE  /\ outcome'[u] = "waiting" /\ waits'[u] = This(x)'
               /\ status'[x] = "InProgress" \/ (pc'[Io] = "notify" /\ Told(x)')
    BY <1>1, <1>2, <1>3, <1>7, <2>2, <2>3, <2>4 DEF IInv, DepsInv
  <2> QED
    BY <2>2, <2>4 DEF IInv, DepsInv
<1> QED
  BY <1>4, <1>5, <1>6, <1>8, <1>9 DEF IInv
-----------------------------------------------------------------------------
LEMMA IInvInit == Init => IInv
<1> SUFFICES ASSUME Init PROVE IInv
  OBVIOUS
<1> USE RequestAssumption
<1>1. TypeOK
  BY DEF Init, TypeOK, Process
<1>2. RingInv
  BY DEF Init, RingInv, Process
<1>3. EntryInv
  BY DEF Init, EntryInv
<1>4. RefInv
  BY DEF Init, RefInv, UserHolds, KernelHolds, Reporting, Process
<1>5. DepsInv
  BY DEF Init, DepsInv
<1> QED
  BY <1>1, <1>2, <1>3, <1>4, <1>5 DEF IInv

LEMMA IInvStep ==
    ASSUME IInv, MayRefuse = FALSE, [Next]_vars
    PROVE  IInv'
<1>1. CASE UNCHANGED vars
  <2>1. TypeOK' /\ RingInv' /\ EntryInv'
    BY <1>1 DEF vars, IInv, TypeOK, RingInv, EntryInv, This
  <2>2. RefInv' /\ DepsInv'
    BY <1>1
    DEF vars, IInv, RefInv, DepsInv, This, UserHolds, KernelHolds, Reporting, Told
  <2> QED
    BY <2>1, <2>2 DEF IInv
<1>2. ASSUME NEW p \in Process, CompleteStep(p) PROVE IInv'
  BY <1>2, OnlyIo, TargetFacts, CompleteInv, NotifyInv, DerefInv DEF CompleteStep
<1> QED
  BY <1>1, <1>2, CreateStep, PrepareStep, SubmitStep, KernelStep, LookStep,
     DropStep, AddStep
  DEF Next, User, Creator, Kernel

LEMMA IInvAlways == ASSUME MayRefuse = FALSE PROVE Spec => []IInv
<1>1. IInv /\ [Next]_vars => IInv'
  BY IInvStep
<1> QED
  BY IInvInit, <1>1, PTL DEF Spec

\* Types.
THEOREM TypeCorrect == ASSUME MayRefuse = FALSE PROVE Spec => []TypeOK
<1>1. IInv => TypeOK
  BY DEF IInv
<1> QED
  BY IInvAlways, <1>1, PTL

\* The object is alive, and in the same life, as long as the kernel works on it
\* or the completion is not looked at: the reference that _Init() adds for the
\* kernel is dropped by _Complete() only.
THEOREM ObjectOutlivesIo == ASSUME MayRefuse = FALSE PROVE Spec => []AliveInKernel
<1>1. ASSUME IInv PROVE AliveInKernel
  <2>1. ASSUME NEW e \in inKernel
        PROVE  status[e.request] = "InProgress" /\ life[e.request] = e.life
    <3>1. e.request \in Request /\ e = This(e.request)
      BY <1>1, EntryOwner DEF IInv, EntryInv
    <3>2. ~Told(e.request)
      BY <1>1, <3>1, TargetFacts DEF Told, IInv, RingInv, EntryInv
    <3> QED
      BY <1>1, <2>1, <3>1, <3>2, ThisFacts DEF IInv, RefInv, KernelHolds
  <2>2. ASSUME NEW e \in Reported
        PROVE  status[e.request] = "InProgress" /\ life[e.request] = e.life
    <3>1. PICK n \in (IF pc[Io] \in {"notify", "deref"} THEN 2 ELSE 1)..Len(cq) :
                e = cq[n].entry
      BY <2>2 DEF Reported
    <3>2. n \in DOMAIN cq /\ (pc[Io] \in {"notify", "deref"} => n # 1)
      BY <1>1, <3>1 DEF IInv, TypeOK
    <3>3. e.request \in Request /\ e = This(e.request) /\ Reporting(e.request)
      BY <1>1, <3>1, <3>2, EntryOwner DEF IInv, EntryInv
    <3>4. ~Told(e.request)
      BY <1>1, <3>1, <3>2, <3>3, TargetFacts DEF Told, IInv, RingInv, EntryInv
    <3> QED
      BY <1>1, <3>3, <3>4, ThisFacts DEF IInv, RefInv, KernelHolds
  <2> QED
    BY <2>1, <2>2 DEF AliveInKernel
<1> QED
  BY IInvAlways, <1>1, PTL

\* The assertion of _Complete(): nobody completes a request that is completed.
THEOREM CompletedOnce == ASSUME MayRefuse = FALSE PROVE Spec => []CompletesOnce
<1>1. ASSUME IInv PROVE CompletesOnce
  <2> SUFFICES ASSUME NEW p \in Process, Completing(p)
               PROVE  status[Target(p)] = "InProgress"
    BY DEF CompletesOnce
  <2>1. p = Io /\ cq # <<>> /\ pc[Io] = "peek"
    BY <1>1 DEF Completing, Process, IInv, RingInv
  <2> QED
    BY <1>1, <2>1, InProgressAtPeek
<1> QED
  BY IInvAlways, <1>1, PTL

\* A task that waits is told by the life of the request it is registered on,
\* and canceled only for a strong dependency.
THEOREM ToldByItsRequest ==
    ASSUME MayRefuse = FALSE PROVE Spec => []CanceledByRequest
<1>1. IInv => CanceledByRequest
  BY DEF IInv, TypeOK, DepsInv, CanceledByRequest
<1> QED
  BY IInvAlways, <1>1, PTL
-----------------------------------------------------------------------------
(* A request is a completion source                                        *)

\* The list of a request has room for every task, or there is nobody who would
\* not be told that there is none: without it a weak dependency is taken for
\* completed, see AddOnCompleteDependency.
HasRoom ==
    Weak = {} \/ (IsFiniteSet(Task) /\ Cardinality(Task) <= MaxDeps)

\* What CompletionSource calls finished, waitsFor and released.
FinishedSources ==
    {s \in Request \X (1..MaxLives) :
        \/ s[2] < life[s[1]]
        \/ s[2] = life[s[1]] /\ status[s[1]] # "InProgress"}

Registered ==
    [t \in Task |-> IF outcome[t] \in {"none", "refused"} THEN None
                    ELSE <<waits[t].request, waits[t].life>>]

Released == {t \in Task : outcome[t] \in {"ready", "canceled"}}

SourceStutter == UNCHANGED <<FinishedSources, Registered, Released>>

LEMMA SourceUnfolded ==
    /\ Source!Init <=> /\ FinishedSources = {}
                       /\ Registered = [t \in Task |-> None]
                       /\ Released = {}
    /\ [Source!Next]_Source!vars <=>
          \/ SourceStutter
          \/ \E t \in Task, s \in Request \X (1..MaxLives) :
                /\ Registered[t] = None
                /\ Registered' = [Registered EXCEPT ![t] = s]
                /\ Released' = Released \union
                                    (IF s \in FinishedSources THEN {t} ELSE {})
                /\ UNCHANGED FinishedSources
          \/ \E s \in Request \X (1..MaxLives) :
                /\ s \notin FinishedSources
                /\ FinishedSources' = FinishedSources \union {s}
                /\ UNCHANGED <<Registered, Released>>
          \/ \E T \in (SUBSET Task) \ {{}} :
                /\ T \intersect Released = {}
                /\ \A t \in T : Registered[t] \in FinishedSources
                /\ Released' = Released \union T
                /\ UNCHANGED <<FinishedSources, Registered>>
BY DEF Source!Init, Source!Next, Source!vars, Source!Register, Source!Finish,
       Source!Release, FinishedSources, Registered, Released, SourceStutter

\* Nothing that the tasks see, and no status that says in progress, changes.
LEMMA StutterStep ==
    ASSUME IInv, UNCHANGED <<life, outcome, waits>>,
           \A r \in Request :
                status'[r] = "InProgress" <=> status[r] = "InProgress"
    PROVE  SourceStutter
<1>1. FinishedSources' = FinishedSources
  BY DEF FinishedSources
<1>2. Registered' = Registered /\ Released' = Released
  BY DEF Registered, Released
<1> QED
  BY <1>1, <1>2 DEF SourceStutter

\* A new life is a source that has not finished; the one before it has.
LEMMA CreateIsStutter ==
    ASSUME IInv, NEW r \in Request, Create(r)
    PROVE  SourceStutter
<1>1. /\ status[r] = "Destroyed" /\ life[r] \in Nat
      /\ status' = [status EXCEPT ![r] = "InProgress"]
      /\ life' = [life EXCEPT ![r] = @ + 1]
      /\ UNCHANGED <<outcome, waits>>
  BY DEF Create, taskVars, IInv, TypeOK
<1>2. FinishedSources' = FinishedSources
  <2>1. ASSUME NEW s \in Request \X (1..MaxLives)
        PROVE  s \in FinishedSources' <=> s \in FinishedSources
    <3>1. s[1] \in Request /\ s[2] \in 1..MaxLives /\ s[2] \in Nat
      BY RequestAssumption
    <3>2. CASE s[1] = r
      <4>1. life'[s[1]] = life[r] + 1 /\ status'[s[1]] = "InProgress"
        BY <1>1, <3>2 DEF IInv, TypeOK
      <4> QED
        BY <1>1, <3>1, <3>2, <4>1 DEF FinishedSources
    <3>3. CASE s[1] # r
      <4>1. life'[s[1]] = life[s[1]] /\ status'[s[1]] = status[s[1]]
        BY <1>1, <3>1, <3>3 DEF IInv, TypeOK
      <4> QED
        BY <4>1 DEF FinishedSources
    <3> QED
      BY <3>2, <3>3
  <2> QED
    BY <2>1 DEF FinishedSources
<1>3. Registered' = Registered /\ Released' = Released
  BY <1>1 DEF Registered, Released
<1> QED
  BY <1>2, <1>3 DEF SourceStutter

\* _Complete() changes the status: this life of the request has finished.
LEMMA CompleteIsFinish ==
    ASSUME IInv, Complete(Io)
    PROVE  \E s \in Request \X (1..MaxLives) :
                /\ s \notin FinishedSources
                /\ FinishedSources' = FinishedSources \union {s}
                /\ UNCHANGED <<Registered, Released>>
<1> DEFINE r == Target(Io)
           s == <<r, life[r]>>
<1>1. /\ pc[Io] = "peek" /\ cq # <<>>
      /\ \E z \in {"Completed", "Cancelled"} : status' = [status EXCEPT ![r] = z]
      /\ UNCHANGED <<life, outcome, waits>>
  BY DEF IInv, RingInv, Complete, Completing, ringVars, taskVars
<1>2. r \in Request /\ status[r] = "InProgress"
  BY <1>1, TargetFacts, InProgressAtPeek
<1> HIDE DEF r
<1>3. /\ status'[r] # "InProgress"
      /\ \A x \in Request \ {r} : status'[x] = status[x]
  BY <1>1, <1>2 DEF IInv, TypeOK
<1>4. life[r] \in 1..MaxLives
  BY <1>2 DEF IInv, TypeOK, RefInv
<1>5. s \in Request \X (1..MaxLives) /\ s[1] = r /\ s[2] = life[r]
  BY <1>2, <1>4
<1>6. s \notin FinishedSources
  BY <1>2, <1>4, <1>5 DEF FinishedSources
<1>7. FinishedSources' = FinishedSources \union {s}
  <2>1. ASSUME NEW x \in Request \X (1..MaxLives)
        PROVE  x \in FinishedSources' <=> x \in FinishedSources \/ x = s
    <3>1. x[1] \in Request /\ x = <<x[1], x[2]>>
      OBVIOUS
    <3>2. CASE x[1] = r
      BY <1>1, <1>2, <1>3, <3>1, <3>2 DEF FinishedSources
    <3>3. CASE x[1] # r
      BY <1>1, <1>3, <1>5, <3>1, <3>3 DEF FinishedSources
    <3> QED
      BY <3>2, <3>3
  <2> QED
    BY <1>5, <2>1 DEF FinishedSources
<1>8. Registered' = Registered /\ Released' = Released
  BY <1>1 DEF Registered, Released
<1> QED
  BY <1>5, <1>6, <1>7, <1>8

\* _SetDependencyCompleteStatus() releases the tasks of the list.
LEMMA NotifyIsRelease ==
    ASSUME IInv, SetDependencyCompleteStatus(Io)
    PROVE  \/ SourceStutter
           \/ \E T \in (SUBSET Task) \ {{}} :
                /\ T \intersect Released = {}
                /\ \A t \in T : Registered[t] \in FinishedSources
                /\ Released' = Released \union T
                /\ UNCHANGED <<FinishedSources, Registered>>
<1> DEFINE r == Target(Io)
           T == deps[r]
<1>1. /\ pc[Io] = "notify" /\ cq # <<>>
      /\ outcome' = [t \in Task |->
                        IF t \notin T THEN outcome[t]
                        ELSE IF Result(Io) \/ t \in Weak THEN "ready"
                        ELSE "canceled"]
      /\ UNCHANGED <<status, life, waits>>
  BY DEF IInv, RingInv, SetDependencyCompleteStatus, Goto, ringVars
<1>2. r \in Request /\ Told(r)
  BY <1>1, TargetFacts DEF Told
<1>3. status[r] \notin {"InProgress", "Destroyed"} /\ life[r] \in 1..MaxLives
  <2>1. KernelHolds(r)
    BY <1>1, TargetFacts
  <2> QED
    BY <1>2, <2>1, HeldFacts DEF IInv, RefInv
<1>4. T \in SUBSET Task
  BY <1>2 DEF IInv, TypeOK
<1>5. \A t \in T : outcome[t] = "waiting" /\ waits[t] = This(r)
  BY <1>2 DEF IInv, DepsInv
<1> HIDE DEF r, T
<1>6. \A t \in T : Registered[t] = <<r, life[r]>>
  BY <1>4, <1>5 DEF Registered, This
<1>7. <<r, life[r]>> \in FinishedSources
  BY <1>2, <1>3 DEF FinishedSources
<1>8. T \intersect Released = {}
  BY <1>5 DEF Released
<1>9. \A t \in T : outcome'[t] \in {"ready", "canceled"}
  BY <1>1, <1>4
<1>10. \A t \in Task \ T : outcome'[t] = outcome[t]
  BY <1>1
<1>11. Released' = Released \union T
  BY <1>4, <1>9, <1>10 DEF Released
<1>12. Registered' = Registered
  BY <1>1, <1>5, <1>9, <1>10 DEF Registered
<1>13. FinishedSources' = FinishedSources
  BY <1>1 DEF FinishedSources
<1>14. CASE T = {}
  BY <1>11, <1>12, <1>13, <1>14 DEF SourceStutter
<1>15. CASE T # {}
  BY <1>4, <1>6, <1>7, <1>8, <1>11, <1>12, <1>13, <1>15
<1> QED
  BY <1>14, <1>15

\* Nobody is turned away while there is room.
LEMMA RoomFacts ==
    ASSUME IInv, HasRoom, NEW r \in Request, NEW t \in Weak, t \notin deps[r]
    PROVE  ~IsFull(r)
<1>1. IsFiniteSet(Task) /\ Cardinality(Task) <= MaxDeps
  BY DEF HasRoom
<1>2. deps[r] \in SUBSET Task /\ deps[r] # Task
  BY RequestAssumption DEF IInv, TypeOK
<1>3. /\ IsFiniteSet(deps[r]) /\ Cardinality(deps[r]) <= Cardinality(Task)
      /\ Cardinality(deps[r]) # Cardinality(Task)
  BY <1>1, <1>2, FS_Subset
<1>4. Cardinality(Task) \in Nat /\ Cardinality(deps[r]) \in Nat /\ MaxDeps \in Nat
  BY <1>1, <1>3, FS_CardinalityType, RequestAssumption
<1> QED
  BY <1>1, <1>3, <1>4 DEF IsFull

LEMMA AddIsRegister ==
    ASSUME IInv, HasRoom, NEW t \in Task, NEW r \in Request,
           AddOnCompleteDependency(t, r)
    PROVE  \/ SourceStutter
           \/ \E s \in Request \X (1..MaxLives) :
                /\ Registered[t] = None
                /\ Registered' = [Registered EXCEPT ![t] = s]
                /\ Released' = Released \union
                                    (IF s \in FinishedSources THEN {t} ELSE {})
                /\ UNCHANGED FinishedSources
<1> DEFINE added == ~IsFinished(r) /\ ~IsFull(r)
           s == <<r, life[r]>>
<1>1. /\ pc[r] = "user" /\ waits[t] = None
      /\ waits' = [waits EXCEPT ![t] = This(r)]
      /\ outcome' = [outcome EXCEPT ![t] =
                        IF added THEN "waiting"
                        ELSE IF t \in Weak \/ status[r] = "Completed" THEN "ready"
                        ELSE "refused"]
      /\ UNCHANGED <<status, life>>
  BY DEF AddOnCompleteDependency, ringVars
<1>2. status[r] # "Destroyed" /\ life[r] \in 1..MaxLives
  BY <1>1, HeldFacts DEF UserHolds
<1>3. IsFinished(r) <=> status[r] # "InProgress"
  BY <1>2 DEF IsFinished, IInv, TypeOK
<1>4. outcome[t] = "none" /\ t \notin deps[r]
  BY <1>1 DEF IInv, DepsInv
<1>5. s \in Request \X (1..MaxLives) /\ (s \in FinishedSources <=> IsFinished(r))
  BY <1>2, <1>3 DEF FinishedSources
<1>6. ~added /\ t \in Weak => IsFinished(r)
  BY <1>4, RoomFacts
<1>7. status[r] = "Completed" => IsFinished(r)
  BY DEF IsFinished
<1> HIDE DEF added
<1>8. /\ outcome'[t] = "waiting" => ~IsFinished(r)
      /\ outcome'[t] = "ready" => IsFinished(r)
      /\ outcome'[t] \in {"waiting", "ready", "refused"}
      /\ waits'[t] = This(r)
      /\ \A u \in Task \ {t} : outcome'[u] = outcome[u] /\ waits'[u] = waits[u]
  BY <1>1, <1>6, <1>7 DEF IInv, TypeOK, added
<1>9. FinishedSources' = FinishedSources
  BY <1>1 DEF FinishedSources
<1>10. Registered[t] = None /\ t \notin Released
  BY <1>4 DEF Registered, Released
<1>11. CASE outcome'[t] = "refused"
  <2>1. Registered' = Registered
    BY <1>4, <1>8, <1>11 DEF Registered
  <2>2. Released' = Released
    BY <1>4, <1>8, <1>11 DEF Released
  <2> QED
    BY <1>9, <2>1, <2>2 DEF SourceStutter
<1>12. CASE outcome'[t] # "refused"
  <2>1. Registered' = [Registered EXCEPT ![t] = s]
    <3>1. ASSUME NEW u \in Task
          PROVE  Registered'[u] = [Registered EXCEPT ![t] = s][u]
      <4>1. CASE u = t
        BY <1>8, <1>12, <4>1 DEF Registered, This
      <4>2. CASE u # t
        BY <1>8, <4>2 DEF Registered
      <4> QED
        BY <4>1, <4>2
    <3> QED
      BY <3>1 DEF Registered
  <2>2. Released' = Released \union (IF s \in FinishedSources THEN {t} ELSE {})
    BY <1>4, <1>5, <1>8, <1>12 DEF Released
  <2> QED
    BY <1>5, <1>9, <1>10, <2>1, <2>2
<1> QED
  BY <1>11, <1>12

\* Where a reference is dropped a request in progress stays in progress.
LEMMA DropIsStutter ==
    ASSUME IInv, \/ \E r \in Request : Drop(r)
                 \/ CompleteDecRef(Io)
    PROVE  SourceStutter
<1>1. ASSUME NEW r \in Request, Drop(r) PROVE SourceStutter
  <2>1. /\ pc[r] = "user"
        /\ status' = [status EXCEPT ![r] = IF refs[r] = 1 THEN "Destroyed" ELSE @]
        /\ UNCHANGED <<life, outcome, waits>>
    BY <1>1 DEF IInv, RingInv, Drop, DecRef, taskVars
  <2>2. refs[r] = 1 => status[r] # "InProgress"
    BY <2>1 DEF IInv, RefInv, UserHolds
  <2>3. \A x \in Request : status'[x] = "InProgress" <=> status[x] = "InProgress"
    BY <2>1, <2>2 DEF IInv, TypeOK
  <2> QED
    BY <2>1, <2>3, StutterStep
<1>2. ASSUME CompleteDecRef(Io) PROVE SourceStutter
  <2> DEFINE r == Target(Io)
  <2>1. /\ pc[Io] = "deref" /\ cq # <<>>
        /\ status' = [status EXCEPT ![r] = IF refs[r] = 1 THEN "Destroyed" ELSE @]
        /\ UNCHANGED <<life, outcome, waits>>
    BY <1>2 DEF IInv, RingInv, CompleteDecRef, Goto, DecRef, taskVars
  <2>2. r \in Request /\ Told(r)
    BY <2>1, TargetFacts DEF Told
  <2>3. status[r] # "InProgress"
    BY <2>2 DEF IInv, RefInv
  <2>4. \A x \in Request : status'[x] = "InProgress" <=> status[x] = "InProgress"
    BY <2>1, <2>2, <2>3 DEF IInv, TypeOK
  <2> QED
    BY <2>1, <2>4, StutterStep
<1> QED
  BY <1>1, <1>2

LEMMA RingIsStutter ==
    ASSUME IInv, \/ \E r \in Request : Creator(r)
                 \/ ProcessEvents \/ Unlock \/ Kernel
                 \/ UNCHANGED vars
    PROVE  SourceStutter
<1>1. UNCHANGED <<status, life, outcome, waits>>
  BY DEF Creator, PrepareEntry, SubmitEntries, ProcessEvents, Unlock, Kernel,
         KernelDone, vars, taskVars
<1> QED
  BY <1>1, StutterStep

\* A request is a completion source in each of its lives: a task is registered
\* before it finishes or goes on at once, is released after it has finished,
\* and once (the safety of RequestSource).
THEOREM ImplementsSource ==
    ASSUME MayRefuse = FALSE, HasRoom
    PROVE  Spec => Source!SafeSpec
<1>1. Init => Source!Init
  <2> SUFFICES ASSUME Init PROVE Source!Init
    OBVIOUS
  <2>1. FinishedSources = {}
    BY DEF Init, FinishedSources
  <2>2. Registered = [t \in Task |-> None] /\ Released = {}
    BY DEF Init, Registered, Released
  <2> QED
    BY <2>1, <2>2, SourceUnfolded
<1>2. ASSUME IInv, [Next]_vars PROVE [Source!Next]_Source!vars
  <2>1. ASSUME NEW p \in Process, CompleteStep(p)
        PROVE  [Source!Next]_Source!vars
    <3>1. p = Io
      BY <1>2, <2>1, OnlyIo
    <3> QED
      BY <1>2, <2>1, <3>1, SourceUnfolded, CompleteIsFinish, NotifyIsRelease,
         DropIsStutter
      DEF CompleteStep
  <2>2. ASSUME NEW r \in Request, NEW t \in Task, AddOnCompleteDependency(t, r)
        PROVE  [Source!Next]_Source!vars
    BY <1>2, <2>2, SourceUnfolded, AddIsRegister
  <2>3. ASSUME NEW r \in Request, Create(r) \/ Drop(r)
        PROVE  [Source!Next]_Source!vars
    BY <1>2, <2>3, SourceUnfolded, CreateIsStutter, DropIsStutter
  <2>4. CASE \/ \E r \in Request : Creator(r)
             \/ ProcessEvents \/ Unlock \/ Kernel
             \/ UNCHANGED vars
    BY <1>2, <2>4, SourceUnfolded, RingIsStutter
  <2> QED
    BY <1>2, <2>1, <2>2, <2>3, <2>4 DEF Next, User
<1> QED
  BY IInvAlways, <1>1, <1>2, PTL DEF Spec, Source!SafeSpec
=============================================================================
