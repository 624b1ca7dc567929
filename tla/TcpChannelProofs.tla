-------------------------- MODULE TcpChannelProofs --------------------------
(***************************************************************************)
(* Proofs that the connections of a server and its clients deliver what    *)
(* was put on them, in its order, that no message of a frame is left out   *)
(* of a connection that goes on, and that the tables of the server agree.  *)
(***************************************************************************)
EXTENDS TcpChannel, TcpStreamProofs

\* The least of some numbers.
LEMMA MinIsIn ==
    ASSUME NEW S \in SUBSET Nat, S # {}
    PROVE  /\ Min(S) \in S
           /\ \A k \in S : Min(S) <= k
<1>1. \E m \in S : \A k \in S : m <= k
  <2> SUFFICES ASSUME \A m \in S : \E k \in S : k < m
               PROVE  FALSE
    OBVIOUS
  <2> DEFINE P == {n \in Nat : \A k \in S : n <= k}
  <2>1. 0 \in P
    OBVIOUS
  <2>2. \A n \in P : n + 1 \in P
    OBVIOUS
  <2>3. \A n \in Nat : n \in P
    <3> HIDE DEF P
    <3>1. P \in SUBSET Nat
      BY DEF P
    <3> QED
      BY <2>1, <2>2, <3>1, EveryNumber
  <2>4. PICK m \in S : TRUE
    OBVIOUS
  <2>5. m + 1 \in P
    BY <2>3, <2>4
  <2> QED
    BY <2>4, <2>5
<1> QED
  BY <1>1 DEF Min

-----------------------------------------------------------------------------
(* What is still to be sent *)

\* Messages for a client, of sequences one behind the other.
LEMMA AddressedFacts ==
    ASSUME NEW id
    PROVE  /\ \A ms \in Seq(Message) : Addressed(ms, id) \in Seq(Message)
           /\ \A ms \in Seq(Message) :
                 (\A j \in 1..Len(ms) : ~Foreign(ms[j], id)) => Addressed(ms, id) = ms
           /\ \A a, b \in Seq(Message) :
                 Addressed(a \o b, id) = Addressed(a, id) \o Addressed(b, id)
<1>1. ASSUME NEW ms \in Seq(Message) PROVE Addressed(ms, id) \in Seq(Message)
  BY ChosenType DEF Addressed
<1>2. ASSUME NEW ms \in Seq(Message), \A j \in 1..Len(ms) : ~Foreign(ms[j], id)
      PROVE  Addressed(ms, id) = ms
  <2> DEFINE I == {j \in 1..Len(ms) : ~Foreign(ms[j], id)}
  <2>1. \A j \in 1..Len(ms) : j \in I
    BY <1>2
  <2> HIDE DEF I
  <2>2. Chosen(ms, I) = ms
    BY <2>1, ChosenAll
  <2> QED
    BY <2>2 DEF Addressed, I
<1>3. ASSUME NEW a \in Seq(Message), NEW b \in Seq(Message)
      PROVE  Addressed(a \o b, id) = Addressed(a, id) \o Addressed(b, id)
  <2> DEFINE I == {j \in 1..Len(a) : ~Foreign(a[j], id)}
             J == {j \in 1..Len(b) : ~Foreign(b[j], id)}
             K == {j \in 1..Len(a \o b) : ~Foreign((a \o b)[j], id)}
  <2>1. /\ Len(a) \in Nat /\ Len(b) \in Nat /\ Len(a \o b) = Len(a) + Len(b)
        /\ \A j \in 1..Len(a) : (a \o b)[j] = a[j]
        /\ \A j \in 1..Len(b) : (a \o b)[Len(a) + j] = b[j]
    BY ConcatProperties
  <2>2. \A j \in 1..Len(a) : j \in K <=> j \in I
    BY <2>1
  <2>3. ASSUME NEW j \in 1..Len(b) PROVE Len(a) + j \in K <=> j \in J
    <3>1. Len(a) + j \in 1..Len(a \o b)
      BY <2>1
    <3> QED
      BY <2>1, <3>1
  <2>4. Chosen(a \o b, K) = Chosen(a, I) \o Chosen(b, J)
    <3> HIDE DEF I, J, K
    <3> QED
      BY <2>2, <2>3, ChosenConcat, SMTT(40)
  <2> QED
    BY <2>4 DEF Addressed
<1> QED
  BY <1>1, <1>2, <1>3

\* At the begin of a frame all of its messages are left.
LEMMA RestOfBegin ==
    ASSUME NEW q \in Seq(Message)
    PROVE  /\ Begin(q) \in 0..Len(q)
           /\ Rest(q, Begin(q)) = q
           /\ Rest(q, 0) = <<>>
<1>1. CASE q = <<>>
  BY <1>1 DEF Begin, Rest
<1>2. CASE q # <<>>
  <2>1. Len(q) \in Nat \ {0}
    BY <1>2, EmptySeq
  <2>2. SubSeq(q, 1, Len(q)) = q
    BY SubSeqFull
  <2>3. (1 - 1) + 1 = 1
    OBVIOUS
  <2>4. Drop(q, 1 - 1) = q
    BY <2>2, <2>3 DEF Drop
  <2> QED
    BY <1>2, <2>1, <2>4 DEF Begin, Rest
<1> QED
  BY <1>1, <1>2

\* Dropping elements twice.
LEMMA DropMore ==
    ASSUME NEW s \in Seq(Message), NEW i \in 0..Len(s), NEW m \in 0..(Len(s) - i)
    PROVE  Drop(Drop(s, i), m) = Drop(s, i + m)
<1> DEFINE d == Drop(s, i)
           b == Drop(d, m)
           c == Drop(s, i + m)
<1>1. Len(s) \in Nat /\ i \in Nat /\ m \in Nat /\ i + m \in 0..Len(s)
  OBVIOUS
<1>2. /\ d \in Seq(Message) /\ Len(d) = Len(s) - i
      /\ \A j \in 1..(Len(s) - i) : d[j] = s[i + j]
  BY TakeDropFacts
<1>3. /\ c \in Seq(Message) /\ Len(c) = Len(s) - (i + m)
      /\ \A j \in 1..(Len(s) - (i + m)) : c[j] = s[(i + m) + j]
  BY <1>1, TakeDropFacts
<1> HIDE DEF d, c
<1>4. m \in 0..Len(d)
  BY <1>2
<1>5. /\ b \in Seq(Message) /\ Len(b) = Len(d) - m
      /\ \A j \in 1..(Len(d) - m) : b[j] = d[m + j]
  BY <1>2, <1>4, TakeDropFacts
<1> HIDE DEF b
<1>6. Len(b) = Len(c)
  BY <1>1, <1>2, <1>3, <1>5
<1>7. ASSUME NEW j \in 1..Len(b) PROVE b[j] = c[j]
  <2>1. /\ j \in 1..(Len(d) - m) /\ m + j \in 1..(Len(s) - i)
        /\ j \in 1..(Len(s) - (i + m)) /\ i + (m + j) = (i + m) + j
    BY <1>1, <1>2, <1>5
  <2>2. b[j] = d[m + j] /\ d[m + j] = s[i + (m + j)] /\ c[j] = s[(i + m) + j]
    BY <1>2, <1>3, <1>5, <2>1
  <2> QED
    BY <2>1, <2>2
<1>8. b = c
  BY <1>3, <1>5, <1>6, <1>7, SeqEqual
<1> QED
  BY <1>8 DEF b, c, d

\* What a call encodes and what it leaves for the next one is what was left
\* for it.
LEMMA NothingLost ==
    ASSUME NEW enc \in Seq(Piece), NEW k \in Nat, NEW q \in Seq(Message),
           NEW last \in 0..Len(q), NEW id, NEW room, NEW failed \in BOOLEAN,
           NEW o \in Sending(enc, k, q, last, id, room, failed),
           o.how \in {"done", "full"}
    PROVE  Put(q, last, o) \o Numbers(Addressed(Rest(q, LastSentAfter(last, o)), id))
             = Numbers(Addressed(Rest(q, last), id))
<1> DEFINE rest == Rest(q, last)
           m == o.m
           a == Take(rest, m)
           b == Drop(rest, m)
<1>1. /\ rest \in Seq(Message) /\ m \in 0..Len(rest)
      /\ Len(rest) = IF last = 0 THEN 0 ELSE Len(q) - (last - 1)
      /\ o.how = "done" => m = Len(rest)
      /\ o.how = "full" => m < Len(rest)
      /\ \A i \in 1..m : ~Foreign(rest[i], id)
  BY SendingFacts
<1>2. Put(q, last, o) = Numbers(a)
  BY DEF Put
<1>3. LastSentAfter(last, o) = IF o.how = "full" THEN last + m ELSE 0
  BY DEF LastSentAfter
<1>4. rest = IF last = 0 THEN <<>> ELSE Drop(q, last - 1)
  BY DEF Rest
<1> HIDE DEF rest, m
<1>5. /\ a \in Seq(Message) /\ b \in Seq(Message) /\ a \o b = rest
      /\ Len(a) = m /\ \A i \in 1..m : a[i] = rest[i]
      /\ Len(b) = Len(rest) - m
  BY <1>1, TakeDropFacts, ZenonT(60)
<1>6. Rest(q, LastSentAfter(last, o)) = b
  <2>1. CASE o.how = "done"
    <3>1. b \in Seq(Message) /\ Len(b) = 0
      BY <1>1, <1>5, <2>1
    <3>2. b = <<>>
      <4> HIDE DEF b
      <4> QED
        BY <3>1
    <3>3. LastSentAfter(last, o) = 0
      BY <1>3, <2>1
    <3> QED
      BY <3>2, <3>3, RestOfBegin
  <2>2. CASE o.how = "full"
    <3>1. last # 0 /\ m \in Nat /\ last \in Nat /\ Len(q) \in Nat
      BY <1>1, <2>2
    <3>2. last - 1 \in 0..Len(q) /\ m \in 0..(Len(q) - (last - 1))
          /\ (last - 1) + m = (last + m) - 1 /\ last + m # 0
      BY <1>1, <3>1
    <3>3. Drop(Drop(q, last - 1), m) = Drop(q, (last - 1) + m)
      BY <3>2, DropMore
    <3>4. b = Drop(q, (last + m) - 1)
      BY Zenon, <1>4, <3>1, <3>2, <3>3
    <3>5. LastSentAfter(last, o) = last + m
      BY <1>3, <2>2
    <3> QED
      BY <3>2, <3>4, <3>5 DEF Rest
  <2> QED
    BY <2>1, <2>2
<1> HIDE DEF a, b
<1>7. Addressed(a, id) = a /\ Addressed(b, id) \in Seq(Message)
      /\ Addressed(rest, id) = a \o Addressed(b, id)
  <2>1. \A j \in 1..Len(a) : ~Foreign(a[j], id)
    BY <1>1, <1>5
  <2>2. Addressed(a, id) = a /\ Addressed(b, id) \in Seq(Message)
    BY <1>5, <2>1, AddressedFacts
  <2>3. Addressed(a \o b, id) = Addressed(a, id) \o Addressed(b, id)
    BY <1>5, AddressedFacts
  <2> QED
    BY Zenon, <1>5, <2>2, <2>3
<1>8. Numbers(Addressed(rest, id)) = Numbers(a) \o Numbers(Addressed(b, id))
  BY <1>5, <1>7, NumbersConcat, ZenonT(60)
<1> QED
  BY <1>2, <1>6, <1>8 DEF rest

\* The channel goes on in the queue.
LEMMA LastSentRange ==
    ASSUME NEW enc \in Seq(Piece), NEW k \in Nat, NEW q \in Seq(Message),
           NEW last \in 0..Len(q), NEW id, NEW room, NEW failed \in BOOLEAN,
           NEW o \in Sending(enc, k, q, last, id, room, failed)
    PROVE  LastSentAfter(last, o) \in 0..Len(q)
<1>1. /\ o.m \in 0..Len(Rest(q, last))
      /\ Len(Rest(q, last)) = IF last = 0 THEN 0 ELSE Len(q) - (last - 1)
      /\ o.how \in {"done", "full", "error", "spin"}
      /\ o.how = "full" => o.m < Len(Rest(q, last))
  BY SendingFacts
<1>2. Len(q) \in Nat
  OBVIOUS
<1> DEFINE n == Len(Rest(q, last))
<1> HIDE DEF n
<1>3. /\ o.m \in 0..n /\ n = (IF last = 0 THEN 0 ELSE Len(q) - (last - 1))
      /\ o.how = "full" => o.m < n
  BY <1>1 DEF n
<1>4. o.how = "full" => last + o.m \in 0..Len(q)
  BY <1>2, <1>3
<1> QED
  BY <1>1, <1>2, <1>4 DEF LastSentAfter

-----------------------------------------------------------------------------
(* The invariant *)

\* The types of the state.
Sock == [owner : Endpoint, up : Seq(Piece), down : Seq(Piece),
         client : {"none", "open", "closed"}, server : {"none", "open", "closed"}]

Ref == 0..MaxConn

ClientChannel ==
    [begun : BOOLEAN, status : {"Disconnected", "Connecting", "Connected", "Failed"},
     conn : Ref, last : Nat, encoded : Seq(Piece), received : Seq(Piece)]

ServerSlot ==
    [used : BOOLEAN, id : Int, conn : Ref, last : Nat,
     encoded : Seq(Piece), received : Seq(Piece)]

Entry == [id : Nat, addr : Endpoint]

QueueType == /\ pending \in [Endpoint -> Seq(Message)]
             /\ queue \in [Endpoint -> Seq(Message)]
             /\ made \in [Endpoint -> Nat]

ServerType == /\ slots \in [Slot -> ServerSlot]
              /\ addrMap \subseteq [conn : Conn, slot : Slot]
              /\ stray \in Seq(Piece)
              /\ turn \in {"user", "accept", "clients", "spin"}
              /\ at \in Nat
              /\ ids \in SUBSET Entry /\ IsFiniteSet(ids)
              /\ counter \in Nat

NetType == /\ opened \in Ref
           /\ net \in [Conn -> Sock]
           /\ flow \in [Conn -> [up : Flow, down : Flow]]
           /\ mixed \subseteq Conn \X {"up", "down"}

ClientType == client \in [Client -> ClientChannel]

TypeInv == QueueType /\ ClientType /\ ServerType /\ NetType

\* A channel that has a connection is at its open end, and no other channel is.
ClientEnds ==
    \A c \in Client :
        /\ client[c].conn # NoConn =>
              /\ client[c].conn <= opened
              /\ net[client[c].conn].client = "open"
              /\ net[client[c].conn].owner = c
        /\ client[c].status \in {"Connecting", "Connected"} => client[c].conn # NoConn
        /\ client[c].last <= Len(queue[c])

\* The same for the slots, and who has left has nothing in its buffer.
ServerEnds ==
    /\ \A s \in Slot :
         IF slots[s].used
         THEN /\ slots[s].conn # NoConn
              /\ net[slots[s].conn].server = "open"
              /\ slots[s].last <= Len(queue[Server])
              /\ \A t \in Slot : slots[t].used /\ slots[t].conn = slots[s].conn => t = s
         ELSE slots[s].received = <<>>
    /\ turn = "clients" => at \in Used

\* Nothing has gone through a connection before its end is open.
Untouched ==
    \A k \in Conn :
        /\ net[k].client = "none" <=> k > opened
        /\ net[k].client = "none" => flow[k].up.put = <<>>
        /\ net[k].server = "none" => flow[k].down.put = <<>>

\* What the one who reads from a connection, or writes to it, has in its
\* buffer; a side that nobody has created yet will begin with nothing.
ServerReads(k) == {slots[s].received : s \in {t \in Used : slots[t].conn = k}}
                    \union (IF net[k].server = "none" THEN {<<>>} ELSE {})

ServerWrites(k) == {slots[s].encoded : s \in {t \in Used : slots[t].conn = k}}
                    \union (IF net[k].server = "none" THEN {<<>>} ELSE {})

ClientReads(k) == {client[c].received : c \in {d \in Client : client[d].conn = k}}
                    \union (IF net[k].client = "none" THEN {<<>>} ELSE {})

ClientWrites(k) == {client[c].encoded : c \in {d \in Client : client[d].conn = k}}
                    \union (IF net[k].client = "none" THEN {<<>>} ELSE {})

\* Streams that got nothing foreign hold what has been put on them.
UpHolds ==
    \A k \in Conn : <<k, "up">> \notin mixed =>
        Holds(k, flow[k].up, net[k].up, ServerReads(k), ClientWrites(k))

DownHolds ==
    \A k \in Conn : <<k, "down">> \notin mixed =>
        Holds(k, flow[k].down, net[k].down, ClientReads(k), ServerWrites(k))

\* The inductive invariant.
EndsInv == TypeInv /\ ClientEnds /\ ServerEnds /\ Untouched
IInv == EndsInv /\ SlotsAgree /\ NothingSkipped /\ UpHolds /\ DownHolds

\* The producers bring messages ...
LEMMA MadeType ==
    ASSUME TypeInv, NEW e \in Endpoint, NEW ms \in Made(e)
    PROVE  ms \in Seq(Message)
<1> DEFINE kinds == [to : IF e = Server /\ Targeted
                          THEN {AnyClient} \union {slots[s].id : s \in {t \in Slot : slots[t].used}}
                          ELSE {AnyClient},
                     fits : Fits]
           most  == IF MaxMade[e] - made[e] < MaxPerUpdate THEN MaxMade[e] - made[e]
                                                           ELSE MaxPerUpdate
<1>0. PICK m \in 0..most : \E k \in [1..m -> kinds] :
        ms = [j \in 1..m |-> [n |-> made[e] + j, to |-> k[j].to, fits |-> k[j].fits]]
  BY DEF Made
<1>1. PICK k \in [1..m -> kinds] :
        ms = [j \in 1..m |-> [n |-> made[e] + j, to |-> k[j].to, fits |-> k[j].fits]]
  BY <1>0
<1>2. made[e] \in Nat /\ most \in Int
  BY ChannelAssumption DEF TypeInv, QueueType, Endpoint
<1>3. m \in Nat
  <2> HIDE DEF most
  <2> QED
    BY <1>2
<1>4. kinds \subseteq [to : Int, fits : BOOLEAN]
  <2>1. AnyClient \in Int
    BY DEF AnyClient
  <2>2. \A s \in Slot : slots[s].id \in Int
    BY DEF TypeInv, ServerType, ServerSlot
  <2> QED
    BY <2>1, <2>2, ChannelAssumption
<1> HIDE DEF kinds, most
<1>5. ASSUME NEW j \in 1..m
      PROVE  [n |-> made[e] + j, to |-> k[j].to, fits |-> k[j].fits] \in Message
  <2>1. k[j] \in [to : Int, fits : BOOLEAN]
    BY <1>4
  <2>2. made[e] + j \in Nat
    BY <1>2, <1>3
  <2> QED
    BY <2>1, <2>2 DEF Message
<1>6. ms \in [1..m -> Message]
  BY <1>1, <1>5
<1> QED
  BY <1>3, <1>6

\* ... for the queues.
LEMMA ProduceType ==
    ASSUME TypeInv, NEW e \in Endpoint, NEW ms \in Made(e), NEW newFrame \in BOOLEAN,
           Produce(e, ms, newFrame)
    PROVE  /\ QueueType'
           /\ ms \in Seq(Message)
           /\ pending[e] \o ms \in Seq(Message)
           /\ queue'[e] = IF newFrame THEN pending[e] \o ms ELSE queue[e]
           /\ \A d \in Endpoint \ {e} : queue'[d] = queue[d]
<1>1. ms \in Seq(Message)
  BY MadeType
<1>2. pending[e] \in Seq(Message) /\ queue[e] \in Seq(Message) /\ made[e] \in Nat
      /\ Len(ms) \in Nat
  BY <1>1 DEF TypeInv, QueueType
<1>3. pending[e] \o ms \in Seq(Message)
  BY <1>1, <1>2, ConcatProperties
<1> DEFINE p == pending[e] \o ms
<1>4. /\ made' = [made EXCEPT ![e] = made[e] + Len(ms)]
      /\ pending' = [pending EXCEPT ![e] = IF newFrame THEN <<>> ELSE p]
      /\ queue' = [queue EXCEPT ![e] = IF newFrame THEN p ELSE queue[e]]
  BY DEF Produce
<1>5. p \in Seq(Message) /\ <<>> \in Seq(Message) /\ made[e] + Len(ms) \in Nat
  BY <1>2, <1>3
<1> HIDE DEF p
<1>6. /\ queue \in [Endpoint -> Seq(Message)] /\ pending \in [Endpoint -> Seq(Message)]
      /\ made \in [Endpoint -> Nat]
  BY DEF TypeInv, QueueType
<1>7. QueueType'
  <2>1. made' \in [Endpoint -> Nat]
    BY <1>4, <1>5, <1>6
  <2>2. pending' \in [Endpoint -> Seq(Message)]
    BY <1>4, <1>5, <1>6
  <2>3. queue' \in [Endpoint -> Seq(Message)]
    BY <1>4, <1>5, <1>6, <1>2
  <2> QED
    BY <2>1, <2>2, <2>3 DEF QueueType
<1>8. queue'[e] = IF newFrame THEN p ELSE queue[e]
  BY <1>4, <1>6
<1>9. \A d \in Endpoint \ {e} : queue'[d] = queue[d]
  BY <1>4, <1>6
<1> QED
  BY <1>1, <1>5, <1>7, <1>8, <1>9 DEF p

\* No id is missing: the listener does not know more ids than it looks at.
LEMMA NewIdType ==
    ASSUME TypeInv
    PROVE  NewId \in Nat /\ \A e \in ids : e.id # NewId
<1> DEFINE N == Cardinality(ids)
           S == counter..(counter + N)
           F == {i \in S : \A e \in ids : e.id # i}
<1>1. counter \in Nat /\ ids \in SUBSET Entry /\ IsFiniteSet(ids)
  BY DEF TypeInv, ServerType
<1>2. N \in Nat
  BY <1>1, FS_CardinalityType
<1>3. IsFiniteSet(S) /\ Cardinality(S) = N + 1
  <2>1. counter \in Int /\ counter + N \in Int /\ ~ (counter > counter + N)
        /\ (counter + N) - counter + 1 = N + 1
    BY <1>1, <1>2
  <2>2. IsFiniteSet(counter..(counter + N))
        /\ Cardinality(counter..(counter + N)) = IF counter > counter + N THEN 0
                                                 ELSE (counter + N) - counter + 1
    <3> DEFINE b == counter + N
    <3> HIDE DEF b
    <3>1. IsFiniteSet(counter..b) /\ Cardinality(counter..b) = IF counter > b THEN 0 ELSE b - counter + 1
      BY <2>1, FS_Interval DEF b
    <3> QED
      BY <3>1 DEF b
  <2> QED
    BY <2>1, <2>2
<1>4. F # {}
  <2> SUFFICES ASSUME F = {} PROVE FALSE
    OBVIOUS
  <2> DEFINE f == [i \in S |-> CHOOSE e \in ids : e.id = i]
  <2>1. ASSUME NEW i \in S PROVE f[i] \in ids /\ f[i].id = i
    <3>1. \E e \in ids : e.id = i
      OBVIOUS
    <3> QED
      BY <3>1
  <2>2. f \in [S -> ids]
    BY <2>1
  <2> HIDE DEF f, S
  <2>3. Cardinality(ids) < Cardinality(S)
    BY <1>2, <1>3
  <2>4. PICK x \in S, y \in S : x # y /\ f[x] = f[y]
    BY <1>1, <1>3, <2>2, <2>3, FS_PigeonHole
  <2> QED
    BY <2>1, <2>4
<1>5. F \in SUBSET Nat
  BY <1>1, <1>2
<1>6. NewId = Min(F)
  BY DEF NewId
<1> HIDE DEF F
<1>7. Min(F) \in F
  BY <1>4, <1>5, MinIsIn
<1> QED
  BY <1>5, <1>6, <1>7 DEF F

\* A message for any client is for nobody else.
LEMMA NoSpin ==
    ASSUME NEW enc, NEW k, NEW q, NEW last, NEW room, NEW failed,
           NEW o \in Sending(enc, k, q, last, AnyClient, room, failed)
    PROVE  o.how # "spin"
<1> DEFINE rest == Rest(q, last)
<1>1. \A m : ~Foreign(m, AnyClient)
  BY DEF Foreign
<1>2. CASE q = <<>> \/ failed
  <2>1. o \in {[how |-> IF failed THEN "error" ELSE "done",
                m |-> 0, sent |-> n, moved |-> n] :
                 n \in {a \in 0..Len(enc) : a <= room /\ (q = <<>> => a = 0)}}
    BY <1>2 DEF Sending
  <2> QED
    BY <2>1
<1>3. CASE ~ (q = <<>> \/ failed)
  <2>1. PICK m \in 0..Len(rest) : o \in Ends(enc, k, rest, AnyClient, room, m)
    BY <1>3 DEF Sending, rest
  <2> HIDE DEF rest
  <2> DEFINE parts == Storage(enc, k, rest, m)
             foreign == m < Len(rest) /\ Foreign(rest[m + 1], AnyClient)
             amounts == {n \in 0..Len(parts) :
                           n <= room /\ (m > 0 => HadRoom(enc, k, rest, m - 1, n))}
             End(how, sent, moved) == [how |-> how, m |-> m, sent |-> sent, moved |-> moved]
  <2>2. \/ \E n \in amounts : o = End("done", n, n)
        \/ \E n \in amounts : o = End("full", n, n)
        \/ \E a \in amounts \X amounts : o = End("error", a[1], a[2])
        \/ \E n \in amounts : foreign /\ o = End("spin", n, n)
    BY <2>1 DEF Ends
  <2>3. ~foreign
    BY <1>1
  <2> HIDE DEF parts, foreign, amounts
  <2> QED
    BY <2>2, <2>3
<1> QED
  BY <1>2, <1>3

\* The slot that the loop goes to is used.
LEMMA GoToFacts ==
    ASSUME NEW s \in Nat, NEW U, U \in SUBSET Nat, GoTo(U, s)
    PROVE  \/ turn' = "user" /\ at' = 0
           \/ turn' = "clients" /\ at' \in U /\ at' >= s
<1> DEFINE later == {t \in U : t >= s}
<1>1. NextUsed(U, s) = IF later = {} THEN NoId ELSE Min(later)
  BY DEF NextUsed
<1>2. later \in SUBSET Nat /\ later \subseteq U /\ \A t \in later : t >= s
  OBVIOUS
<1> HIDE DEF later
<1>3. later # {} => Min(later) \in later
  BY <1>2, MinIsIn
<1>4. NoId \notin Nat
  BY DEF NoId
<1> QED
  BY <1>1, <1>2, <1>3, <1>4 DEF GoTo

\* Slots in use.
LEMMA SlotFacts ==
    /\ Slot \in SUBSET Nat
    /\ Used \in SUBSET Nat /\ Used \subseteq Slot
    /\ \A s \in Slot : s \in Used <=> slots[s].used
    /\ NextUsed(Used, 0) # NoId => NextUsed(Used, 0) \in Used
<1>1. Slot \in SUBSET Nat
  BY ChannelAssumption DEF Slot
<1>2. Used \in SUBSET Nat /\ Used \subseteq Slot /\ \A s \in Slot : s \in Used <=> slots[s].used
  BY <1>1 DEF Used
<1> DEFINE later == {t \in Used : t >= 0}
<1>3. NextUsed(Used, 0) = IF later = {} THEN NoId ELSE Min(later)
  BY DEF NextUsed
<1>4. later \in SUBSET Nat /\ later \subseteq Used
  BY <1>2
<1> HIDE DEF later
<1>5. later # {} => Min(later) \in later
  BY <1>4, MinIsIn
<1> QED
  BY <1>1, <1>2, <1>3, <1>4, <1>5

-----------------------------------------------------------------------------
(* Steps of a client *)

\* The history of a connection that is closed, or not open yet.
NoFlows == [up |-> NoFlow, down |-> NoFlow]

\* What closing leaves of a socket.
LEMMA SockFacts ==
    ASSUME NEW n \in Sock
    PROVE  /\ CloseClient(n) \in Sock
           /\ CloseClient(n).client = "closed" /\ CloseClient(n).server = n.server
           /\ CloseClient(n).down = <<>> /\ CloseClient(n).owner = n.owner
           /\ CloseClient(n).up = IF n.server = "closed" THEN <<>> ELSE n.up
           /\ CloseServer(n) \in Sock
           /\ CloseServer(n).server = "closed" /\ CloseServer(n).client = n.client
           /\ CloseServer(n).up = <<>> /\ CloseServer(n).owner = n.owner
           /\ CloseServer(n).down = IF n.client = "closed" THEN <<>> ELSE n.down
<1>1. <<>> \in Seq(Piece)
  OBVIOUS
<1> QED
  BY <1>1 DEF CloseClient, CloseServer, Sock

\* Nothing has gone through it.
LEMMA NoFlowFacts ==
    /\ NoFlow \in Flow /\ NoFlow.put = <<>> /\ NoFlow.got = <<>>
    /\ NoFlows \in [up : Flow, down : Flow]
    /\ NoFlows.up = NoFlow /\ NoFlows.down = NoFlow
  BY DEF NoFlow, NoFlows, Flow

\* The history f, but for what both sides have closed.
LEMMA RememberFacts ==
    ASSUME NEW f \in [Conn -> [up : Flow, down : Flow]], Remember(f)
    PROVE  /\ flow' \in [Conn -> [up : Flow, down : Flow]]
           /\ \A k \in Conn :
                 \/ flow'[k] = f[k]
                 \/ /\ net'[k].client = "closed" /\ net'[k].server = "closed"
                    /\ flow'[k] = NoFlows
  BY NoFlowFacts DEF Remember, NoFlows

\* The step of c in which its channel becomes `next', the connections n and the
\* history f, and after which its connection may be gone and another one open.
Moves(c, n, f, next, gone, ok) ==
    /\ ok => gone /\ opened < MaxConn
    /\ client' = [client EXCEPT ![c] = IF gone THEN Reconnected(next, ok) ELSE next]
    /\ opened' = opened + (IF ok THEN 1 ELSE 0)
    /\ net' = IF gone THEN Reopened(c, n, ok) ELSE n
    /\ \/ Remember(IF gone THEN Redue(f, queue'[c], next.last, ok) ELSE f)
       \/ ~gone /\ flow' = f
    /\ QueueType'
    /\ \A e \in Endpoint \ {c} : queue'[e] = queue[e]
    /\ next.last <= Len(queue'[c])
    /\ UNCHANGED <<serverVars, mixed>>

\* What happens at the connection of c, while the step lasts.
Talks(c, n, f, next, gone) ==
    /\ next \in ClientChannel
    /\ n \in [Conn -> Sock]
    /\ f \in [Conn -> [up : Flow, down : Flow]]
    /\ next.conn = client[c].conn
    /\ ~gone => (next.status \in {"Connecting", "Connected"} => next.conn # NoConn)
    /\ \A k \in Conn \ {client[c].conn} : n[k] = net[k] /\ f[k] = flow[k]
    /\ \A k \in Conn :
         k = client[c].conn =>
           /\ n[k].owner = net[k].owner /\ n[k].client = net[k].client
           /\ n[k].server = net[k].server
           /\ f[k].down.put = flow[k].down.put /\ f[k].down.due = flow[k].down.due
           /\ <<k, "up">> \notin mixed =>
                Holds(k, f[k].up, n[k].up, ServerReads(k),
                      IF gone THEN {} ELSE {next.encoded})
           /\ <<k, "down">> \notin mixed =>
                Holds(k, f[k].down, n[k].down, IF gone THEN {} ELSE {next.received},
                      ServerWrites(k))
           /\ ~gone => f[k].up.put \o Numbers(Rest(queue'[c], next.last)) = f[k].up.due

\* Connections, and none.
LEMMA ConnFacts ==
    /\ NoConn \notin Conn
    /\ Ref = Conn \union {NoConn}
    /\ Conn \in SUBSET Nat
  BY ChannelAssumption DEF NoConn, Conn, Ref

\* A step of a client keeps the types, ...
LEMMA MovesTypes ==
    ASSUME IInv, NEW c \in Client, NEW n, NEW f, NEW next, NEW gone \in BOOLEAN,
           NEW ok \in BOOLEAN,
           Moves(c, n, f, next, gone, ok), Talks(c, n, f, next, gone)
    PROVE  /\ TypeInv'
           /\ client'[c].conn = IF ok THEN opened + 1 ELSE IF gone THEN NoConn
                                ELSE client[c].conn
           /\ client'[c].last = next.last
           /\ gone => client'[c].encoded = <<>> /\ client'[c].received = <<>>
           /\ ~gone => client'[c] = next
           /\ client'[c].status \in {"Connecting", "Connected"} => client'[c].conn # NoConn
           /\ \A d \in Client \ {c} : client'[d] = client[d]
           /\ client[c].conn \in Ref /\ opened \in Nat
           /\ ok => opened + 1 \in Conn
<1>1. /\ next \in ClientChannel /\ n \in [Conn -> Sock]
      /\ f \in [Conn -> [up : Flow, down : Flow]] /\ next.conn = client[c].conn
      /\ ~gone => (next.status \in {"Connecting", "Connected"} => next.conn # NoConn)
  BY DEF Talks
<1>2. /\ client \in [Client -> ClientChannel] /\ opened \in Ref /\ net \in [Conn -> Sock]
      /\ flow \in [Conn -> [up : Flow, down : Flow]]
  BY DEF IInv, EndsInv, TypeInv, ClientType, NetType
<1>3. /\ ok => gone /\ opened < MaxConn
      /\ client' = [client EXCEPT ![c] = IF gone THEN Reconnected(next, ok) ELSE next]
      /\ opened' = opened + (IF ok THEN 1 ELSE 0)
      /\ net' = IF gone THEN Reopened(c, n, ok) ELSE n
      /\ QueueType'
      /\ UNCHANGED <<serverVars, mixed>>
  BY DEF Moves
<1>4. opened \in Nat /\ MaxConn \in Nat /\ opened <= MaxConn
      /\ (ok => opened + 1 \in Conn /\ opened + 1 \in Ref)
  BY <1>2, <1>3, ChannelAssumption DEF Ref, Conn
<1>5. /\ Reconnected(next, ok) \in ClientChannel
      /\ Reconnected(next, ok).status = (IF ok THEN "Connecting" ELSE "Disconnected")
      /\ Reconnected(next, ok).conn = (IF ok THEN opened + 1 ELSE NoConn)
      /\ Reconnected(next, ok).last = next.last
      /\ Reconnected(next, ok).encoded = <<>>
      /\ Reconnected(next, ok).received = <<>>
  <2>1. <<>> \in Seq(Piece) /\ NoConn \in Ref
    BY ConnFacts
  <2> QED
    BY <1>1, <1>4, <2>1 DEF Reconnected, ClientChannel
<1>6. ClientType'
  BY <1>1, <1>2, <1>3, <1>5 DEF ClientType
<1>7. /\ client'[c] = (IF gone THEN Reconnected(next, ok) ELSE next)
      /\ \A d \in Client \ {c} : client'[d] = client[d]
  BY <1>2, <1>3
<1>8. net' \in [Conn -> Sock]
  <2>1. Reopened(c, n, ok) \in [Conn -> Sock]
    <3>1. ASSUME NEW k \in Conn
          PROVE  (CASE k = client[c].conn     -> CloseClient(n[k])
                    [] ok /\ k = opened + 1   -> [n[k] EXCEPT !.owner = c, !.client = "open"]
                    [] OTHER                  -> n[k]) \in Sock
      <4>1. n[k] \in Sock /\ CloseClient(n[k]) \in Sock
        BY <1>1, SockFacts
      <4>2. [n[k] EXCEPT !.owner = c, !.client = "open"] \in Sock
        BY <4>1 DEF Sock, Endpoint
      <4> QED
        BY <4>1, <4>2
    <3> QED
      BY <3>1, Zenon DEF Reopened
  <2> QED
    BY <1>1, <1>3, <2>1
<1>9. flow' \in [Conn -> [up : Flow, down : Flow]]
  <2> DEFINE g == IF gone THEN Redue(f, queue'[c], next.last, ok) ELSE f
  <2>1. g \in [Conn -> [up : Flow, down : Flow]]
    <3>1. CASE ~ (gone /\ ok)
      BY <1>1, <3>1 DEF Redue
    <3>2. CASE gone /\ ok
      <4>1. opened + 1 \in Conn
        BY <1>4, <3>2
      <4>2. queue'[c] \in Seq(Message)
        BY <1>3 DEF QueueType, Endpoint
      <4>3. Numbers(Rest(queue'[c], next.last)) \in Seq(Nat)
        <5>1. next.last \in 0..Len(queue'[c])
          BY <1>1, <4>2 DEF Moves, ClientChannel
        <5>2. Rest(queue'[c], next.last) \in Seq(Message)
          <6>1. CASE next.last = 0
            BY <6>1 DEF Rest
          <6>2. CASE next.last # 0
            <7>1. next.last - 1 \in 0..Len(queue'[c])
              BY <5>1, <6>2
            <7> QED
              BY <4>2, <6>2, <7>1, TakeDropFacts DEF Rest
          <6> QED
            BY <6>1, <6>2
        <5> QED
          BY <5>2, FittingType
      <4>4. [f[opened + 1] EXCEPT !.up.due = Numbers(Rest(queue'[c], next.last))]
              \in [up : Flow, down : Flow]
        BY <1>1, <4>1, <4>3, ZenonT(60) DEF Flow
      <4>5. g = [f EXCEPT ![opened + 1] =
                   [f[opened + 1] EXCEPT !.up.due = Numbers(Rest(queue'[c], next.last))]]
        BY <1>1, <3>2, <4>1 DEF Redue
      <4> QED
        BY <1>1, <4>1, <4>4, <4>5
    <3> QED
      BY <3>1, <3>2
  <2>2. Remember(g) \/ flow' = f
    BY DEF Moves
  <2> HIDE DEF g
  <2>3. CASE Remember(g)
    BY <2>1, <2>3, RememberFacts
  <2> QED
    BY <1>1, <2>2, <2>3
<1>10. NetType'
  <2>1. opened' \in Ref /\ mixed' = mixed
    BY <1>2, <1>3, <1>4
  <2>2. mixed \subseteq Conn \X {"up", "down"}
    BY DEF IInv, EndsInv, TypeInv, NetType
  <2> QED
    BY <1>8, <1>9, <2>1, <2>2 DEF NetType
<1>11. ServerType'
  BY <1>3 DEF IInv, EndsInv, TypeInv, ServerType, serverVars
<1>12. TypeInv'
  BY <1>3, <1>6, <1>10, <1>11 DEF TypeInv
<1>13. client[c].conn \in Ref
  BY <1>2 DEF ClientChannel
<1>14. client'[c].status \in {"Connecting", "Connected"} => client'[c].conn # NoConn
  <2>1. opened + 1 # NoConn
    BY <1>4 DEF NoConn
  <2> QED
    BY <1>1, <1>5, <1>7, <2>1
<1>15. client'[c].conn = IF ok THEN opened + 1 ELSE IF gone THEN NoConn ELSE client[c].conn
  BY <1>1, <1>3, <1>5, <1>7
<1>16. client'[c].last = next.last
  BY <1>5, <1>7
<1> QED
  BY <1>4, <1>5, <1>7, <1>12, <1>13, <1>14, <1>15, <1>16

\* The connection k is opened in the step.
Opens(k, ok) == ok /\ k = opened + 1

\* What the step does to each connection.
LEMMA MovesConn ==
    ASSUME IInv, NEW c \in Client, NEW n, NEW f, NEW next, NEW gone \in BOOLEAN,
           NEW ok \in BOOLEAN,
           Moves(c, n, f, next, gone, ok), Talks(c, n, f, next, gone),
           NEW k \in Conn
    PROVE  /\ net'[k].server = net[k].server
           /\ k = client[c].conn =>
                /\ net[k].client = "open"
                /\ ~Opens(k, ok)
                /\ gone => /\ net'[k] = CloseClient(n[k])
                           /\ \/ flow'[k] = f[k]
                              \/ net[k].server = "closed" /\ flow'[k] = NoFlows
                /\ ~gone => net'[k] = n[k] /\ flow'[k] = f[k]
           /\ k # client[c].conn /\ Opens(k, ok) =>
                /\ net[k].client = "none"
                /\ net'[k].owner = c /\ net'[k].client = "open"
                /\ net'[k].up = net[k].up /\ net'[k].down = net[k].down
                /\ flow'[k].down = flow[k].down
                /\ flow'[k].up.put = flow[k].up.put /\ flow'[k].up.got = flow[k].up.got
                /\ flow'[k].up.due = Numbers(Rest(queue'[c], next.last))
           /\ k # client[c].conn /\ ~Opens(k, ok) =>
                /\ net'[k] = net[k]
                /\ \/ flow'[k] = flow[k]
                   \/ /\ net[k].client = "closed" /\ net[k].server = "closed"
                      /\ flow'[k] = NoFlows
<1> DEFINE kc == client[c].conn
           due == Numbers(Rest(queue'[c], next.last))
<1> USE DEF Opens
<1>1. /\ n \in [Conn -> Sock]
      /\ f \in [Conn -> [up : Flow, down : Flow]]
      /\ \A j \in Conn \ {kc} : n[j] = net[j] /\ f[j] = flow[j]
      /\ \A j \in Conn : j = kc => n[j].server = net[j].server /\ n[j].client = net[j].client
  BY DEF Talks
<1>2. /\ ok => gone /\ opened < MaxConn
      /\ net' = IF gone THEN Reopened(c, n, ok) ELSE n
      /\ \/ Remember(IF gone THEN Redue(f, queue'[c], next.last, ok) ELSE f)
         \/ ~gone /\ flow' = f
  BY DEF Moves
<1>3. /\ kc \in Ref /\ opened \in Nat /\ opened + 1 # opened /\ (ok => opened + 1 \in Conn)
  BY MovesTypes
<1>4. kc # NoConn => kc <= opened /\ net[kc].client = "open"
  BY DEF IInv, EndsInv, ClientEnds
<1>5. k # NoConn /\ k \in Nat
  BY ConnFacts
<1>6. k = kc => net[k].client = "open" /\ ~ (k = opened + 1)
  BY <1>3, <1>4, <1>5
<1>7. k = opened + 1 => net[k].client = "none"
  <2>1. net[k].client = "none" <=> k > opened
    BY DEF IInv, EndsInv, Untouched
  <2> QED
    BY <1>3, <2>1
<1>8. net'[k] = IF ~gone THEN n[k]
                ELSE IF k = kc THEN CloseClient(n[k])
                ELSE IF ok /\ k = opened + 1 THEN [n[k] EXCEPT !.owner = c, !.client = "open"]
                ELSE n[k]
  <2>1. CASE ~gone
    BY <1>2, <2>1
  <2>2. CASE gone
    <3>1. net' = Reopened(c, n, ok)
      BY <1>2, <2>2
    <3>2. net'[k] = CASE k = kc                  -> CloseClient(n[k])
                      [] ok /\ k = opened + 1   -> [n[k] EXCEPT !.owner = c, !.client = "open"]
                      [] OTHER                  -> n[k]
      BY <3>1, Zenon DEF Reopened
    <3>3. CASE k = kc
      BY <1>6, <2>2, <3>2, <3>3
    <3>4. CASE k # kc
      BY <2>2, <3>2, <3>4
    <3> QED
      BY <3>3, <3>4
  <2> QED
    BY <2>1, <2>2
<1> DEFINE g == IF gone THEN Redue(f, queue'[c], next.last, ok) ELSE f
<1>9. \/ flow'[k] = g[k]
      \/ net'[k].client = "closed" /\ net'[k].server = "closed" /\ flow'[k] = NoFlows
  <2>1. Remember(g) \/ (~gone /\ flow' = f)
    BY <1>2
  <2>2. ~gone => g = f
    OBVIOUS
  <2>3. CASE Remember(g)
    <3> HIDE DEF g
    <3> QED
      BY <2>3 DEF Remember, NoFlows
  <2>4. CASE ~gone /\ flow' = f
    BY <2>2, <2>4
  <2> QED
    BY <2>1, <2>3, <2>4
<1>10. g[k] = IF ok /\ k = opened + 1 THEN [f[k] EXCEPT !.up.due = due] ELSE f[k]
  <2>1. CASE ok
    <3>1. g = [f EXCEPT ![opened + 1].up.due = due]
      BY <1>2, <2>1 DEF Redue
    <3> HIDE DEF g, due
    <3> QED
      BY <1>1, <1>3, <2>1, <3>1
  <2>2. CASE ~ok
    BY <2>2 DEF Redue
  <2> QED
    BY <2>1, <2>2
<1> HIDE DEF g, due
<1>11. n[k] \in Sock /\ f[k] \in [up : Flow, down : Flow]
  BY <1>1
<1>12. CASE k = kc
  <2>1. n[k].client = "open" /\ n[k].server = net[k].server /\ g[k] = f[k]
    BY <1>1, <1>6, <1>10, <1>12
  <2>2. CASE gone
    <3>1. net'[k] = CloseClient(n[k])
      BY <1>8, <1>12, <2>2
    <3>2. net'[k].server = net[k].server
      BY <1>11, <2>1, <3>1, SockFacts
    <3>3. flow'[k] = f[k] \/ (net[k].server = "closed" /\ flow'[k] = NoFlows)
      BY <1>9, <2>1, <3>2
    <3> QED
      BY <1>6, <1>12, <2>2, <3>1, <3>2, <3>3
  <2>3. CASE ~gone
    <3>1. net'[k] = n[k]
      BY <1>8, <2>3
    <3>2. net'[k].client # "closed"
      BY <2>1, <3>1
    <3> QED
      BY <1>6, <1>9, <1>12, <2>1, <2>3, <3>1, <3>2
  <2> QED
    BY <2>2, <2>3
<1>13. CASE k # kc /\ ok /\ k = opened + 1
  <2>1. n[k] = net[k] /\ f[k] = flow[k]
    BY <1>1, <1>13
  <2>2. net'[k] = [n[k] EXCEPT !.owner = c, !.client = "open"]
    BY <1>2, <1>8, <1>13
  <2>3. /\ net'[k].owner = c /\ net'[k].client = "open" /\ net'[k].server = net[k].server
        /\ net'[k].up = net[k].up /\ net'[k].down = net[k].down
    BY <1>11, <2>1, <2>2 DEF Sock
  <2>4. flow'[k] = [f[k] EXCEPT !.up.due = due]
    BY <1>9, <1>10, <1>13, <2>3
  <2>5. /\ flow'[k].down = flow[k].down /\ flow'[k].up.put = flow[k].up.put
        /\ flow'[k].up.got = flow[k].up.got /\ flow'[k].up.due = due
    BY <1>11, <2>1, <2>4, ZenonT(60) DEF Flow
  <2> QED
    BY <1>7, <1>13, <2>3, <2>5 DEF due
<1>14. CASE k # kc /\ ~ (ok /\ k = opened + 1)
  <2>1. n[k] = net[k] /\ f[k] = flow[k] /\ g[k] = f[k] /\ net'[k] = n[k]
    BY <1>1, <1>8, <1>10, <1>14
  <2> QED
    BY <1>9, <1>14, <2>1
<1> QED
  BY <1>12, <1>13, <1>14

\* ... the ends, ...
LEMMA MovesEnds ==
    ASSUME IInv, NEW c \in Client, NEW n, NEW f, NEW next, NEW gone \in BOOLEAN,
           NEW ok \in BOOLEAN,
           Moves(c, n, f, next, gone, ok), Talks(c, n, f, next, gone)
    PROVE  ClientEnds' /\ ServerEnds' /\ Untouched' /\ SlotsAgree'
<1>1. /\ client'[c].conn = IF ok THEN opened + 1 ELSE IF gone THEN NoConn
                           ELSE client[c].conn
      /\ client'[c].last = next.last
      /\ client'[c].status \in {"Connecting", "Connected"} => client'[c].conn # NoConn
      /\ \A d \in Client \ {c} : client'[d] = client[d]
      /\ client[c].conn \in Ref /\ opened \in Nat
      /\ ok => opened + 1 \in Conn
  BY MovesTypes
<1>2. /\ opened' = opened + (IF ok THEN 1 ELSE 0)
      /\ ok => gone
      /\ \A e \in Endpoint \ {c} : queue'[e] = queue[e]
      /\ next.last <= Len(queue'[c])
      /\ UNCHANGED <<serverVars, mixed>>
  BY DEF Moves
<1>3. \A k \in Conn : net'[k].server = net[k].server
  BY MovesConn
<1>4. ASSUME NEW k \in Conn
      PROVE  /\ ok /\ k = opened + 1 => net'[k].client = "open" /\ net'[k].owner = c
             /\ k = client[c].conn /\ ~gone => net'[k].client = "open" /\ net'[k].owner = net[k].owner
             /\ k # client[c].conn /\ ~ (ok /\ k = opened + 1) => net'[k] = net[k]
             /\ k = client[c].conn => net'[k].client # "none" /\ net[k].client = "open"
  <2>1. /\ k = client[c].conn =>
                /\ net[k].client = "open"
                /\ ~Opens(k, ok)
                /\ gone => net'[k] = CloseClient(n[k])
                /\ ~gone => net'[k] = n[k]
        /\ k # client[c].conn /\ Opens(k, ok) =>
                net'[k].owner = c /\ net'[k].client = "open"
        /\ k # client[c].conn /\ ~Opens(k, ok) => net'[k] = net[k]
    BY MovesConn
  <2>2. k = client[c].conn => n[k].owner = net[k].owner /\ n[k].client = net[k].client
    BY DEF Talks
  <2>3. CloseClient(n[k]).client = "closed"
    <3>1. n[k] \in Sock
      BY DEF Talks
    <3> QED
      BY <3>1, SockFacts
  <2> QED
    BY <2>1, <2>2, <2>3 DEF Opens
<1>5. \A d \in Client : client[d].conn # NoConn =>
              /\ client[d].conn \in Conn
              /\ client[d].conn <= opened
              /\ net[client[d].conn].client = "open"
              /\ net[client[d].conn].owner = d
  <2>1. \A d \in Client : client[d].conn \in Ref
    BY DEF IInv, EndsInv, TypeInv, ClientType, ClientChannel
  <2> QED
    BY <2>1, ConnFacts DEF IInv, EndsInv, ClientEnds
<1>6. ClientEnds'
  <2> SUFFICES ASSUME NEW d \in Client
               PROVE  /\ client'[d].conn # NoConn =>
                            /\ client'[d].conn <= opened'
                            /\ net'[client'[d].conn].client = "open"
                            /\ net'[client'[d].conn].owner = d
                      /\ client'[d].status \in {"Connecting", "Connected"}
                            => client'[d].conn # NoConn
                      /\ client'[d].last <= Len(queue'[d])
    BY DEF ClientEnds
  <2>1. /\ client[d].status \in {"Connecting", "Connected"} => client[d].conn # NoConn
        /\ client[d].last <= Len(queue[d])
    BY DEF IInv, EndsInv, ClientEnds
  <2>2. CASE d # c
    <3>1. client'[d] = client[d] /\ queue'[d] = queue[d]
      BY <1>1, <1>2, <2>2 DEF Endpoint
    <3>2. ASSUME NEW k, k = client[d].conn, k # NoConn
          PROVE  k <= opened' /\ net'[k].client = "open" /\ net'[k].owner = d
      <4>1. k \in Conn /\ k \in Nat /\ k <= opened /\ net[k].client = "open" /\ net[k].owner = d
        BY <1>5, <3>2, ConnFacts
      <4>2. k # client[c].conn
        BY <1>5, <2>2, <3>2, <4>1
      <4>3. ~ (k = opened + 1)
        BY <1>1, <4>1
      <4>4. net'[k] = net[k]
        BY <1>4, <4>1, <4>2, <4>3
      <4> QED
        BY <1>1, <1>2, <4>1, <4>4
    <3> QED
      BY <2>1, <3>1, <3>2
  <2>3. CASE d = c
    <3>1. CASE ok
      <4>1. client'[d].conn = opened + 1 /\ opened' = opened + 1 /\ opened + 1 \in Conn
        BY <1>1, <1>2, <2>3, <3>1
      <4>2. net'[opened + 1].client = "open" /\ net'[opened + 1].owner = c
        BY <1>4, <3>1, <4>1
      <4> QED
        BY <1>1, <1>2, <2>3, <4>1, <4>2
    <3>2. CASE ~ok /\ gone
      BY <1>1, <1>2, <2>3, <3>2
    <3>3. CASE ~gone
      <4>1. client'[d].conn = client[d].conn /\ opened' = opened
        BY <1>1, <1>2, <2>3, <3>3
      <4>2. client[d].conn # NoConn =>
              /\ net'[client[d].conn].client = "open"
              /\ net'[client[d].conn].owner = d
        BY <1>4, <1>5, <2>3, <3>3
      <4> QED
        BY <1>1, <1>2, <1>5, <2>3, <4>1, <4>2
    <3> QED
      BY <3>1, <3>2, <3>3
  <2> QED
    BY <2>2, <2>3
<1>7. ServerEnds'
  <2>1. /\ slots' = slots /\ turn' = turn /\ at' = at /\ Used' = Used
    BY <1>2 DEF serverVars, Used
  <2>2. queue'[Server] = queue[Server]
    BY <1>2, ChannelAssumption DEF Endpoint
  <2>3. ASSUME NEW s \in Slot
        PROVE  IF slots[s].used
               THEN /\ slots[s].conn # NoConn
                    /\ net'[slots[s].conn].server = "open"
                    /\ slots[s].last <= Len(queue[Server])
                    /\ \A t \in Slot : slots[t].used /\ slots[t].conn = slots[s].conn => t = s
               ELSE slots[s].received = <<>>
    <3>1. IF slots[s].used
          THEN /\ slots[s].conn # NoConn
               /\ net[slots[s].conn].server = "open"
               /\ slots[s].last <= Len(queue[Server])
               /\ \A t \in Slot : slots[t].used /\ slots[t].conn = slots[s].conn => t = s
          ELSE slots[s].received = <<>>
      BY DEF IInv, EndsInv, ServerEnds
    <3>2. slots[s].conn \in Ref
      BY DEF IInv, EndsInv, TypeInv, ServerType, ServerSlot
    <3>3. slots[s].conn # NoConn => net'[slots[s].conn].server = net[slots[s].conn].server
      BY <1>3, <3>2, ConnFacts
    <3> QED
      BY <3>1, <3>3
  <2>4. turn = "clients" => at \in Used
    BY DEF IInv, EndsInv, ServerEnds
  <2> QED
    BY <2>1, <2>2, <2>3, <2>4 DEF ServerEnds
<1>8. Untouched'
  <2> SUFFICES ASSUME NEW k \in Conn
               PROVE  /\ net'[k].client = "none" <=> k > opened'
                      /\ net'[k].client = "none" => flow'[k].up.put = <<>>
                      /\ net'[k].server = "none" => flow'[k].down.put = <<>>
    BY DEF Untouched
  <2>1. /\ net[k].client = "none" <=> k > opened
        /\ net[k].client = "none" => flow[k].up.put = <<>>
        /\ net[k].server = "none" => flow[k].down.put = <<>>
    BY DEF IInv, EndsInv, Untouched
  <2>2. k \in Nat
    BY ConnFacts
  <2>3. k = client[c].conn => k <= opened
    BY <1>5, ConnFacts
  <2>4. /\ k = client[c].conn => flow'[k] = f[k] \/ flow'[k] = NoFlows
        /\ k # client[c].conn /\ Opens(k, ok) =>
                /\ flow'[k].down = flow[k].down /\ net'[k].client = "open"
        /\ k # client[c].conn /\ ~Opens(k, ok) =>
                /\ net'[k] = net[k]
                /\ flow'[k] = flow[k] \/ flow'[k] = NoFlows
    BY MovesConn
  <2>5. k = client[c].conn => f[k].down.put = flow[k].down.put
    BY DEF Talks
  <2>6. net'[k].server = net[k].server
    BY <1>3
  <2>7. NoFlows.up.put = <<>> /\ NoFlows.down.put = <<>>
    BY NoFlowFacts
  <2>8. CASE k = client[c].conn
    <3>1. net'[k].client # "none" /\ ~ (k > opened')
      BY <1>1, <1>2, <1>4, <2>2, <2>3, <2>8
    <3> QED
      BY <2>1, <2>4, <2>5, <2>6, <2>7, <2>8, <3>1
  <2>9. CASE k # client[c].conn /\ ok /\ k = opened + 1
    <3>1. ~ (k > opened')
      BY <1>1, <1>2, <2>9
    <3> QED
      BY <2>1, <2>4, <2>6, <2>9, <3>1 DEF Opens
  <2>10. CASE k # client[c].conn /\ ~ (ok /\ k = opened + 1)
    <3>1. k > opened <=> k > opened'
      BY <1>1, <1>2, <2>2, <2>10
    <3> QED
      BY <2>1, <2>4, <2>6, <2>7, <2>10, <3>1 DEF Opens
  <2> QED
    BY <2>8, <2>9, <2>10
<1>9. SlotsAgree'
  BY <1>2, SMTT(40) DEF IInv, SlotsAgree, serverVars, Used
<1> QED
  BY <1>6, <1>7, <1>8, <1>9

\* ... the messages of the frame, ...
LEMMA MovesSkipsNothing ==
    ASSUME IInv, NEW c \in Client, NEW n, NEW f, NEW next, NEW gone \in BOOLEAN,
           NEW ok \in BOOLEAN,
           Moves(c, n, f, next, gone, ok), Talks(c, n, f, next, gone)
    PROVE  NothingSkipped'
<1>1. /\ client'[c].conn = IF ok THEN opened + 1 ELSE IF gone THEN NoConn
                           ELSE client[c].conn
      /\ client'[c].last = next.last
      /\ \A d \in Client \ {c} : client'[d] = client[d]
      /\ client[c].conn \in Ref /\ opened \in Nat
      /\ ok => opened + 1 \in Conn
      /\ TypeInv'
  BY MovesTypes
<1>2. /\ opened' = opened + (IF ok THEN 1 ELSE 0)
      /\ ok => gone
      /\ \A e \in Endpoint \ {c} : queue'[e] = queue[e]
      /\ UNCHANGED <<serverVars, mixed>>
  BY DEF Moves
<1>3. \A s \in Slot : slots[s].used =>
        slots[s].conn \in Conn /\ net[slots[s].conn].server = "open"
  <2>1. \A s \in Slot : slots[s].conn \in Ref
    BY DEF IInv, EndsInv, TypeInv, ServerType, ServerSlot
  <2> QED
    BY <2>1, ConnFacts DEF IInv, EndsInv, ServerEnds
<1>4. ASSUME NEW s \in Slot, slots[s].used, turn # "spin", NEW k \in Conn, k = slots[s].conn
      PROVE  flow'[k].down.put \o Numbers(Addressed(Rest(queue[Server], slots[s].last), slots[s].id))
                 = flow'[k].down.due
  <2>1. flow[k].down.put \o Numbers(Addressed(Rest(queue[Server], slots[s].last), slots[s].id))
                 = flow[k].down.due
    BY <1>4, Zenon DEF IInv, NothingSkipped, Used
  <2>2. net[k].server = "open"
    BY <1>3, <1>4
  <2>3. /\ k = client[c].conn => flow'[k] = f[k] \/ net[k].server = "closed"
        /\ k # client[c].conn /\ Opens(k, ok) => flow'[k].down = flow[k].down
        /\ k # client[c].conn /\ ~Opens(k, ok) =>
              flow'[k] = flow[k] \/ net[k].server = "closed"
    BY MovesConn
  <2>4. k = client[c].conn => /\ f[k].down.put = flow[k].down.put
                              /\ f[k].down.due = flow[k].down.due
    BY DEF Talks
  <2>5. flow'[k].down.put = flow[k].down.put /\ flow'[k].down.due = flow[k].down.due
    BY <2>2, <2>3, <2>4
  <2> QED
    BY <2>1, <2>5
<1>5. /\ slots' = slots /\ turn' = turn /\ Used' = Used /\ queue'[Server] = queue[Server]
  BY <1>2, ChannelAssumption DEF serverVars, Used, Endpoint
<1>6. \A s \in Used' :
         turn' # "spin" =>
               flow'[slots'[s].conn].down.put
                  \o Numbers(Addressed(Rest(queue'[Server], slots'[s].last), slots'[s].id))
                 = flow'[slots'[s].conn].down.due
  BY <1>3, <1>4, <1>5, ZenonT(60) DEF Used
<1>7. \A d \in Client : client[d].conn # NoConn =>
              /\ client[d].conn \in Conn
              /\ client[d].conn <= opened
              /\ net[client[d].conn].client = "open"
              /\ net[client[d].conn].owner = d
  <2>1. \A d \in Client : client[d].conn \in Ref
    BY DEF IInv, EndsInv, TypeInv, ClientType, ClientChannel
  <2> QED
    BY <2>1, ConnFacts DEF IInv, EndsInv, ClientEnds
<1>10. ASSUME NEW k \in Conn
       PROVE  k # client[c].conn /\ Opens(k, ok) =>
                /\ net[k].client = "none"
                /\ flow'[k].up.put = flow[k].up.put
                /\ flow'[k].up.due = Numbers(Rest(queue'[c], next.last))
  BY MovesConn
<1>8. ASSUME NEW d \in Client, NEW k \in Conn, k = client'[d].conn
      PROVE  flow'[k].up.put \o Numbers(Rest(queue'[d], client'[d].last)) = flow'[k].up.due
  <2>0. k # NoConn /\ k \in Nat
    BY ConnFacts
  <2>1. CASE d # c
    <3>1. client'[d] = client[d] /\ queue'[d] = queue[d] /\ k = client[d].conn
      BY <1>1, <1>2, <1>8, <2>1 DEF Endpoint
    <3>2. k # client[c].conn /\ k # opened + 1 /\ net[k].client = "open"
      BY <1>1, <1>7, <2>0, <2>1, <3>1
    <3>3. flow'[k] = flow[k]
      <4>2. k # client[c].conn /\ ~Opens(k, ok) => flow'[k] = flow[k] \/ net[k].client = "closed"
        BY MovesConn
      <4>1. flow'[k] = flow[k] \/ net[k].client = "closed"
        BY <3>2, <4>2 DEF Opens
      <4> QED
        BY <3>2, <4>1
    <3>4. flow[k].up.put \o Numbers(Rest(queue[d], client[d].last)) = flow[k].up.due
      BY <2>0, <3>1, Zenon DEF IInv, NothingSkipped
    <3> QED
      BY <3>1, <3>3, <3>4, Zenon
  <2>2. CASE d = c /\ ok
    <3>1. k = opened + 1 /\ k # client[c].conn
      BY <1>1, <1>7, <1>8, <2>0, <2>2
    <3>2. /\ net[k].client = "none" /\ flow'[k].up.put = flow[k].up.put
          /\ flow'[k].up.due = Numbers(Rest(queue'[c], next.last))
      BY <1>10, <2>2, <3>1 DEF Opens
    <3>3. flow[k].up.put = <<>>
      BY <3>2 DEF IInv, EndsInv, Untouched
    <3>4. flow'[k].up.due \in Seq(Nat)
      BY <1>1 DEF TypeInv, NetType, Flow
    <3>5. \A q \in Seq(Nat) : <<>> \o q = q
      OBVIOUS
    <3> QED
      BY <1>1, <2>2, <3>2, <3>3, <3>4, <3>5
  <2>3. CASE d = c /\ ~ok
    <3>1. ~gone /\ k = client[c].conn
      BY <1>1, <1>8, <2>0, <2>3
    <3>2. flow'[k] = f[k]
      BY <3>1, MovesConn, SMTT(40)
    <3>3. f[k].up.put \o Numbers(Rest(queue'[c], next.last)) = f[k].up.due
      BY <3>1 DEF Talks
    <3> QED
      BY <1>1, <2>3, <3>2, <3>3
  <2> QED
    BY <2>1, <2>2, <2>3, Zenon
<1>9. \A d \in Client : client'[d].conn \in Ref
  BY <1>1 DEF TypeInv, ClientType, ClientChannel
<1> QED
  BY <1>6, <1>8, <1>9, ConnFacts DEF NothingSkipped

\* ... the streams ...
LEMMA MovesHolds ==
    ASSUME IInv, NEW c \in Client, NEW n, NEW f, NEW next, NEW gone \in BOOLEAN,
           NEW ok \in BOOLEAN,
           Moves(c, n, f, next, gone, ok), Talks(c, n, f, next, gone)
    PROVE  UpHolds' /\ DownHolds'
<1>1. /\ client'[c].conn = IF ok THEN opened + 1 ELSE IF gone THEN NoConn
                           ELSE client[c].conn
      /\ gone => client'[c].encoded = <<>> /\ client'[c].received = <<>>
      /\ ~gone => client'[c] = next
      /\ \A d \in Client \ {c} : client'[d] = client[d]
      /\ client[c].conn \in Ref /\ opened \in Nat
  BY MovesTypes
<1>2. ok => gone /\ UNCHANGED <<serverVars, mixed>>
  BY DEF Moves
<1>3. slots' = slots /\ Used' = Used /\ mixed' = mixed
  BY DEF Moves, serverVars, Used
<1>4. ASSUME NEW k \in Conn
      PROVE  /\ ServerReads(k)' = ServerReads(k)
             /\ ServerWrites(k)' = ServerWrites(k)
  <2>1. net'[k].server = net[k].server
    BY MovesConn
  <2> QED
    BY <1>3, <2>1 DEF ServerReads, ServerWrites
<1>5. \A d \in Client : client[d].conn # NoConn =>
              /\ client[d].conn \in Conn
              /\ client[d].conn <= opened
              /\ net[client[d].conn].client = "open"
              /\ net[client[d].conn].owner = d
  <2>1. \A d \in Client : client[d].conn \in Ref
    BY DEF IInv, EndsInv, TypeInv, ClientType, ClientChannel
  <2> QED
    BY <2>1, ConnFacts DEF IInv, EndsInv, ClientEnds
\* Who is at the connection afterwards.
<1>6. ASSUME NEW k \in Conn, k = client[c].conn
      PROVE  /\ ClientReads(k)' \subseteq (IF gone THEN {} ELSE {next.received})
             /\ ClientWrites(k)' \subseteq (IF gone THEN {} ELSE {next.encoded})
  <2>1. net'[k].client # "none"
    <3>1. /\ net[k].client = "open"
          /\ gone => net'[k] = CloseClient(n[k])
          /\ ~gone => net'[k] = n[k]
      BY <1>6, MovesConn
    <3>2. n[k].client = net[k].client /\ n[k] \in Sock
      BY <1>6 DEF Talks
    <3> QED
      BY <3>1, <3>2, SockFacts
  <2>2. k \in Nat /\ k # NoConn
    BY ConnFacts
  <2>3. ASSUME NEW d \in Client, client'[d].conn = k
        PROVE  d = c /\ ~gone /\ client'[d] = next
    <3>1. CASE d # c
      BY <1>1, <1>5, <1>6, <2>2, <2>3, <3>1
    <3>2. CASE d = c
      <4>1. k # opened + 1
        BY <1>1, <1>5, <1>6, <2>2
      <4> QED
        BY <1>1, <1>2, <2>2, <2>3, <3>2, <4>1
    <3> QED
      BY <3>1, <3>2
  <2>4. /\ ClientReads(k)' = {client'[d].received : d \in {e \in Client : client'[e].conn = k}}
        /\ ClientWrites(k)' = {client'[d].encoded : d \in {e \in Client : client'[e].conn = k}}
    BY <2>1 DEF ClientReads, ClientWrites
  <2> QED
    BY <2>3, <2>4
<1>7. ASSUME NEW k \in Conn, k # client[c].conn
      PROVE  /\ ClientReads(k)' \subseteq ClientReads(k)
             /\ ClientWrites(k)' \subseteq ClientWrites(k)
  <2>1. k \in Nat /\ k # NoConn
    BY ConnFacts
  <2>8. /\ k # client[c].conn /\ Opens(k, ok) => net[k].client = "none" /\ net'[k].client = "open"
        /\ k # client[c].conn /\ ~Opens(k, ok) => net'[k] = net[k]
    BY MovesConn
  <2>2. /\ ok /\ k = opened + 1 => net[k].client = "none" /\ net'[k].client = "open"
        /\ ~ (ok /\ k = opened + 1) => net'[k] = net[k]
    BY <1>7, <2>8 DEF Opens
  <2>3. ASSUME NEW d \in Client, client'[d].conn = k
        PROVE  \/ client[d].conn = k /\ client'[d] = client[d]
               \/ /\ net[k].client = "none"
                  /\ client'[d].received = <<>> /\ client'[d].encoded = <<>>
    <3>1. CASE d # c
      BY <1>1, <2>3, <3>1
    <3>2. CASE d = c
      <4>1. ok /\ k = opened + 1
        BY <1>1, <1>7, <2>1, <2>3, <3>2
      <4> QED
        BY <1>1, <1>2, <2>2, <3>2, <4>1
    <3> QED
      BY <3>1, <3>2
  <2>4. net'[k].client = "none" => net[k].client = "none"
    BY <2>2
  <2>5. /\ ClientReads(k)' = {client'[d].received : d \in {e \in Client : client'[e].conn = k}}
                               \union (IF net'[k].client = "none" THEN {<<>>} ELSE {})
        /\ ClientWrites(k)' = {client'[d].encoded : d \in {e \in Client : client'[e].conn = k}}
                               \union (IF net'[k].client = "none" THEN {<<>>} ELSE {})
    BY DEF ClientReads, ClientWrites
  <2>6. ASSUME NEW x \in ClientReads(k)' PROVE x \in ClientReads(k)
    BY <2>3, <2>4, <2>5, <2>6 DEF ClientReads
  <2>7. ASSUME NEW x \in ClientWrites(k)' PROVE x \in ClientWrites(k)
    BY <2>3, <2>4, <2>5, <2>7 DEF ClientWrites
  <2> QED
    BY <2>6, <2>7
\* When both sides have closed the connection nobody is there.
<1>8. ASSUME NEW k \in Conn, net[k].server = "closed"
      PROVE  ServerReads(k) = {} /\ ServerWrites(k) = {}
  <2>1. \A s \in Used : slots[s].conn # k
    BY <1>8 DEF IInv, EndsInv, ServerEnds, Used
  <2> QED
    BY <1>8, <2>1 DEF ServerReads, ServerWrites
<1>9. ASSUME NEW k \in Conn, net[k].client = "closed"
      PROVE  ClientReads(k) = {} /\ ClientWrites(k) = {}
  <2>1. \A d \in Client : client[d].conn # k
    BY <1>5, <1>9, ConnFacts
  <2> QED
    BY <1>9, <2>1 DEF ClientReads, ClientWrites
\* With nobody there and no history everything holds.
<1>10. ASSUME NEW k \in Conn, NEW w, NEW V
       PROVE  Holds(k, NoFlow, w, {}, V)
  <2>1. Holds(k, NoFlow, <<>>, {}, {})
    BY NoFlowFacts, HoldsNothing
  <2> QED
    BY <2>1 DEF Holds
\* What the step does to a connection.
<1>13. ASSUME NEW k \in Conn
       PROVE  /\ k = client[c].conn =>
                /\ gone => /\ net'[k] = CloseClient(n[k])
                           /\ \/ flow'[k] = f[k]
                              \/ net[k].server = "closed" /\ flow'[k] = NoFlows
                /\ ~gone => net'[k] = n[k] /\ flow'[k] = f[k]
              /\ k # client[c].conn =>
                /\ net'[k].up = net[k].up /\ net'[k].down = net[k].down
                /\ \/ /\ flow'[k].down = flow[k].down
                      /\ flow'[k].up.put = flow[k].up.put
                      /\ flow'[k].up.got = flow[k].up.got
                   \/ /\ net[k].client = "closed" /\ net[k].server = "closed"
                      /\ flow'[k] = NoFlows
  <2>1. CASE k = client[c].conn
    <3>1. k = client[c].conn =>
                /\ gone => /\ net'[k] = CloseClient(n[k])
                           /\ \/ flow'[k] = f[k]
                              \/ net[k].server = "closed" /\ flow'[k] = NoFlows
                /\ ~gone => net'[k] = n[k] /\ flow'[k] = f[k]
      BY MovesConn
    <3> QED
      BY <2>1, <3>1
  <2>2. CASE k # client[c].conn
    <3>1. /\ k # client[c].conn /\ Opens(k, ok) =>
                /\ net'[k].up = net[k].up /\ net'[k].down = net[k].down
                /\ flow'[k].down = flow[k].down
                /\ flow'[k].up.put = flow[k].up.put /\ flow'[k].up.got = flow[k].up.got
          /\ k # client[c].conn /\ ~Opens(k, ok) =>
                /\ net'[k] = net[k]
                /\ \/ flow'[k] = flow[k]
                   \/ /\ net[k].client = "closed" /\ net[k].server = "closed"
                      /\ flow'[k] = NoFlows
      BY MovesConn
    <3> QED
      BY <2>2, <3>1
  <2> QED
    BY <2>1, <2>2
<1>11. ASSUME NEW k \in Conn, <<k, "up">> \notin mixed
       PROVE  Holds(k, flow'[k].up, net'[k].up, ServerReads(k), ClientWrites(k)')
  <2>0. Holds(k, flow[k].up, net[k].up, ServerReads(k), ClientWrites(k))
    BY <1>11 DEF IInv, UpHolds
  <2>1. CASE k = client[c].conn
    <3>1. Holds(k, f[k].up, n[k].up, ServerReads(k), IF gone THEN {} ELSE {next.encoded})
      BY <1>11, <2>1 DEF Talks
    <3>2. n[k] \in Sock /\ n[k].server = net[k].server
      BY <2>1 DEF Talks
    <3>3. CASE net[k].server = "closed"
      <4>1. flow'[k] = f[k] \/ flow'[k] = NoFlows
        BY <2>1, <1>13
      <4>2. ServerReads(k) = {}
        BY <1>8, <3>3
      <4>3. CASE flow'[k] = NoFlows
        BY <1>10, <4>2, <4>3, NoFlowFacts
      <4>4. CASE flow'[k] = f[k]
        BY <3>1, <4>2, <4>4 DEF Holds
      <4> QED
        BY <4>1, <4>3, <4>4
    <3>4. CASE net[k].server # "closed"
      <4>1. flow'[k] = f[k] /\ net'[k].up = n[k].up
        <5>1. CASE gone
          <6>1. net'[k] = CloseClient(n[k]) /\ flow'[k] = f[k]
            BY <2>1, <3>4, <5>1, <1>13
          <6> QED
            BY <3>2, <3>4, <6>1, SockFacts
        <5>2. CASE ~gone
          BY <2>1, <5>2, <1>13
        <5> QED
          BY <5>1, <5>2
      <4> QED
        BY <1>6, <2>1, <3>1, <4>1, HoldsFewer
    <3> QED
      BY <3>3, <3>4
  <2>2. CASE k # client[c].conn
    <3>1. /\ net'[k].up = net[k].up
          /\ \/ flow'[k].up.put = flow[k].up.put /\ flow'[k].up.got = flow[k].up.got
             \/ net[k].server = "closed" /\ flow'[k] = NoFlows
      BY <2>2, <1>13
    <3>2. CASE flow'[k].up.put = flow[k].up.put /\ flow'[k].up.got = flow[k].up.got
      BY <1>7, <2>0, <2>2, <3>1, <3>2, HoldsFewer
    <3>3. CASE net[k].server = "closed" /\ flow'[k] = NoFlows
      <4>1. ServerReads(k) = {} /\ flow'[k].up = NoFlow
        BY <1>8, <3>3, NoFlowFacts
      <4> QED
        BY <1>10, <4>1
    <3> QED
      BY <3>1, <3>2, <3>3
  <2> QED
    BY <2>1, <2>2
<1>12. ASSUME NEW k \in Conn, <<k, "down">> \notin mixed
       PROVE  Holds(k, flow'[k].down, net'[k].down, ClientReads(k)', ServerWrites(k))
  <2>0. Holds(k, flow[k].down, net[k].down, ClientReads(k), ServerWrites(k))
    BY <1>12 DEF IInv, DownHolds
  <2>1. CASE k = client[c].conn
    <3>1. Holds(k, f[k].down, n[k].down, IF gone THEN {} ELSE {next.received}, ServerWrites(k))
      BY <1>12, <2>1 DEF Talks
    <3>3. CASE gone
      <4>1. flow'[k] = f[k] \/ flow'[k] = NoFlows
        BY <2>1, <3>3, <1>13
      <4>2. ClientReads(k)' = {}
        BY <1>6, <2>1, <3>3
      <4>3. CASE flow'[k] = NoFlows
        BY <1>10, <4>2, <4>3, NoFlowFacts
      <4>4. CASE flow'[k] = f[k]
        BY <3>1, <4>2, <4>4 DEF Holds
      <4> QED
        BY <4>1, <4>3, <4>4
    <3>4. CASE ~gone
      <4>1. flow'[k] = f[k] /\ net'[k] = n[k]
        BY <2>1, <3>4, <1>13
      <4> QED
        BY <1>6, <2>1, <3>1, <4>1, HoldsFewer
    <3> QED
      BY <3>3, <3>4
  <2>2. CASE k # client[c].conn
    <3>1. /\ net'[k].down = net[k].down
          /\ \/ flow'[k].down = flow[k].down
             \/ net[k].client = "closed" /\ flow'[k] = NoFlows
      BY <2>2, <1>13
    <3>2. CASE flow'[k].down = flow[k].down
      BY <1>7, <2>0, <2>2, <3>1, <3>2, HoldsFewer
    <3>3. CASE net[k].client = "closed" /\ flow'[k] = NoFlows
      <4>1. ClientReads(k)' = {}
        BY <1>7, <1>9, <2>2, <3>3
      <4> QED
        BY <1>10, <3>3, <4>1, NoFlowFacts
    <3> QED
      BY <3>1, <3>2, <3>3
  <2> QED
    BY <2>1, <2>2
<1> QED
  BY <1>3, <1>4, <1>11, <1>12 DEF UpHolds, DownHolds

\* ... and so the invariant.
LEMMA MovesInv ==
    ASSUME IInv, NEW c \in Client, NEW n, NEW f, NEW next, NEW gone \in BOOLEAN,
           NEW ok \in BOOLEAN,
           Moves(c, n, f, next, gone, ok), Talks(c, n, f, next, gone)
    PROVE  IInv'
<1>1. TypeInv'
  BY MovesTypes
<1>2. ClientEnds' /\ ServerEnds' /\ Untouched' /\ SlotsAgree'
  BY MovesEnds
<1>3. NothingSkipped'
  BY MovesSkipsNothing
<1>4. UpHolds' /\ DownHolds'
  BY MovesHolds
<1> QED
  BY <1>1, <1>2, <1>3, <1>4 DEF IInv, EndsInv

\* Numbers of messages one behind the other.
LEMMA NumbersFacts ==
    /\ Numbers(<<>>) = <<>>
    /\ \A p, q, r \in Seq(Nat) : (p \o q) \o r = p \o (q \o r)
    /\ \A p \in Seq(Nat) : p \o <<>> = p /\ <<>> \o p = p
<1>1. <<>> \in Seq(Message) /\ Len(<<>>) = 0 /\ 1..0 = {}
  OBVIOUS
<1>2. Fitting(<<>>) = <<>>
  <2>1. Fitting(<<>>) = Chosen(<<>>, {j \in 1..0 : <<>>[j].fits})
    BY <1>1 DEF Fitting
  <2> QED
    BY <1>1, <2>1, ChosenAll
<1>3. Numbers(<<>>) \in Seq(Nat) /\ Len(Numbers(<<>>)) = 0
  BY <1>1, <1>2, FittingType
<1>4. Numbers(<<>>) = <<>>
  BY <1>3
<1>5. ASSUME NEW p \in Seq(Nat), NEW q \in Seq(Nat), NEW r \in Seq(Nat)
      PROVE  (p \o q) \o r = p \o (q \o r)
  BY ONLY ConcatAssociative, SMTT(40)
<1>6. \A p \in Seq(Nat) : p \o <<>> = p /\ <<>> \o p = p
  OBVIOUS
<1> QED
  BY <1>4, <1>5, <1>6

\* Each end that has a connection has an open one.
LEMMA EndTypes ==
    ASSUME IInv
    PROVE  /\ \A c \in Client : client[c] \in ClientChannel
           /\ \A c \in Client : client[c].conn # NoConn =>
                 /\ client[c].conn \in Conn
                 /\ net[client[c].conn].client = "open"
           /\ \A s \in Slot : slots[s] \in ServerSlot
           /\ \A s \in Slot : slots[s].used => slots[s].conn \in Conn
           /\ \A k \in Conn : net[k] \in Sock /\ flow[k] \in [up : Flow, down : Flow]
           /\ \A k \in Conn : /\ ServerReads(k) \in SUBSET Seq(Piece)
                              /\ ServerWrites(k) \in SUBSET Seq(Piece)
                              /\ ClientReads(k) \in SUBSET Seq(Piece)
                              /\ ClientWrites(k) \in SUBSET Seq(Piece)
           /\ \A k \in Conn : net[k].server = "closed" => ServerReads(k) = {} /\ ServerWrites(k) = {}
           /\ \A k \in Conn : net[k].client = "closed" => ClientReads(k) = {} /\ ClientWrites(k) = {}
<1>1. /\ \A c \in Client : client[c] \in ClientChannel
      /\ \A s \in Slot : slots[s] \in ServerSlot
      /\ \A k \in Conn : net[k] \in Sock /\ flow[k] \in [up : Flow, down : Flow]
  BY DEF IInv, EndsInv, TypeInv, ClientType, ServerType, NetType
<1>2. /\ \A c \in Client : client[c].conn \in Ref /\ client[c].received \in Seq(Piece)
                           /\ client[c].encoded \in Seq(Piece)
      /\ \A s \in Slot : slots[s].conn \in Ref /\ slots[s].received \in Seq(Piece)
                         /\ slots[s].encoded \in Seq(Piece)
  BY <1>1 DEF ClientChannel, ServerSlot
<1>3. \A c \in Client : client[c].conn # NoConn =>
         client[c].conn \in Conn /\ net[client[c].conn].client = "open"
  BY <1>2, ConnFacts DEF IInv, EndsInv, ClientEnds
<1>4. \A s \in Slot : slots[s].used =>
         slots[s].conn \in Conn /\ net[slots[s].conn].server = "open"
  BY <1>2, ConnFacts DEF IInv, EndsInv, ServerEnds
<1>5. <<>> \in Seq(Piece)
  OBVIOUS
<1>6. ASSUME NEW k \in Conn
      PROVE  /\ ServerReads(k) \in SUBSET Seq(Piece)
             /\ ServerWrites(k) \in SUBSET Seq(Piece)
             /\ ClientReads(k) \in SUBSET Seq(Piece)
             /\ ClientWrites(k) \in SUBSET Seq(Piece)
  BY <1>2, <1>5 DEF ServerReads, ServerWrites, ClientReads, ClientWrites, Used
<1>7. ASSUME NEW k \in Conn, net[k].server = "closed"
      PROVE  ServerReads(k) = {} /\ ServerWrites(k) = {}
  <2>1. \A s \in Used : slots[s].conn # k
    BY <1>4, <1>7 DEF Used
  <2> QED
    BY <1>7, <2>1 DEF ServerReads, ServerWrites
<1>8. ASSUME NEW k \in Conn, net[k].client = "closed"
      PROVE  ClientReads(k) = {} /\ ClientWrites(k) = {}
  <2>1. \A d \in Client : client[d].conn # k
    BY <1>3, <1>8, ConnFacts
  <2> QED
    BY <1>8, <2>1 DEF ClientReads, ClientWrites
<1> QED
  BY <1>1, <1>3, <1>4, <1>6, <1>7, <1>8

\* What was due, and what the new frame adds.
LEMMA DueFacts ==
    ASSUME NEW w \in Seq(Nat), NEW p \in Seq(Message), NEW due, due = w
    PROVE  w \o Numbers(Rest(p, Begin(p))) = due \o Numbers(p)
  BY RestOfBegin

\* The begin of a call of a client.
LEMMA BeginsFacts ==
    ASSUME IInv, NEW c \in Client, NEW ms \in Made(c), NEW newFrame \in BOOLEAN,
           Begins(c, ms, newFrame)
    PROVE  /\ QueueType'
           /\ \A e \in Endpoint \ {c} : queue'[e] = queue[e]
           /\ queue'[c] \in Seq(Message)
           /\ Begun(c, ms, newFrame) \in ClientChannel
           /\ Begun(c, ms, newFrame).conn = client[c].conn
           /\ Begun(c, ms, newFrame).status = client[c].status
           /\ Begun(c, ms, newFrame).encoded = client[c].encoded
           /\ Begun(c, ms, newFrame).received = client[c].received
           /\ Begun(c, ms, newFrame).last \in 0..Len(queue'[c])
           /\ Due(c, ms, newFrame) \in [Conn -> [up : Flow, down : Flow]]
           /\ \A k \in Conn :
                 /\ Due(c, ms, newFrame)[k].down = flow[k].down
                 /\ Due(c, ms, newFrame)[k].up.put = flow[k].up.put
                 /\ Due(c, ms, newFrame)[k].up.got = flow[k].up.got
                 /\ k # client[c].conn => Due(c, ms, newFrame)[k] = flow[k]
                 /\ k = client[c].conn =>
                       flow[k].up.put \o Numbers(Rest(queue'[c], Begun(c, ms, newFrame).last))
                         = Due(c, ms, newFrame)[k].up.due
<1> DEFINE p == pending[c] \o ms
           ch == Begun(c, ms, newFrame)
           kc == client[c].conn
           F == Due(c, ms, newFrame)
<1>1. /\ Produce(c, ms, newFrame)
      /\ newFrame => client[c].last = 0
  BY DEF Begins
<1>2. TypeInv /\ c \in Endpoint
  BY DEF IInv, EndsInv, Endpoint
<1>3. /\ QueueType'
      /\ p \in Seq(Message)
      /\ queue'[c] = IF newFrame THEN p ELSE queue[c]
      /\ \A e \in Endpoint \ {c} : queue'[e] = queue[e]
  BY <1>1, <1>2, ProduceType
<1>4. client[c] \in ClientChannel /\ client[c].last <= Len(queue[c])
      /\ queue[c] \in Seq(Message)
  BY <1>2, EndTypes DEF IInv, EndsInv, ClientEnds, TypeInv, QueueType
<1> HIDE DEF p
<1>5. Begin(p) \in 0..Len(p) /\ Len(p) \in Nat
  BY <1>3, RestOfBegin
<1>6. ch = [client[c] EXCEPT !.begun = FALSE,
                             !.last = IF newFrame THEN Begin(p) ELSE client[c].last]
  BY DEF Begun, p
<1>7. /\ ch \in ClientChannel
      /\ ch.conn = client[c].conn /\ ch.status = client[c].status
      /\ ch.encoded = client[c].encoded /\ ch.received = client[c].received
      /\ ch.last = IF newFrame THEN Begin(p) ELSE client[c].last
  <2> DEFINE l == IF newFrame THEN Begin(p) ELSE client[c].last
  <2>1. l \in Nat
    BY <1>4, <1>5 DEF ClientChannel
  <2> HIDE DEF ch, l
  <2>2. ch = [client[c] EXCEPT !.begun = FALSE, !.last = l]
    BY <1>6 DEF l
  <2>3. /\ ch \in ClientChannel
        /\ ch.conn = client[c].conn /\ ch.status = client[c].status
        /\ ch.encoded = client[c].encoded /\ ch.received = client[c].received
        /\ ch.last = l
    BY <1>4, <2>1, <2>2 DEF ClientChannel
  <2> QED
    BY <2>3 DEF l
<1> HIDE DEF ch
<1>8. ch.last \in 0..Len(queue'[c])
  <2>1. client[c].last \in Nat /\ Len(queue[c]) \in Nat
    BY <1>4 DEF ClientChannel
  <2> QED
    BY <1>3, <1>4, <1>5, <1>7, <2>1
<1>9. /\ F = IF newFrame /\ kc # NoConn
             THEN [flow EXCEPT ![kc].up.due = @ \o Numbers(p)] ELSE flow
      /\ flow \in [Conn -> [up : Flow, down : Flow]]
      /\ kc # NoConn => kc \in Conn
  BY <1>2, EndTypes DEF Due, p, TypeInv, NetType
<1> HIDE DEF F, kc
<1>10. Numbers(p) \in Seq(Nat)
  BY <1>3, FittingType
<1>11. /\ F \in [Conn -> [up : Flow, down : Flow]]
       /\ \A k \in Conn :
             /\ F[k].down = flow[k].down
             /\ F[k].up.put = flow[k].up.put
             /\ F[k].up.got = flow[k].up.got
             /\ F[k].up.due = IF newFrame /\ k = kc THEN flow[k].up.due \o Numbers(p)
                              ELSE flow[k].up.due
             /\ k # kc => F[k] = flow[k]
  <2>1. CASE ~ (newFrame /\ kc # NoConn)
    BY <1>9, <2>1, ConnFacts
  <2>2. CASE newFrame /\ kc # NoConn
    <3>1. kc \in Conn
      BY <1>9, <2>2
    <3>2. flow[kc].up.due \o Numbers(p) \in Seq(Nat)
      BY <1>9, <1>10, <3>1, ConcatProperties DEF Flow
    <3> DEFINE g == [flow[kc] EXCEPT !.up.due = flow[kc].up.due \o Numbers(p)]
    <3>3. F = [flow EXCEPT ![kc] = g]
      BY <1>9, <2>2, <3>1
    <3>4. /\ g \in [up : Flow, down : Flow]
          /\ g.down = flow[kc].down /\ g.up.put = flow[kc].up.put
          /\ g.up.got = flow[kc].up.got /\ g.up.due = flow[kc].up.due \o Numbers(p)
      <4>1. flow[kc] \in [up : Flow, down : Flow]
        BY <1>9, <3>1
      <4> QED
        BY <3>2, <4>1 DEF Flow
    <3> HIDE DEF g
    <3> QED
      BY <1>9, <2>2, <3>1, <3>3, <3>4
  <2> QED
    BY <2>1, <2>2
<1>12. ASSUME NEW k \in Conn, k = kc
       PROVE  flow[k].up.put \o Numbers(Rest(queue'[c], ch.last)) = F[k].up.due
  <2>1. flow[k].up.put \o Numbers(Rest(queue[c], client[c].last)) = flow[k].up.due
    <3>1. k # NoConn
      BY ConnFacts
    <3> QED
      BY <1>12, <3>1 DEF IInv, NothingSkipped, kc
  <2>2. flow[k].up.put \in Seq(Nat)
    BY <1>9 DEF Flow
  <2>3. CASE newFrame
    <3>1. Rest(queue[c], client[c].last) = <<>>
      BY <1>1, <2>3 DEF Rest
    <3>2. flow[k].up.due = flow[k].up.put
      BY <2>1, <2>2, <3>1, NumbersFacts
    <3>3. flow[k].up.put \o Numbers(Rest(p, Begin(p))) = flow[k].up.due \o Numbers(p)
      BY <1>3, <2>2, <3>2, DueFacts
    <3> QED
      BY <1>3, <1>7, <1>11, <1>12, <2>3, <3>3
  <2>4. CASE ~newFrame
    BY <1>3, <1>7, <1>11, <2>1, <2>4
  <2> QED
    BY <2>3, <2>4
<1> QED
  BY <1>3, <1>4, <1>7, <1>8, <1>11, <1>12 DEF F, ch, kc

\* A new connection is one that nobody has.
LEMMA ConnectsFacts ==
    ASSUME TypeInv, NEW ok \in Connects
    PROVE  ok \in BOOLEAN /\ (ok => opened < MaxConn)
  BY DEF Connects

\* Nobody reads or writes what holds for those who do.
LEMMA HoldsForNobody ==
    ASSUME IInv, NEW k \in Conn
    PROVE  /\ <<k, "up">> \notin mixed =>
                 Holds(k, flow[k].up, net[k].up, ServerReads(k), {})
           /\ <<k, "down">> \notin mixed =>
                 Holds(k, flow[k].down, net[k].down, {}, ServerWrites(k))
           /\ <<k, "up">> \notin mixed =>
                 Holds(k, flow[k].up, net[k].up, {}, ClientWrites(k))
           /\ <<k, "down">> \notin mixed =>
                 Holds(k, flow[k].down, net[k].down, ClientReads(k), {})
<1>1. <<k, "up">> \notin mixed =>
         Holds(k, flow[k].up, net[k].up, ServerReads(k), ClientWrites(k))
  BY DEF IInv, UpHolds
<1>2. <<k, "down">> \notin mixed =>
         Holds(k, flow[k].down, net[k].down, ClientReads(k), ServerWrites(k))
  BY DEF IInv, DownHolds
<1> QED
  BY <1>1, <1>2 DEF Holds

\* A client whose frame is not finished drops its connection.
LEMMA BrokenInv ==
    ASSUME IInv, NEW c \in Client, ClientBroken(c)
    PROVE  IInv'
<1>1. TypeInv /\ c \in Endpoint
  BY DEF IInv, EndsInv, Endpoint
<1>2. PICK ms \in Made(c), ok \in Connects :
        /\ Produce(c, ms, TRUE)
        /\ client' = [client EXCEPT ![c] =
                 Reconnected([@ EXCEPT !.begun = TRUE, !.last = Begin(pending[c] \o ms)], ok)]
        /\ opened' = opened + (IF ok THEN 1 ELSE 0)
        /\ net' = Reopened(c, net, ok)
        /\ Remember(Redue(flow, pending[c] \o ms, Begin(pending[c] \o ms), ok))
  BY Zenon DEF ClientBroken
<1> DEFINE q == pending[c] \o ms
           next == [client[c] EXCEPT !.begun = TRUE, !.last = Begin(q)]
<1>3. /\ QueueType' /\ q \in Seq(Message) /\ queue'[c] = q
      /\ \A e \in Endpoint \ {c} : queue'[e] = queue[e]
  BY <1>1, <1>2, ProduceType
<1> HIDE DEF q
<1>4. Begin(q) \in 0..Len(q) /\ Len(q) \in Nat
  BY <1>3, RestOfBegin
<1>5. client[c] \in ClientChannel
  BY EndTypes
<1>6. /\ next \in ClientChannel /\ next.conn = client[c].conn /\ next.last = Begin(q)
  <2>1. Begin(q) \in Nat
    BY <1>4
  <2> QED
    BY <1>5, <2>1 DEF ClientChannel
<1>7. ok \in BOOLEAN /\ (ok => opened < MaxConn)
  BY <1>1, ConnectsFacts
<1>8. client' = [client EXCEPT ![c] = Reconnected(next, ok)]
  BY <1>1, <1>2 DEF TypeInv, ClientType, q
<1> HIDE DEF next
<1>9. Moves(c, net, flow, next, TRUE, ok)
  <2>1. UNCHANGED <<serverVars, mixed>>
    BY DEF ClientBroken
  <2>2. Remember(Redue(flow, queue'[c], next.last, ok))
    BY <1>2, <1>3, <1>6 DEF q
  <2>3. next.last <= Len(queue'[c])
    BY <1>3, <1>4, <1>6
  <2> QED
    BY <1>2, <1>3, <1>7, <1>8, <2>1, <2>2, <2>3 DEF Moves
<1>10. Talks(c, net, flow, next, TRUE)
  <2>1. \A k \in Conn :
           /\ <<k, "up">> \notin mixed =>
                Holds(k, flow[k].up, net[k].up, ServerReads(k), {})
           /\ <<k, "down">> \notin mixed =>
                Holds(k, flow[k].down, net[k].down, {}, ServerWrites(k))
    BY HoldsForNobody, Zenon
  <2>2. net \in [Conn -> Sock] /\ flow \in [Conn -> [up : Flow, down : Flow]]
    BY <1>1 DEF TypeInv, NetType
  <2> QED
    BY <1>6, <2>1, <2>2 DEF Talks
<1> QED
  BY <1>7, <1>9, <1>10, MovesInv

\* A client waits for its connection.
LEMMA WaitInv ==
    ASSUME IInv, NEW c \in Client, ClientWait(c)
    PROVE  IInv'
<1>1. PICK ms \in Made(c), newFrame \in BOOLEAN, status \in {"Connecting", "Failed"} :
        /\ Begins(c, ms, newFrame)
        /\ client' = [client EXCEPT ![c] = [Begun(c, ms, newFrame) EXCEPT !.status = status]]
        /\ flow' = Due(c, ms, newFrame)
  BY DEF ClientWait
<1> DEFINE ch == Begun(c, ms, newFrame)
           f == Due(c, ms, newFrame)
           next == [ch EXCEPT !.status = status]
<1>2. /\ QueueType'
      /\ \A e \in Endpoint \ {c} : queue'[e] = queue[e]
      /\ queue'[c] \in Seq(Message)
  BY <1>1, BeginsFacts, ZenonT(60)
<1>7. /\ ch \in ClientChannel
      /\ ch.conn = client[c].conn
      /\ ch.encoded = client[c].encoded /\ ch.received = client[c].received
      /\ ch.last \in 0..Len(queue'[c])
      /\ f \in [Conn -> [up : Flow, down : Flow]]
  BY <1>1, BeginsFacts, ZenonT(60)
<1>6. \A k \in Conn :
            /\ f[k].down = flow[k].down
            /\ f[k].up.put = flow[k].up.put
            /\ f[k].up.got = flow[k].up.got
            /\ k # client[c].conn => f[k] = flow[k]
            /\ k = client[c].conn =>
                  flow[k].up.put \o Numbers(Rest(queue'[c], ch.last)) = f[k].up.due
  BY <1>1, BeginsFacts
<1> HIDE DEF ch, f
<1>3. /\ next \in ClientChannel /\ next.conn = client[c].conn /\ next.last = ch.last
      /\ next.encoded = client[c].encoded /\ next.received = client[c].received
  BY <1>7 DEF ClientChannel
<1> HIDE DEF next
<1>4. Moves(c, net, f, next, FALSE, FALSE)
  <2>1. /\ UNCHANGED <<serverVars, opened, net, mixed>>
        /\ client' = [client EXCEPT ![c] = next] /\ flow' = f
    BY <1>1 DEF ClientWait, next, ch, f
  <2>2. opened' = opened + 0
    BY <2>1 DEF IInv, EndsInv, TypeInv, NetType, Ref
  <2>3. next.last <= Len(queue'[c])
    BY <1>3, <1>7
  <2> QED
    BY <1>2, <2>1, <2>2, <2>3 DEF Moves
<1>5. Talks(c, net, f, next, FALSE)
  <2>1. client[c].conn # NoConn
    BY DEF ClientWait, IInv, EndsInv, ClientEnds
  <2>2. net \in [Conn -> Sock]
    BY DEF IInv, EndsInv, TypeInv, NetType
  <2>3. ASSUME NEW k \in Conn, k = client[c].conn
        PROVE  /\ <<k, "up">> \notin mixed =>
                    Holds(k, f[k].up, net[k].up, ServerReads(k), {next.encoded})
               /\ <<k, "down">> \notin mixed =>
                    Holds(k, f[k].down, net[k].down, {next.received}, ServerWrites(k))
    <3>4. /\ f[k].up.put = flow[k].up.put /\ f[k].up.got = flow[k].up.got
          /\ f[k].down = flow[k].down
      BY <1>6
    <3>1. {next.encoded} \subseteq ClientWrites(k) /\ {next.received} \subseteq ClientReads(k)
      BY <1>3, <2>3 DEF ClientWrites, ClientReads
    <3>2. ASSUME <<k, "up">> \notin mixed
          PROVE  Holds(k, f[k].up, net[k].up, ServerReads(k), {next.encoded})
      <4>1. Holds(k, flow[k].up, net[k].up, ServerReads(k), ClientWrites(k))
        BY <3>2 DEF IInv, UpHolds
      <4> QED
        BY <3>1, <3>4, <4>1, HoldsFewer
    <3>3. ASSUME <<k, "down">> \notin mixed
          PROVE  Holds(k, f[k].down, net[k].down, {next.received}, ServerWrites(k))
      <4>1. Holds(k, flow[k].down, net[k].down, ClientReads(k), ServerWrites(k))
        BY <3>3 DEF IInv, DownHolds
      <4> QED
        BY <3>1, <3>4, <4>1, HoldsFewer
    <3> QED
      BY <3>2, <3>3
  <2> QED
    BY <1>2, <1>3, <1>6, <1>7, <2>1, <2>2, <2>3 DEF Talks
<1> QED
  BY <1>4, <1>5, MovesInv

\* A client tries again.
LEMMA RetryInv ==
    ASSUME IInv, NEW c \in Client, ClientRetry(c)
    PROVE  IInv'
<1>1. PICK ms \in Made(c), newFrame \in BOOLEAN, ok \in Connects :
        /\ Begins(c, ms, newFrame)
        /\ client' = [client EXCEPT ![c] = Reconnected(Begun(c, ms, newFrame), ok)]
        /\ opened' = opened + (IF ok THEN 1 ELSE 0)
        /\ net' = Reopened(c, net, ok)
        /\ Remember(Redue(flow, queue'[c], Begun(c, ms, newFrame).last, ok))
  BY DEF ClientRetry
<1> DEFINE ch == Begun(c, ms, newFrame)
<1>2. /\ QueueType'
      /\ \A e \in Endpoint \ {c} : queue'[e] = queue[e]
      /\ queue'[c] \in Seq(Message)
      /\ ch \in ClientChannel
      /\ ch.conn = client[c].conn
      /\ ch.last \in 0..Len(queue'[c])
  BY <1>1, BeginsFacts, ZenonT(60)
<1>3. ok \in BOOLEAN /\ (ok => opened < MaxConn)
  BY ConnectsFacts DEF IInv, EndsInv
<1> HIDE DEF ch
<1>4. Moves(c, net, flow, ch, TRUE, ok)
  <2>1. UNCHANGED <<serverVars, mixed>>
    BY DEF ClientRetry
  <2>2. ch.last <= Len(queue'[c])
    BY <1>2
  <2> QED
    BY <1>1, <1>2, <1>3, <2>1, <2>2 DEF Moves, ch
<1>5. Talks(c, net, flow, ch, TRUE)
  <2>1. \A k \in Conn :
           /\ <<k, "up">> \notin mixed =>
                Holds(k, flow[k].up, net[k].up, ServerReads(k), {})
           /\ <<k, "down">> \notin mixed =>
                Holds(k, flow[k].down, net[k].down, {}, ServerWrites(k))
    BY HoldsForNobody, Zenon
  <2>2. net \in [Conn -> Sock] /\ flow \in [Conn -> [up : Flow, down : Flow]]
    BY DEF IInv, EndsInv, TypeInv, NetType
  <2> QED
    BY <1>2, <2>1, <2>2 DEF Talks
<1> QED
  BY <1>3, <1>4, <1>5, MovesInv

\* What one call puts into a flow and what it leaves for the next one is what
\* was due.
LEMMA DueKept ==
    ASSUME NEW enc \in Seq(Piece), NEW k \in Nat, NEW q \in Seq(Message),
           NEW last \in 0..Len(q), NEW id, NEW room, NEW failed \in BOOLEAN,
           NEW o \in Sending(enc, k, q, last, id, room, failed),
           o.how \in {"done", "full"}, NEW w \in Seq(Nat), NEW due,
           w \o Numbers(Addressed(Rest(q, last), id)) = due
    PROVE  (w \o Put(q, last, o)) \o Numbers(Addressed(Rest(q, LastSentAfter(last, o)), id))
              = due
<1> DEFINE P == Put(q, last, o)
           l == LastSentAfter(last, o)
           R == Numbers(Addressed(Rest(q, l), id))
<1>1. P \o R = Numbers(Addressed(Rest(q, last), id))
  BY NothingLost
<1>2. l \in 0..Len(q)
  BY LastSentRange
<1>3. Rest(q, l) \in Seq(Message)
  <2> HIDE DEF l
  <2>1. CASE l = 0
    BY <2>1 DEF Rest
  <2>2. CASE l # 0
    <3>1. l - 1 \in 0..Len(q)
      BY <1>2, <2>2
    <3> QED
      BY <2>2, <3>1, TakeDropFacts DEF Rest
  <2> QED
    BY <2>1, <2>2
<1>4. R \in Seq(Nat)
  <2> DEFINE a == Addressed(Rest(q, l), id)
  <2>1. a \in Seq(Message)
    BY <1>3, AddressedFacts
  <2> HIDE DEF a
  <2>2. Numbers(a) \in Seq(Nat)
    BY <2>1, FittingType
  <2> QED
    BY <2>2 DEF a
<1>5. P \in Seq(Nat)
  <2> DEFINE ms == Take(Rest(q, last), o.m)
  <2>1. Rest(q, last) \in Seq(Message) /\ o.m \in 0..Len(Rest(q, last))
    BY SendingFacts
  <2>2. ms \in Seq(Message)
    BY <2>1, TakeDropFacts
  <2> HIDE DEF ms
  <2>3. Numbers(ms) \in Seq(Nat)
    BY <2>2, FittingType
  <2> QED
    BY <2>3 DEF ms, Put
<1> HIDE DEF P, R
<1>6. (w \o P) \o R = w \o (P \o R)
  BY Zenon, <1>4, <1>5, NumbersFacts
<1>7. (w \o P) \o R = due
  BY <1>1, <1>6
<1> QED
  BY <1>7 DEF P, R, l

\* A client sends all of its messages.
LEMMA AddressedToAny ==
    ASSUME NEW ms \in Seq(Message)
    PROVE  Addressed(ms, AnyClient) = ms
<1>1. \A j \in 1..Len(ms) : ~Foreign(ms[j], AnyClient)
  BY DEF Foreign
<1> QED
  BY <1>1, AddressedFacts

\* The messages that are left.
LEMMA RestType ==
    ASSUME NEW q \in Seq(Message), NEW last \in 0..Len(q)
    PROVE  Rest(q, last) \in Seq(Message)
<1>1. CASE last = 0
  BY <1>1 DEF Rest
<1>2. CASE last # 0
  <2>1. last - 1 \in 0..Len(q)
    BY <1>2
  <2> QED
    BY <1>2, <2>1, TakeDropFacts DEF Rest
<1> QED
  BY <1>1, <1>2

\* A call of a client whose channel is ch, on connection k with history f.
ExchangeNext(ch, k, q, o, r) ==
    [ch EXCEPT !.status = "Connected", !.last = LastSentAfter(ch.last, o),
               !.encoded = EncodedAfter(ch.encoded, k, q, ch.last, o),
               !.received = Remaining(ch.received, net[k].down, r)]

\* The connections and their history behind it.
ExchangeNet(ch, k, q, o, r) ==
    [net EXCEPT ![k] = [net[k] EXCEPT
        !.down = Drop(net[k].down, r.taken),
        !.up = IF net[k].server = "closed" THEN <<>>
               ELSE net[k].up \o Sent(ch.encoded, k, q, ch.last, o)]]

ExchangeFlow(f, ch, k, q, o, r) ==
    [f EXCEPT ![k] = [f[k] EXCEPT
        !.down.got = f[k].down.got \o Decoded(ch.received, net[k].down, r),
        !.up.put = f[k].up.put \o Put(q, ch.last, o)]]

\* The whole call.
Exchanged(c, ch, k, q, f, o, r, ok) ==
    LET disconnected == o.how = "error"
        next == ExchangeNext(ch, k, q, o, r)
        n    == ExchangeNet(ch, k, q, o, r)
        g    == ExchangeFlow(f, ch, k, q, o, r)
    IN  /\ client' = [client EXCEPT ![c] = IF disconnected THEN Reconnected(next, ok) ELSE next]
        /\ opened' = opened + (IF ok THEN 1 ELSE 0)
        /\ net' = IF disconnected THEN Reopened(c, n, ok) ELSE n
        /\ Remember(IF disconnected THEN Redue(g, q, next.last, ok) ELSE g)

\* What is received and sent is chosen.
Exchanges(c, ch, k, q, f) ==
    \E r \in Receiving(ch.received, net[k].down) :
    \E o \in Sending(ch.encoded, k, q, ch.last, AnyClient, Room(net[k].up), r.failed) :
    \E ok \in (IF o.how = "error" THEN Connects ELSE {FALSE}) :
        Exchanged(c, ch, k, q, f, o, r, ok)

\* Sequences of numbers, and of what is decoded.
LEMMA DueSumType ==
    ASSUME NEW a \in Seq(Nat), NEW b \in Seq(Nat), NEW x \in Seq(Nat \X Nat), NEW y \in Seq(Nat \X Nat)
    PROVE  a \o b \in Seq(Nat) /\ x \o y \in Seq(Nat \X Nat)
  BY ConcatProperties

\* ClientExchange with names for its parts.
LEMMA ExchangeIs ==
    ASSUME IInv, NEW c \in Client, ClientExchange(c)
    PROVE  \E ms \in Made(c), newFrame \in BOOLEAN :
             /\ Begins(c, ms, newFrame)
             /\ Exchanges(c, Begun(c, ms, newFrame), client[c].conn, queue'[c],
                          Due(c, ms, newFrame))
<1>1. PICK ms \in Made(c), newFrame \in BOOLEAN :
        /\ Begins(c, ms, newFrame)
        /\ LET ch == Begun(c, ms, newFrame)
               k  == ch.conn
               q  == queue'[c]
           IN  \E r \in Receiving(ch.received, net[k].down) :
               \E o \in Sending(ch.encoded, k, q, ch.last, AnyClient,
                                Room(net[k].up), r.failed) :
               \E ok \in (IF o.how = "error" THEN Connects ELSE {FALSE}) :
                LET last == LastSentAfter(ch.last, o)
                    disconnected == o.how = "error"
                    out  == Sent(ch.encoded, k, q, ch.last, o)
                    n    == [net EXCEPT
                               ![k].down = Drop(@, r.taken),
                               ![k].up = IF net[k].server = "closed" THEN <<>>
                                         ELSE @ \o out]
                    f    == [Due(c, ms, newFrame) EXCEPT
                               ![k].down.got =
                                   @ \o Decoded(ch.received, net[k].down, r),
                               ![k].up.put = @ \o Put(q, ch.last, o)]
                    next == [ch EXCEPT
                               !.status = "Connected", !.last = last,
                               !.encoded = EncodedAfter(@, k, q, ch.last, o),
                               !.received = Remaining(@, net[k].down, r)]
                IN  /\ client' = [client EXCEPT ![c] =
                         IF disconnected THEN Reconnected(next, ok) ELSE next]
                    /\ opened' = opened + (IF ok THEN 1 ELSE 0)
                    /\ net' = IF disconnected THEN Reopened(c, n, ok) ELSE n
                    /\ Remember(IF disconnected THEN Redue(f, q, last, ok) ELSE f)
  BY Zenon DEF ClientExchange
<1> DEFINE ch == Begun(c, ms, newFrame)
           f == Due(c, ms, newFrame)
           k == ch.conn
           q == queue'[c]
<1>2. ch \in ClientChannel /\ k = client[c].conn
  BY <1>1, BeginsFacts, ZenonT(60)
<1>3. f \in [Conn -> [up : Flow, down : Flow]]
  BY <1>1, BeginsFacts, ZenonT(60)
<1>4. k \in Conn
  <2>1. client[c].conn # NoConn
    BY Zenon DEF ClientExchange, IInv, EndsInv, ClientEnds
  <2> QED
    BY <1>2, <2>1, EndTypes
<1>5. net \in [Conn -> Sock]
  BY DEF IInv, EndsInv, TypeInv, NetType
<1>6. ASSUME NEW r, NEW out
      PROVE  [net EXCEPT ![k].down = Drop(@, r.taken),
                         ![k].up = IF net[k].server = "closed" THEN <<>> ELSE @ \o out]
               = [net EXCEPT ![k] = [net[k] EXCEPT !.down = Drop(net[k].down, r.taken),
                     !.up = IF net[k].server = "closed" THEN <<>> ELSE net[k].up \o out]]
  <2> HIDE DEF k
  <2> QED
    BY <1>4, <1>5 DEF Sock
<1>7. ASSUME NEW a, NEW b
      PROVE  [f EXCEPT ![k].down.got = @ \o a, ![k].up.put = @ \o b]
               = [f EXCEPT ![k] = [f[k] EXCEPT !.down.got = f[k].down.got \o a,
                                               !.up.put = f[k].up.put \o b]]
  <2> HIDE DEF k, f
  <2>1. f[k] \in [up : Flow, down : Flow] /\ f[k].up \in Flow /\ f[k].down \in Flow
    BY <1>3, <1>4
  <2> QED
    BY <1>3, <1>4, <2>1 DEF Flow
<1>8. ASSUME NEW l, NEW r, NEW o
      PROVE  [ch EXCEPT !.status = "Connected", !.last = l,
                        !.encoded = EncodedAfter(@, k, q, ch.last, o),
                        !.received = Remaining(@, net[k].down, r)]
               = [ch EXCEPT !.status = "Connected", !.last = l,
                            !.encoded = EncodedAfter(ch.encoded, k, q, ch.last, o),
                            !.received = Remaining(ch.received, net[k].down, r)]
  <2> HIDE DEF k, ch, q
  <2> QED
    BY <1>2 DEF ClientChannel
<1>9. ASSUME NEW l, NEW a, NEW b
      PROVE  [ch EXCEPT !.status = "Connected", !.last = l, !.encoded = a,
                        !.received = b].last = l
  <2> HIDE DEF ch
  <2> QED
    BY <1>2 DEF ClientChannel
<1> DEFINE N0(r, o) == [net EXCEPT ![k].down = Drop(@, r.taken),
                                   ![k].up = IF net[k].server = "closed" THEN <<>>
                                         ELSE @ \o Sent(ch.encoded, k, q, ch.last, o)]
           G0(r, o) == [f EXCEPT ![k].down.got = @ \o Decoded(ch.received, net[k].down, r),
                                 ![k].up.put = @ \o Put(q, ch.last, o)]
           X0(r, o) == [ch EXCEPT !.status = "Connected", !.last = LastSentAfter(ch.last, o),
                                  !.encoded = EncodedAfter(@, k, q, ch.last, o),
                                  !.received = Remaining(@, net[k].down, r)]
           B(r, o, ok) ==
             /\ client' = [client EXCEPT ![c] =
                  IF o.how = "error" THEN Reconnected(X0(r, o), ok) ELSE X0(r, o)]
             /\ opened' = opened + (IF ok THEN 1 ELSE 0)
             /\ net' = IF o.how = "error" THEN Reopened(c, N0(r, o), ok) ELSE N0(r, o)
             /\ Remember(IF o.how = "error" THEN Redue(G0(r, o), q, LastSentAfter(ch.last, o), ok)
                         ELSE G0(r, o))
<1>10. PICK r \in Receiving(ch.received, net[k].down) :
          \E o \in Sending(ch.encoded, k, q, ch.last, AnyClient, Room(net[k].up), r.failed) :
          \E ok \in (IF o.how = "error" THEN Connects ELSE {FALSE}) : B(r, o, ok)
  BY <1>1, Zenon
<1>11. PICK o \in Sending(ch.encoded, k, q, ch.last, AnyClient, Room(net[k].up), r.failed) :
          \E ok \in (IF o.how = "error" THEN Connects ELSE {FALSE}) : B(r, o, ok)
  BY <1>10, Zenon
<1>12. PICK ok \in (IF o.how = "error" THEN Connects ELSE {FALSE}) : B(r, o, ok)
  BY <1>11, Zenon
<1>13. X0(r, o) = ExchangeNext(ch, k, q, o, r)
  BY <1>8 DEF ExchangeNext
<1>14. N0(r, o) = ExchangeNet(ch, k, q, o, r)
  BY <1>6, Zenon DEF ExchangeNet
<1>15. G0(r, o) = ExchangeFlow(f, ch, k, q, o, r)
  <2> DEFINE a == Decoded(ch.received, net[k].down, r)
             b == Put(q, ch.last, o)
  <2> HIDE DEF a, b, ch, f, k, q
  <2>1. [f EXCEPT ![k].down.got = @ \o a, ![k].up.put = @ \o b]
               = [f EXCEPT ![k] = [f[k] EXCEPT !.down.got = f[k].down.got \o a,
                                               !.up.put = f[k].up.put \o b]]
    BY <1>7, ZenonT(60)
  <2> QED
    BY <2>1 DEF a, b, ExchangeFlow
<1>16. ExchangeNext(ch, k, q, o, r).last = LastSentAfter(ch.last, o)
  BY <1>9 DEF ExchangeNext
<1> HIDE DEF N0, G0, X0, ch, f, k, q
<1>17. Exchanged(c, ch, k, q, f, o, r, ok)
  BY <1>12, <1>13, <1>14, <1>15, <1>16 DEF Exchanged
<1>18. Exchanges(c, ch, k, q, f)
  BY <1>17 DEF Exchanges
<1>19. Exchanges(c, ch, client[c].conn, q, f)
  BY <1>2, <1>18
<1> QED
  BY <1>1, <1>19, Zenon DEF ch, f, q

\* What a call of _SendMessages() leaves.
LEMMA SendTypes ==
    ASSUME NEW e \in Seq(Piece), NEW k \in Nat, NEW q \in Seq(Message),
           NEW l \in 0..Len(q), NEW id, NEW room, NEW failed \in BOOLEAN,
           NEW o \in Sending(e, k, q, l, id, room, failed)
    PROVE  /\ Put(q, l, o) \in Seq(Nat)
           /\ Sent(e, k, q, l, o) \in Seq(Piece)
           /\ EncodedAfter(e, k, q, l, o) \in Seq(Piece)
           /\ LastSentAfter(l, o) \in 0..Len(q)
           /\ Rest(q, l) \in Seq(Message)
           /\ Rest(q, LastSentAfter(l, o)) \in Seq(Message)
<1> DEFINE put == Put(q, l, o)
           out == Sent(e, k, q, l, o)
           enc == EncodedAfter(e, k, q, l, o)
           last == LastSentAfter(l, o)
           ms == Take(Rest(q, l), o.m)
           parts == Storage(e, k, Rest(q, l), o.m)
<1>1. last \in 0..Len(q)
  BY LastSentRange
<1>2. /\ o.sent \in 0..Len(parts) /\ o.moved \in 0..Len(parts)
      /\ Rest(q, l) \in Seq(Message) /\ o.m \in 0..Len(Rest(q, l))
  BY SendingFacts
<1>3. ms \in Seq(Message)
  BY <1>2, TakeDropFacts
<1>4. parts = e \o Encoded(k, ms)
  BY DEF Storage
<1>5. put = Numbers(ms) /\ out = Take(parts, o.sent) /\ enc = Drop(parts, o.moved)
  BY DEF Put, Sent, EncodedAfter
<1> HIDE DEF ms, parts, put, out, enc, last
<1>6. Numbers(ms) \in Seq(Nat) /\ Encoded(k, ms) \in Seq(Piece)
  BY <1>3, FittingType, EncodedFacts
<1>7. parts \in Seq(Piece)
  BY <1>4, <1>6, ConcatProperties
<1>8. Take(parts, o.sent) \in Seq(Piece) /\ Drop(parts, o.moved) \in Seq(Piece)
  BY <1>2, <1>7, TakeDropFacts
<1>9. Rest(q, last) \in Seq(Message)
  BY <1>1, RestType
<1> QED
  BY <1>1, <1>2, <1>5, <1>6, <1>8, <1>9 DEF put, out, enc, last

\* What a call of _ReceiveMessages() decodes.
LEMMA DecodedType ==
    ASSUME NEW known \in Seq(Piece), NEW way \in Seq(Piece), NEW r \in Receiving(known, way)
    PROVE  Decoded(known, way, r) \in Seq(Nat \X Nat)
<1> DEFINE buf == Buffer(known, way, r)
           d == r.decoded
           got == Decoded(known, way, r)
<1>1. buf \in Seq(Piece) /\ d \in Nat /\ d * MsgSize \in 0..Len(buf)
  BY ReceivingFacts
<1>2. got = [j \in 1..d |-> <<buf[(j - 1) * MsgSize + 1].conn, buf[(j - 1) * MsgSize + 1].n>>]
  BY DEF Decoded
<1>3. \A j \in 1..d : (j - 1) * MsgSize + 1 \in 1..(d * MsgSize)
  <2> HIDE DEF d
  <2>1. ASSUME NEW j \in 1..d PROVE (j - 1) * MsgSize + 1 \in 1..(d * MsgSize)
    <3>1. 0 \in Nat
      OBVIOUS
    <3> QED
      BY <1>1, <3>1, BeginOfMessage
  <2> QED
    BY <2>1
<1> HIDE DEF buf, d, got
<1>4. ASSUME NEW j \in 1..d
      PROVE  <<buf[(j - 1) * MsgSize + 1].conn, buf[(j - 1) * MsgSize + 1].n>> \in Nat \X Nat
  <2> DEFINE p == (j - 1) * MsgSize + 1
             z == d * MsgSize
  <2>1. p \in 1..z /\ z \in 0..Len(buf)
    BY <1>1, <1>3
  <2> HIDE DEF p, z
  <2>2. p \in 1..Len(buf)
    <3>1. Len(buf) \in Nat
      BY <1>1
    <3> QED
      BY <2>1, <3>1
  <2>3. buf[p] \in Piece
    BY <1>1, <2>2
  <2>4. buf[p].conn \in Nat /\ buf[p].n \in Nat
    BY <2>3 DEF Piece
  <2> QED
    BY <2>4 DEF p
<1>5. got \in [1..d -> Nat \X Nat]
  BY <1>2, <1>4
<1>6. got \in Seq(Nat \X Nat)
  BY <1>1, <1>5
<1> QED
  BY <1>6 DEF got

\* What a call finds of its client, once it has begun: the channel ch, its
\* connection k, its queue q and the history f.
Calls(c, ch, k, q, f) ==
    /\ k = client[c].conn /\ ch.conn = k /\ q = queue'[c]
    /\ ch.encoded = client[c].encoded /\ ch.received = client[c].received
    /\ ch.last \in 0..Len(q)
    /\ \A j \in Conn : j # k => f[j] = flow[j]
    /\ f[k].down = flow[k].down
    /\ f[k].up.put = flow[k].up.put /\ f[k].up.got = flow[k].up.got
    /\ flow[k].up.put \o Numbers(Rest(q, ch.last)) = f[k].up.due

\* A call of _SendMessages() ends with o.
IsSend(enc, k, q, last, id, room, failed, o) ==
    /\ enc \in Seq(Piece) /\ k \in Nat /\ q \in Seq(Message) /\ last \in 0..Len(q)
    /\ failed \in BOOLEAN
    /\ o \in Sending(enc, k, q, last, id, room, failed)

\* No message of a client is lost between two calls.
LEMMA DueKeptToAll ==
    ASSUME NEW enc, NEW k, NEW q, NEW last, NEW room, NEW failed, NEW o,
           IsSend(enc, k, q, last, AnyClient, room, failed, o),
           o.how \in {"done", "full"}, NEW w \in Seq(Nat)
    PROVE  (w \o Put(q, last, o)) \o Numbers(Rest(q, LastSentAfter(last, o)))
              = w \o Numbers(Rest(q, last))
<1>0. /\ enc \in Seq(Piece) /\ k \in Nat /\ q \in Seq(Message) /\ last \in 0..Len(q)
      /\ failed \in BOOLEAN
      /\ o \in Sending(enc, k, q, last, AnyClient, room, failed)
  BY DEF IsSend
<1>1. PICK id : id = AnyClient
  OBVIOUS
<1>2. o \in Sending(enc, k, q, last, id, room, failed)
  BY <1>0, <1>1
<1>3. Rest(q, last) \in Seq(Message) /\ Rest(q, LastSentAfter(last, o)) \in Seq(Message)
  BY <1>0, SendTypes
<1>4. /\ Addressed(Rest(q, last), id) = Rest(q, last)
      /\ Addressed(Rest(q, LastSentAfter(last, o)), id) = Rest(q, LastSentAfter(last, o))
  BY <1>1, <1>3, AddressedToAny
<1> DEFINE P == Put(q, last, o)
           l == LastSentAfter(last, o)
<1>6. P \o Numbers(Addressed(Rest(q, l), id)) = Numbers(Addressed(Rest(q, last), id))
  BY <1>0, <1>2, NothingLost
<1>7. P \in Seq(Nat)
  BY <1>0, SendTypes
<1> HIDE DEF P, l
<1>8. P \o Numbers(Rest(q, l)) = Numbers(Rest(q, last))
  BY <1>4, <1>6 DEF l
<1>9. Numbers(Rest(q, l)) \in Seq(Nat)
  BY <1>3, FittingType DEF l
<1>10. (w \o P) \o Numbers(Rest(q, l)) = w \o (P \o Numbers(Rest(q, l)))
  BY <1>7, <1>9, NumbersFacts
<1> QED
  BY <1>8, <1>10 DEF P, l

\* A call that is exchanged goes on with what holds at the connection.
LEMMA ExchangeTalks ==
    ASSUME IInv, NEW c \in Client, NEW ch \in ClientChannel, NEW k \in Conn,
           NEW q \in Seq(Message), NEW f \in [Conn -> [up : Flow, down : Flow]],
           Calls(c, ch, k, q, f),
           NEW r \in Receiving(ch.received, net[k].down),
           NEW o \in Sending(ch.encoded, k, q, ch.last, AnyClient,
                             Room(net[k].up), r.failed)
    PROVE  /\ Talks(c, ExchangeNet(ch, k, q, o, r), ExchangeFlow(f, ch, k, q, o, r),
                    ExchangeNext(ch, k, q, o, r), o.how = "error")
           /\ ExchangeNext(ch, k, q, o, r).last <= Len(q)
<1>1. /\ net[k] \in Sock /\ flow[k] \in [up : Flow, down : Flow]
      /\ ServerReads(k) \in SUBSET Seq(Piece) /\ ServerWrites(k) \in SUBSET Seq(Piece)
      /\ net[k].server = "closed" => ServerReads(k) = {}
  BY EndTypes
<1>17. PICK e, known, l, way, up, room, failed, U, D :
          /\ e = ch.encoded /\ known = ch.received /\ l = ch.last
          /\ way = net[k].down /\ up = net[k].up /\ room = Room(net[k].up)
          /\ failed = r.failed /\ U = flow[k].up /\ D = flow[k].down
  OBVIOUS
<1>2. /\ up \in Seq(Piece) /\ way \in Seq(Piece)
      /\ e \in Seq(Piece) /\ known \in Seq(Piece) /\ l \in Nat /\ l \in 0..Len(q)
      /\ U \in Flow /\ D \in Flow /\ k \in Nat
  BY <1>1, <1>17, ConnFacts, Zenon DEF Sock, ClientChannel, Calls
<1>3. f[k] \in [up : Flow, down : Flow] /\ f[k].up \in Flow /\ f[k].down \in Flow
  OBVIOUS
<1>18. r \in Receiving(known, way) /\ o \in Sending(e, k, q, l, AnyClient, room, failed)
  BY <1>17
<1> DEFINE n == ExchangeNet(ch, k, q, o, r)
           g == ExchangeFlow(f, ch, k, q, o, r)
           next == ExchangeNext(ch, k, q, o, r)
           got == Decoded(known, way, r)
           put == Put(q, l, o)
           out == Sent(e, k, q, l, o)
           left == Remaining(known, way, r)
           rest == Drop(way, r.taken)
           enc == EncodedAfter(e, k, q, l, o)
           last == LastSentAfter(l, o)
\* Types of what the call receives and sends.
<1>4. /\ failed \in BOOLEAN /\ left \in Seq(Piece) /\ rest \in Seq(Piece)
  BY <1>2, <1>17, <1>18, ReceivingFacts, RemainingFacts
<1>5. /\ o.how \in {"done", "full", "error"}
      /\ put \in Seq(Nat) /\ out \in Seq(Piece) /\ enc \in Seq(Piece) /\ last \in 0..Len(q)
      /\ Rest(q, l) \in Seq(Message) /\ Rest(q, last) \in Seq(Message)
  <2>1. o.how \in {"done", "full", "error", "spin"}
    BY <1>2, <1>4, <1>18, SendingFacts
  <2>2. o.how # "spin"
    BY <1>18, NoSpin
  <2>3. /\ put \in Seq(Nat) /\ out \in Seq(Piece) /\ enc \in Seq(Piece) /\ last \in 0..Len(q)
        /\ Rest(q, l) \in Seq(Message) /\ Rest(q, last) \in Seq(Message)
    BY <1>2, <1>4, <1>18, SendTypes
  <2> QED
    BY <2>1, <2>2, <2>3
<1>6. got \in Seq(Nat \X Nat)
  BY <1>2, <1>18, DecodedType
\* What the call leaves.
<1>7. /\ next = [ch EXCEPT !.status = "Connected", !.last = last,
                           !.encoded = enc, !.received = left]
      /\ n = [net EXCEPT ![k] = [net[k] EXCEPT !.down = rest,
                 !.up = IF net[k].server = "closed" THEN <<>> ELSE up \o out]]
      /\ g = [f EXCEPT ![k] = [f[k] EXCEPT !.down.got = f[k].down.got \o got,
                                           !.up.put = f[k].up.put \o put]]
  BY <1>17 DEF ExchangeNext, ExchangeNet, ExchangeFlow
<1> HIDE DEF n, g, next, got, put, out, left, rest, enc, last
<1>8. /\ next \in ClientChannel /\ next.conn = ch.conn /\ next.last = last
      /\ next.encoded = enc /\ next.received = left
  <2>1. last \in Nat
    BY <1>5
  <2> QED
    BY <1>4, <1>5, <1>7, <2>1 DEF ClientChannel
<1>9. /\ n \in [Conn -> Sock]
      /\ \A j \in Conn : j # k => n[j] = net[j]
      /\ n[k].owner = net[k].owner /\ n[k].client = net[k].client
      /\ n[k].server = net[k].server /\ n[k].down = rest
      /\ n[k].up = IF net[k].server = "closed" THEN <<>> ELSE up \o out
  <2> DEFINE u == IF net[k].server = "closed" THEN <<>> ELSE up \o out
             m == [net[k] EXCEPT !.down = rest, !.up = u]
  <2>1. up \o out \in Seq(Piece) /\ <<>> \in Seq(Piece)
    BY <1>2, <1>5, ConcatProperties
  <2>2. u \in Seq(Piece)
    BY <2>1
  <2> HIDE DEF u
  <2>3. /\ m \in Sock /\ m.owner = net[k].owner /\ m.client = net[k].client
        /\ m.server = net[k].server /\ m.down = rest /\ m.up = u
    BY <1>1, <1>4, <2>2 DEF Sock
  <2>4. n = [net EXCEPT ![k] = m]
    BY <1>7 DEF u
  <2> HIDE DEF m
  <2>5. net \in [Conn -> Sock]
    BY DEF IInv, EndsInv, TypeInv, NetType
  <2>6. n[k] = m /\ n \in [Conn -> Sock] /\ \A j \in Conn : j # k => n[j] = net[j]
    BY <2>3, <2>4, <2>5
  <2> QED
    BY <2>3, <2>6 DEF u
<1>10. /\ g \in [Conn -> [up : Flow, down : Flow]]
       /\ \A j \in Conn : j # k => g[j] = flow[j]
       /\ g[k].down.put = D.put /\ g[k].down.due = D.due
       /\ g[k].down.got = D.got \o got
       /\ g[k].up.put = U.put \o put /\ g[k].up.got = U.got
       /\ g[k].up.due = f[k].up.due
  <2> DEFINE x == f[k].down.got \o got
             y == f[k].up.put \o put
             m == [f[k] EXCEPT !.down.got = x, !.up.put = y]
  <2>1. x \in Seq(Nat \X Nat) /\ y \in Seq(Nat)
    <3>1. f[k].down.got \in Seq(Nat \X Nat) /\ f[k].up.put \in Seq(Nat)
      BY <1>3 DEF Flow
    <3> QED
      BY <1>5, <1>6, <3>1, DueSumType
  <2> HIDE DEF x, y
  <2>2. /\ m \in [up : Flow, down : Flow]
        /\ m.down.put = f[k].down.put /\ m.down.due = f[k].down.due /\ m.down.got = x
        /\ m.up.put = y /\ m.up.got = f[k].up.got /\ m.up.due = f[k].up.due
    BY <1>3, <2>1 DEF Flow
  <2>3. g = [f EXCEPT ![k] = m]
    BY <1>7 DEF x, y
  <2> HIDE DEF m
  <2>4. g[k] = m /\ g \in [Conn -> [up : Flow, down : Flow]] /\ \A j \in Conn : j # k => g[j] = f[j]
    BY <2>2, <2>3
  <2> QED
    BY <1>17, <2>2, <2>4, Zenon DEF x, y, Calls
<1>11. ASSUME <<k, "down">> \notin mixed
       PROVE  Holds(k, g[k].down, n[k].down, {next.received}, ServerWrites(k))
  <2>0. PICK W, h : W = ServerWrites(k) /\ h = g[k].down
    OBVIOUS
  <2>1. Holds(k, D, way, ClientReads(k), W)
    BY <1>11, <1>17, <2>0 DEF IInv, DownHolds
  <2>2. {known} \subseteq ClientReads(k)
    BY <1>17, Zenon DEF ClientReads, Calls
  <2>5. W \in SUBSET Seq(Piece) /\ h.put = D.put /\ h.got = D.got \o Decoded(known, way, r)
    BY <1>1, <1>10, <2>0 DEF got
  <2>3. Holds(k, D, way, {known}, W)
    BY <2>1, <2>2, HoldsFewer
  <2>4. Holds(k, h, Drop(way, r.taken), {Remaining(known, way, r)}, W)
    BY <1>2, <1>18, <2>3, <2>5, HoldsReceive
  <2> QED
    BY <1>8, <1>9, <2>0, <2>4 DEF left, rest
<1>12. ASSUME <<k, "up">> \notin mixed
       PROVE  Holds(k, g[k].up, n[k].up, ServerReads(k),
                    IF o.how = "error" THEN {} ELSE {next.encoded})
  <2>0. PICK R, h : R = ServerReads(k) /\ h = g[k].up
    OBVIOUS
  <2>1. Holds(k, U, up, R, ClientWrites(k))
    BY <1>12, <1>17, <2>0 DEF IInv, UpHolds
  <2>2. {e} \subseteq ClientWrites(k)
    BY <1>17, Zenon DEF ClientWrites, Calls
  <2>3. Holds(k, U, up, R, {e})
    BY <2>1, <2>2, HoldsFewer
  <2>6. R \in SUBSET Seq(Piece) /\ h.put = U.put \o put /\ h.got = U.got
    BY <1>1, <1>10, <2>0
  <2>4. CASE net[k].server = "closed"
    <3>1. \A any, V : Holds(k, h, any, {}, V)
      BY <1>2, <1>5, <2>3, <2>6, HoldsUnread
    <3>2. R = {}
      BY <1>1, <2>0, <2>4
    <3> QED
      BY <2>0, <3>1, <3>2
  <2>5. CASE net[k].server # "closed"
    <3>1. /\ Holds(k, h, up \o Sent(e, k, q, l, o), R, {})
          /\ o.how # "error" =>
                Holds(k, h, up \o Sent(e, k, q, l, o), R, {EncodedAfter(e, k, q, l, o)})
      BY <1>2, <1>4, <1>18, <2>3, <2>6, HoldsSend DEF put
    <3>2. n[k].up = up \o Sent(e, k, q, l, o)
      BY <1>9, <2>5 DEF out
    <3>3. next.encoded = EncodedAfter(e, k, q, l, o)
      BY <1>8 DEF enc
    <3> QED
      BY <2>0, <3>1, <3>2, <3>3
  <2> QED
    BY <2>4, <2>5
<1>13. ASSUME o.how # "error"
       PROVE  g[k].up.put \o Numbers(Rest(q, next.last)) = g[k].up.due
  <2>1. o.how \in {"done", "full"}
    BY <1>5, <1>13
  <2>0. PICK w, due : w = U.put /\ due = f[k].up.due
    OBVIOUS
  <2>2. w \in Seq(Nat)
    BY <1>2, <2>0 DEF Flow
  <2>3. w \o Numbers(Rest(q, l)) = due
    BY <1>17, <2>0, Zenon DEF Calls
  <2>7. (w \o Put(q, l, o)) \o Numbers(Rest(q, LastSentAfter(l, o)))
          = w \o Numbers(Rest(q, l))
    <3>1. e \in Seq(Piece) /\ k \in Nat /\ q \in Seq(Message) /\ l \in 0..Len(q)
      BY <1>2
    <3>2. failed \in BOOLEAN
      BY <1>4
    <3>3. o \in Sending(e, k, q, l, AnyClient, room, failed)
      BY <1>18
    <3>4. IsSend(e, k, q, l, AnyClient, room, failed, o)
      BY <3>1, <3>2, <3>3 DEF IsSend
    <3> QED
      BY <2>1, <2>2, <3>4, DueKeptToAll
  <2>4. (w \o Put(q, l, o)) \o Numbers(Rest(q, LastSentAfter(l, o))) = due
    BY <2>3, <2>7
  <2>5. g[k].up.put = w \o Put(q, l, o) /\ g[k].up.due = due
    BY <1>10, <2>0 DEF put
  <2>6. next.last = LastSentAfter(l, o)
    BY <1>8 DEF last
  <2> QED
    BY <2>4, <2>5, <2>6
<1>14. k # NoConn
  BY ConnFacts
<1>15. next.last <= Len(q)
  BY <1>5, <1>8
<1>16. Talks(c, n, g, next, o.how = "error")
  <2>1. k = client[c].conn /\ q = queue'[c] /\ ch.conn = k
    BY Zenon DEF Calls
  <2>2. next.conn = client[c].conn /\ next.conn # NoConn
    BY <1>8, <1>14, <2>1
  <2>3. \A j \in Conn \ {client[c].conn} : n[j] = net[j] /\ g[j] = flow[j]
    BY <1>9, <1>10, <2>1, Zenon
  <2>4. g[k].down.put = flow[k].down.put /\ g[k].down.due = flow[k].down.due
    BY <1>10, <1>17
  <2>5. <<k, "down">> \notin mixed =>
          Holds(k, g[k].down, n[k].down,
                IF o.how = "error" THEN {} ELSE {next.received}, ServerWrites(k))
    <3>1. {} \subseteq {next.received}
      OBVIOUS
    <3> QED
      BY <1>11, <3>1, HoldsFewer
  <2>6. ASSUME NEW j \in Conn, j = client[c].conn
        PROVE  /\ n[j].owner = net[j].owner /\ n[j].client = net[j].client
               /\ n[j].server = net[j].server
               /\ g[j].down.put = flow[j].down.put /\ g[j].down.due = flow[j].down.due
               /\ <<j, "up">> \notin mixed =>
                    Holds(j, g[j].up, n[j].up, ServerReads(j),
                          IF o.how = "error" THEN {} ELSE {next.encoded})
               /\ <<j, "down">> \notin mixed =>
                    Holds(j, g[j].down, n[j].down,
                          IF o.how = "error" THEN {} ELSE {next.received}, ServerWrites(j))
               /\ o.how # "error" =>
                    g[j].up.put \o Numbers(Rest(queue'[c], next.last)) = g[j].up.due
    <3>1. j = k
      BY <2>1, <2>6
    <3> QED
      BY <1>9, <1>12, <1>13, <2>1, <2>4, <2>5, <3>1, Zenon
  <2>7. /\ next \in ClientChannel /\ n \in [Conn -> Sock]
        /\ g \in [Conn -> [up : Flow, down : Flow]]
    BY <1>8, <1>9, <1>10
  <2> QED
    BY <2>2, <2>3, <2>6, <2>7, Zenon DEF Talks
<1> QED
  BY <1>15, <1>16 DEF n, g, next

\* A client receives and sends.
LEMMA ExchangeInv ==
    ASSUME IInv, NEW c \in Client, ClientExchange(c)
    PROVE  IInv'
<1>1. PICK ms \in Made(c), newFrame \in BOOLEAN :
        /\ Begins(c, ms, newFrame)
        /\ Exchanges(c, Begun(c, ms, newFrame), client[c].conn, queue'[c],
                     Due(c, ms, newFrame))
  BY ExchangeIs
<1>2. PICK ch, f, k :
        ch = Begun(c, ms, newFrame) /\ f = Due(c, ms, newFrame) /\ k = client[c].conn
  OBVIOUS
<1>3. PICK q : q = queue'[c]
  OBVIOUS
<1>4. PICK r \in Receiving(ch.received, net[k].down) :
        \E o \in Sending(ch.encoded, k, q, ch.last, AnyClient, Room(net[k].up), r.failed) :
        \E ok \in (IF o.how = "error" THEN Connects ELSE {FALSE}) :
             Exchanged(c, ch, k, q, f, o, r, ok)
  <2>1. Exchanges(c, ch, k, q, f)
    BY <1>1, <1>2, <1>3
  <2> QED
    BY <2>1, Zenon DEF Exchanges
<1>5. PICK o \in Sending(ch.encoded, k, q, ch.last, AnyClient, Room(net[k].up), r.failed) :
        \E ok \in (IF o.how = "error" THEN Connects ELSE {FALSE}) :
             Exchanged(c, ch, k, q, f, o, r, ok)
  BY <1>4
<1>6. PICK ok \in (IF o.how = "error" THEN Connects ELSE {FALSE}) :
             Exchanged(c, ch, k, q, f, o, r, ok)
  BY <1>5
<1>7. k \in Conn
  <2>1. client[c].conn # NoConn
    BY Zenon DEF ClientExchange, IInv, EndsInv, ClientEnds
  <2> QED
    BY <1>2, <2>1, EndTypes
<1>8. /\ QueueType'
      /\ \A e \in Endpoint \ {c} : queue'[e] = queue[e]
      /\ q \in Seq(Message)
  BY <1>1, <1>3, BeginsFacts, ZenonT(60)
<1>17. /\ Begun(c, ms, newFrame) \in ClientChannel
       /\ Begun(c, ms, newFrame).conn = client[c].conn
       /\ Begun(c, ms, newFrame).encoded = client[c].encoded
       /\ Begun(c, ms, newFrame).received = client[c].received
       /\ Begun(c, ms, newFrame).last \in 0..Len(queue'[c])
       /\ Due(c, ms, newFrame) \in [Conn -> [up : Flow, down : Flow]]
  <2>1. Begins(c, ms, newFrame)
    BY <1>1
  <2>2. /\ Begun(c, ms, newFrame) \in ClientChannel
        /\ Begun(c, ms, newFrame).conn = client[c].conn
        /\ Begun(c, ms, newFrame).encoded = client[c].encoded
    BY <2>1, BeginsFacts, ZenonT(60)
  <2>3. /\ Begun(c, ms, newFrame).received = client[c].received
        /\ Begun(c, ms, newFrame).last \in 0..Len(queue'[c])
    BY <2>1, BeginsFacts, ZenonT(60)
  <2>4. Due(c, ms, newFrame) \in [Conn -> [up : Flow, down : Flow]]
    BY <2>1, BeginsFacts, ZenonT(60)
  <2> QED
    BY <2>2, <2>3, <2>4
<1>18. \A j \in Conn :
            /\ Due(c, ms, newFrame)[j].down = flow[j].down
            /\ Due(c, ms, newFrame)[j].up.put = flow[j].up.put
            /\ Due(c, ms, newFrame)[j].up.got = flow[j].up.got
            /\ j # client[c].conn => Due(c, ms, newFrame)[j] = flow[j]
            /\ j = client[c].conn =>
                  flow[j].up.put \o Numbers(Rest(queue'[c], Begun(c, ms, newFrame).last))
                    = Due(c, ms, newFrame)[j].up.due
  BY <1>1, BeginsFacts
<1>9. /\ ch \in ClientChannel /\ ch.conn = k
      /\ ch.encoded = client[c].encoded /\ ch.received = client[c].received
      /\ ch.last \in 0..Len(q)
      /\ f \in [Conn -> [up : Flow, down : Flow]]
  BY <1>2, <1>3, <1>17
<1>10. \A j \in Conn :
            /\ f[j].down = flow[j].down
            /\ f[j].up.put = flow[j].up.put
            /\ f[j].up.got = flow[j].up.got
            /\ j # client[c].conn => f[j] = flow[j]
            /\ j = client[c].conn =>
                  flow[j].up.put \o Numbers(Rest(queue'[c], ch.last)) = f[j].up.due
  BY <1>2, <1>18
<1> DEFINE n == ExchangeNet(ch, k, q, o, r)
           g == ExchangeFlow(f, ch, k, q, o, r)
           next == ExchangeNext(ch, k, q, o, r)
           gone == o.how = "error"
<1>11. Talks(c, n, g, next, gone) /\ next.last <= Len(q)
  <2>1. /\ \A j \in Conn : j # k => f[j] = flow[j]
        /\ f[k].down = flow[k].down
        /\ f[k].up.put = flow[k].up.put /\ f[k].up.got = flow[k].up.got
        /\ flow[k].up.put \o Numbers(Rest(q, ch.last)) = f[k].up.due
    BY <1>2, <1>3, <1>7, <1>10, Zenon
  <2> QED
    <3>1. Calls(c, ch, k, q, f)
      BY <1>2, <1>3, <1>9, <2>1, Zenon DEF Calls
    <3> QED
      BY <1>7, <1>8, <1>9, <3>1, ExchangeTalks
<1>12. ok \in BOOLEAN /\ (ok => gone /\ opened < MaxConn)
  <2>1. TypeInv
    BY DEF IInv, EndsInv
  <2> QED
    BY <1>6, <2>1, ConnectsFacts
<1>13. /\ client' = [client EXCEPT ![c] = IF gone THEN Reconnected(next, ok) ELSE next]
       /\ opened' = opened + (IF ok THEN 1 ELSE 0)
       /\ net' = IF gone THEN Reopened(c, n, ok) ELSE n
       /\ Remember(IF gone THEN Redue(g, q, next.last, ok) ELSE g)
  BY <1>6 DEF Exchanged
<1>14. UNCHANGED <<serverVars, mixed>>
  BY Zenon DEF ClientExchange
<1> HIDE DEF n, g, next, gone
<1>15. Moves(c, n, g, next, gone, ok)
  BY <1>3, <1>8, <1>11, <1>12, <1>13, <1>14 DEF Moves
<1>16. gone \in BOOLEAN
  BY DEF gone
<1> QED
  BY <1>11, <1>12, <1>15, <1>16, MovesInv

-----------------------------------------------------------------------------
(* Steps of the server *)

\* The step of the server in which its slots become sl, the connections n and
\* the history f, and in which the slots D are freed.
Turns(sl, n, f, D) ==
    /\ D \subseteq Used
    /\ slots' = [s \in Slot |-> IF s \in D THEN Disconnected(sl[s]) ELSE sl[s]]
    /\ addrMap' = AddrMapWithout(D)
    /\ ids' = IdsWithout(D)
    /\ net' = NetWithout(D, n)
    /\ Remember(f)
    /\ QueueType'
    /\ \A c \in Client : queue'[c] = queue[c]
    /\ stray' \in Seq(Piece)
    /\ turn' \in {"user", "accept", "clients", "spin"}
    /\ at' \in Nat
    /\ turn' = "clients" => at' \in Used \ D
    /\ mixed \subseteq mixed' /\ mixed' \subseteq Conn \X {"up", "down"}
    /\ UNCHANGED <<client, counter, opened>>

\* What the server does with its slots, and at their connections, while the
\* step lasts.
Serves(sl, n, f, D) ==
    /\ sl \in [Slot -> ServerSlot]
    /\ n \in [Conn -> Sock]
    /\ f \in [Conn -> [up : Flow, down : Flow]]
    /\ \A s \in Slot : /\ sl[s].used = slots[s].used /\ sl[s].id = slots[s].id
                       /\ sl[s].conn = slots[s].conn
                       /\ s \notin Used => sl[s] = slots[s]
    /\ \A s \in Used \ D : sl[s].last <= Len(queue'[Server])
    /\ \A k \in Conn : (\A s \in Used : slots[s].conn # k) => n[k] = net[k] /\ f[k] = flow[k]
    /\ \A s \in Used, k \in Conn :
         k = slots[s].conn =>
           /\ n[k].owner = net[k].owner /\ n[k].client = net[k].client
           /\ n[k].server = net[k].server
           /\ f[k].up.put = flow[k].up.put /\ f[k].up.due = flow[k].up.due
           /\ <<k, "up">> \notin mixed' =>
                Holds(k, f[k].up, n[k].up, IF s \in D THEN {} ELSE {sl[s].received},
                      ClientWrites(k))
           /\ <<k, "down">> \notin mixed' =>
                Holds(k, f[k].down, n[k].down, ClientReads(k),
                      IF s \in D THEN {} ELSE {sl[s].encoded})
           /\ s \notin D /\ turn' # "spin" =>
                f[k].down.put \o Numbers(Addressed(Rest(queue'[Server], sl[s].last), sl[s].id))
                  = f[k].down.due

\* A slot that is free again.
LEMMA FreedFacts ==
    ASSUME NEW slot \in ServerSlot
    PROVE  /\ Disconnected(slot) \in ServerSlot
           /\ ~Disconnected(slot).used /\ Disconnected(slot).received = <<>>
<1>1. <<>> \in Seq(Piece) /\ NoId \in Int /\ NoConn \in Ref
  BY ConnFacts DEF NoId
<1> QED
  BY <1>1 DEF Disconnected, ServerSlot

\* A step of the server keeps the types, ...
LEMMA TurnsTypes ==
    ASSUME IInv, NEW sl, NEW n, NEW f, NEW D, Turns(sl, n, f, D), Serves(sl, n, f, D)
    PROVE  /\ TypeInv'
           /\ \A s \in D : slots'[s] = Disconnected(sl[s]) /\ ~slots'[s].used
                           /\ slots'[s].received = <<>>
           /\ \A s \in Slot \ D : /\ slots'[s] = sl[s] /\ slots'[s].used = slots[s].used
                                  /\ slots'[s].conn = slots[s].conn
                                  /\ slots'[s].id = slots[s].id
           /\ Used' = Used \ D
           /\ \A s \in Slot : s \in Used <=> slots[s].used
<1>1. /\ D \subseteq Used
      /\ slots' = [s \in Slot |-> IF s \in D THEN Disconnected(sl[s]) ELSE sl[s]]
      /\ addrMap' = AddrMapWithout(D) /\ ids' = IdsWithout(D) /\ net' = NetWithout(D, n)
      /\ Remember(f) /\ QueueType' /\ stray' \in Seq(Piece)
      /\ turn' \in {"user", "accept", "clients", "spin"} /\ at' \in Nat
      /\ mixed' \subseteq Conn \X {"up", "down"}
      /\ UNCHANGED <<client, counter, opened>>
  BY DEF Turns
<1>2. /\ sl \in [Slot -> ServerSlot] /\ n \in [Conn -> Sock]
      /\ f \in [Conn -> [up : Flow, down : Flow]]
      /\ \A s \in Slot : /\ sl[s].used = slots[s].used /\ sl[s].conn = slots[s].conn
                         /\ sl[s].id = slots[s].id
  BY DEF Serves
<1>3. TypeInv
  BY DEF IInv, EndsInv
<1>4. \A s \in Slot : /\ sl[s] \in ServerSlot /\ Disconnected(sl[s]) \in ServerSlot
                      /\ ~Disconnected(sl[s]).used /\ Disconnected(sl[s]).received = <<>>
  BY <1>2, FreedFacts
<1>5. D \subseteq Slot
  BY <1>1 DEF Used
<1>6. /\ \A s \in D : slots'[s] = Disconnected(sl[s]) /\ ~slots'[s].used
                      /\ slots'[s].received = <<>>
      /\ \A s \in Slot \ D : /\ slots'[s] = sl[s] /\ slots'[s].used = slots[s].used
                             /\ slots'[s].conn = slots[s].conn
                             /\ slots'[s].id = slots[s].id
  BY <1>1, <1>2, <1>4, <1>5
<1>7. slots' \in [Slot -> ServerSlot]
  BY <1>1, <1>4
<1>8. Used' = Used \ D
  BY <1>5, <1>6 DEF Used
<1>9. addrMap' \subseteq [conn : Conn, slot : Slot]
  BY <1>1, <1>3 DEF AddrMapWithout, TypeInv, ServerType
<1>10. ids' \in SUBSET Entry /\ IsFiniteSet(ids')
  <2>1. ids' \subseteq ids
    BY <1>1 DEF IdsWithout
  <2>2. ids \in SUBSET Entry /\ IsFiniteSet(ids)
    BY <1>3 DEF TypeInv, ServerType
  <2> QED
    BY <2>1, <2>2, FS_Subset
<1>11. ServerType'
  <2>1. counter' \in Nat
    BY <1>1, <1>3 DEF TypeInv, ServerType
  <2> QED
    BY <1>1, <1>7, <1>9, <1>10, <2>1 DEF ServerType
<1>12. net' \in [Conn -> Sock]
  <2>1. \A k \in Conn : n[k] \in Sock /\ CloseServer(n[k]) \in Sock
    BY <1>2, SockFacts
  <2> QED
    BY <1>1, <2>1 DEF NetWithout
<1>13. flow' \in [Conn -> [up : Flow, down : Flow]]
  BY <1>1, <1>2, RememberFacts
<1>14. NetType' /\ ClientType'
  BY <1>1, <1>3, <1>12, <1>13 DEF TypeInv, NetType, ClientType
<1>15. \A s \in Slot : s \in Used <=> slots[s].used
  BY DEF Used
<1> QED
  BY <1>1, <1>6, <1>8, <1>11, <1>14, <1>15 DEF TypeInv

\* What the step does to each connection.
LEMMA TurnsConn ==
    ASSUME IInv, NEW sl, NEW n, NEW f, NEW D, Turns(sl, n, f, D), Serves(sl, n, f, D),
           NEW k \in Conn
    PROVE  /\ net'[k].client = net[k].client /\ net'[k].owner = net[k].owner
           /\ \A s \in Used : k = slots[s].conn =>
                /\ net[k].server = "open"
                /\ s \in D => /\ net'[k] = CloseServer(n[k])
                              /\ \/ flow'[k] = f[k]
                                 \/ net[k].client = "closed" /\ flow'[k] = NoFlows
                /\ s \notin D => net'[k] = n[k] /\ flow'[k] = f[k]
           /\ (\A s \in Used : k # slots[s].conn) =>
                /\ net'[k] = net[k]
                /\ \/ flow'[k] = flow[k]
                   \/ /\ net[k].client = "closed" /\ net[k].server = "closed"
                      /\ flow'[k] = NoFlows
<1>1. /\ D \subseteq Used /\ net' = NetWithout(D, n) /\ Remember(f)
  BY DEF Turns
<1>2. /\ n \in [Conn -> Sock] /\ f \in [Conn -> [up : Flow, down : Flow]]
      /\ (\A s \in Used : slots[s].conn # k) => n[k] = net[k] /\ f[k] = flow[k]
      /\ \A s \in Used : k = slots[s].conn =>
            /\ n[k].owner = net[k].owner /\ n[k].client = net[k].client
            /\ n[k].server = net[k].server
  BY DEF Serves
<1>3. /\ n[k] \in Sock
      /\ CloseServer(n[k]).server = "closed" /\ CloseServer(n[k]).client = n[k].client
      /\ CloseServer(n[k]).owner = n[k].owner
  BY <1>2, SockFacts
<1>4. net'[k] = IF \E s \in D : slots[s].conn = k THEN CloseServer(n[k]) ELSE n[k]
  BY <1>1 DEF NetWithout
<1>5. \/ flow'[k] = f[k]
      \/ /\ net'[k].client = "closed" /\ net'[k].server = "closed"
         /\ flow'[k] = NoFlows
  BY <1>1, <1>2, RememberFacts
<1>6. \A s \in Used : k = slots[s].conn =>
          net[k].server = "open" /\ \A t \in Used : k = slots[t].conn => t = s
  BY DEF IInv, EndsInv, ServerEnds, Used
<1>7. ASSUME NEW s \in Used, k = slots[s].conn
      PROVE  /\ net[k].server = "open"
             /\ net'[k].client = net[k].client /\ net'[k].owner = net[k].owner
             /\ s \in D => /\ net'[k] = CloseServer(n[k])
                           /\ \/ flow'[k] = f[k]
                              \/ net[k].client = "closed" /\ flow'[k] = NoFlows
             /\ s \notin D => net'[k] = n[k] /\ flow'[k] = f[k]
  <2>1. net[k].server = "open" /\ ((\E t \in D : slots[t].conn = k) <=> s \in D)
    BY <1>1, <1>6, <1>7
  <2>2. CASE s \in D
    BY <1>2, <1>3, <1>4, <1>5, <1>7, <2>1, <2>2
  <2>3. CASE s \notin D
    BY <1>2, <1>3, <1>4, <1>5, <1>7, <2>1, <2>3
  <2> QED
    BY <2>1, <2>2, <2>3
<1>8. ASSUME \A s \in Used : k # slots[s].conn
      PROVE  /\ net'[k] = net[k]
             /\ \/ flow'[k] = flow[k]
                \/ /\ net[k].client = "closed" /\ net[k].server = "closed"
                   /\ flow'[k] = NoFlows
  BY <1>1, <1>2, <1>4, <1>5, <1>8
<1> QED
  BY <1>7, <1>8

\* ... the ends and the tables, ...
LEMMA TurnsEnds ==
    ASSUME IInv, NEW sl, NEW n, NEW f, NEW D, Turns(sl, n, f, D), Serves(sl, n, f, D)
    PROVE  ClientEnds' /\ ServerEnds' /\ Untouched' /\ SlotsAgree'
<1>1. /\ D \subseteq Used
      /\ addrMap' = AddrMapWithout(D) /\ ids' = IdsWithout(D)
      /\ \A c \in Client : queue'[c] = queue[c]
      /\ turn' = "clients" => at' \in Used \ D
      /\ UNCHANGED <<client, counter, opened>>
  BY DEF Turns
<1>2. /\ \A s \in D : ~slots'[s].used /\ slots'[s].received = <<>>
      /\ \A s \in Slot \ D : /\ slots'[s] = sl[s] /\ slots'[s].used = slots[s].used
                             /\ slots'[s].conn = slots[s].conn
                             /\ slots'[s].id = slots[s].id
      /\ Used' = Used \ D
      /\ \A s \in Slot : s \in Used <=> slots[s].used
  BY TurnsTypes
<1>3. \A k \in Conn : net'[k].client = net[k].client /\ net'[k].owner = net[k].owner
  BY TurnsConn
<1>4. ClientEnds'
  <2>1. \A c \in Client :
            /\ client[c].conn # NoConn =>
                  /\ client[c].conn \in Conn
                  /\ client[c].conn <= opened
                  /\ net[client[c].conn].client = "open"
                  /\ net[client[c].conn].owner = c
            /\ client[c].status \in {"Connecting", "Connected"} => client[c].conn # NoConn
            /\ client[c].last <= Len(queue[c])
    BY EndTypes DEF IInv, EndsInv, ClientEnds
  <2> QED
    BY <1>1, <1>3, <2>1 DEF ClientEnds
<1>5. ServerEnds'
  <2>1. ASSUME NEW s \in Slot
        PROVE  IF slots'[s].used
               THEN /\ slots'[s].conn # NoConn
                    /\ net'[slots'[s].conn].server = "open"
                    /\ slots'[s].last <= Len(queue'[Server])
                    /\ \A t \in Slot : slots'[t].used /\ slots'[t].conn = slots'[s].conn => t = s
               ELSE slots'[s].received = <<>>
    <3>1. CASE s \in D
      BY <1>2, <3>1
    <3>2. CASE s \notin Used
      <4>1. slots[s].received = <<>> /\ ~slots'[s].used
        BY <1>1, <1>2, <3>2 DEF IInv, EndsInv, ServerEnds
      <4>2. sl[s] = slots[s] /\ slots'[s] = sl[s]
        BY <1>1, <1>2, <3>2 DEF Serves
      <4> QED
        BY <4>1, <4>2
    <3>3. CASE s \in Used \ D
      <4>1. /\ slots'[s].used /\ slots'[s] = sl[s] /\ slots'[s].conn = slots[s].conn
        BY <1>2, <3>3
      <4>2. slots[s].conn \in Conn
        BY <1>2, <3>3, EndTypes
      <4>3. /\ net[slots[s].conn].server = "open"
            /\ \A t \in Slot : slots[t].used /\ slots[t].conn = slots[s].conn => t = s
        BY <1>2, <3>3 DEF IInv, EndsInv, ServerEnds
      <4>4. net'[slots[s].conn] = n[slots[s].conn]
        BY <3>3, <4>2, TurnsConn
      <4>5. n[slots[s].conn].server = net[slots[s].conn].server
        BY <3>3, <4>2 DEF Serves
      <4>6. sl[s].last <= Len(queue'[Server])
        BY <3>3 DEF Serves
      <4>7. \A t \in Slot : slots'[t].used => slots[t].used /\ slots'[t].conn = slots[t].conn
        BY <1>2
      <4> QED
        BY <4>1, <4>2, <4>3, <4>4, <4>5, <4>6, <4>7, ConnFacts
    <3> QED
      BY <1>2, <3>1, <3>2, <3>3
  <2> QED
    BY <1>1, <1>2, <2>1 DEF ServerEnds
<1>6. Untouched'
  <2> SUFFICES ASSUME NEW k \in Conn
               PROVE  /\ net'[k].client = "none" <=> k > opened'
                      /\ net'[k].client = "none" => flow'[k].up.put = <<>>
                      /\ net'[k].server = "none" => flow'[k].down.put = <<>>
    BY DEF Untouched
  <2>1. /\ net[k].client = "none" <=> k > opened
        /\ net[k].client = "none" => flow[k].up.put = <<>>
        /\ net[k].server = "none" => flow[k].down.put = <<>>
    BY DEF IInv, EndsInv, Untouched
  <2>2. NoFlows.up.put = <<>> /\ NoFlows.down.put = <<>>
    BY NoFlowFacts
  <2>3. CASE \A s \in Used : k # slots[s].conn
    <3>1. net'[k] = net[k] /\ (flow'[k] = flow[k] \/ flow'[k] = NoFlows)
      BY <2>3, TurnsConn
    <3> QED
      BY <1>1, <2>1, <2>2, <3>1
  <2>4. ASSUME NEW s \in Used, k = slots[s].conn
        PROVE  /\ net'[k].server # "none"
               /\ flow'[k].up.put = flow[k].up.put \/ flow'[k] = NoFlows
    <3>1. /\ net[k].server = "open"
          /\ s \in D => net'[k] = CloseServer(n[k]) /\ (flow'[k] = f[k] \/ flow'[k] = NoFlows)
          /\ s \notin D => net'[k] = n[k] /\ flow'[k] = f[k]
      BY <2>4, TurnsConn
    <3>2. n[k] \in Sock /\ n[k].server = net[k].server /\ f[k].up.put = flow[k].up.put
      BY <2>4 DEF Serves
    <3> QED
      BY <3>1, <3>2, SockFacts
  <2> QED
    BY <1>1, <1>3, <2>1, <2>2, <2>3, <2>4
<1>7. SlotsAgree'
  <2>1. /\ \A s \in Slot : slots[s].used =>
              addrMap \intersect [conn : Conn, slot : {s}]
                 = {[conn |-> slots[s].conn, slot |-> s]}
        /\ \A e \in addrMap : slots[e.slot].used
        /\ \A e \in ids : \E s \in Used : slots[s].id = e.id
    BY DEF IInv, SlotsAgree
  <2>2. addrMap \subseteq [conn : Conn, slot : Slot]
    BY DEF IInv, EndsInv, TypeInv, ServerType
  <2>3. ASSUME NEW s \in Slot, slots'[s].used
        PROVE  addrMap' \intersect [conn : Conn, slot : {s}]
                 = {[conn |-> slots'[s].conn, slot |-> s]}
    <3>1. s \notin D /\ slots[s].used /\ slots'[s].conn = slots[s].conn
      BY <1>2, <2>3
    <3>2. addrMap' \intersect [conn : Conn, slot : {s}]
            = addrMap \intersect [conn : Conn, slot : {s}]
      BY <1>1, <3>1 DEF AddrMapWithout
    <3> QED
      BY <2>1, <3>1, <3>2
  <2>4. ASSUME NEW e \in addrMap'
        PROVE  slots'[e.slot].used
    <3>1. e \in addrMap /\ e.slot \notin D /\ e.slot \in Slot
      BY <1>1, <2>2 DEF AddrMapWithout
    <3> QED
      BY <1>2, <2>1, <3>1
  <2>5. ASSUME NEW e \in ids'
        PROVE  \E s \in Used' : slots'[s].id = e.id
    <3>1. e \in ids /\ e.id \notin {slots[s].id : s \in D}
      BY <1>1 DEF IdsWithout
    <3>2. PICK s \in Used : slots[s].id = e.id
      BY <2>1, <3>1
    <3>3. s \notin D /\ s \in Slot
      BY <3>1, <3>2 DEF Used
    <3> QED
      BY <1>2, <3>2, <3>3
  <2> QED
    BY <2>3, <2>4, <2>5 DEF SlotsAgree
<1> QED
  BY <1>4, <1>5, <1>6, <1>7

\* ... the messages of the frame, ...
LEMMA TurnsSkipsNothing ==
    ASSUME IInv, NEW sl, NEW n, NEW f, NEW D, Turns(sl, n, f, D), Serves(sl, n, f, D)
    PROVE  NothingSkipped'
<1>1. /\ D \subseteq Used
      /\ \A c \in Client : queue'[c] = queue[c]
      /\ client' = client
  BY DEF Turns
<1>2. /\ \A s \in Slot \ D : /\ slots'[s] = sl[s] /\ slots'[s].conn = slots[s].conn
      /\ Used' = Used \ D
      /\ \A s \in Slot : s \in Used <=> slots[s].used
      /\ Used \subseteq Slot
  BY TurnsTypes, SlotFacts
<1>3. ASSUME NEW s \in Used', turn' # "spin"
      PROVE  flow'[slots'[s].conn].down.put
                \o Numbers(Addressed(Rest(queue'[Server], slots'[s].last), slots'[s].id))
               = flow'[slots'[s].conn].down.due
  <2>1. s \in Used \ D /\ s \in Slot /\ slots'[s] = sl[s] /\ slots'[s].conn = slots[s].conn
    BY <1>2
  <2>2. PICK k \in Conn : k = slots[s].conn
    BY <1>2, <2>1, EndTypes
  <2>3. flow'[k] = f[k]
    BY <2>1, <2>2, TurnsConn
  <2>4. f[k].down.put \o Numbers(Addressed(Rest(queue'[Server], sl[s].last), sl[s].id))
                  = f[k].down.due
    BY <1>3, <2>1, <2>2, ZenonT(60) DEF Serves
  <2> QED
    BY <2>1, <2>2, <2>3, <2>4, Zenon
<1>4. ASSUME NEW c \in Client, client[c].conn # NoConn
      PROVE  flow'[client[c].conn].up.put \o Numbers(Rest(queue[c], client[c].last))
                 = flow'[client[c].conn].up.due
  <2>1. PICK k \in Conn : k = client[c].conn /\ net[k].client = "open"
    BY <1>4, EndTypes, SMTT(40)
  <2>2. flow[k].up.put \o Numbers(Rest(queue[c], client[c].last)) = flow[k].up.due
    BY <1>4, <2>1 DEF IInv, NothingSkipped
  <2>3. flow'[k].up.put = flow[k].up.put /\ flow'[k].up.due = flow[k].up.due
    <3>1. CASE \A s \in Used : k # slots[s].conn
      <4>1. flow'[k] = flow[k]
        BY <2>1, <3>1, TurnsConn
      <4> QED
        BY <4>1
    <3>2. ASSUME NEW s \in Used, k = slots[s].conn
          PROVE  flow'[k].up.put = flow[k].up.put /\ flow'[k].up.due = flow[k].up.due
      <4>1. flow'[k] = f[k]
        BY <2>1, <3>2, TurnsConn
      <4>2. f[k].up.put = flow[k].up.put /\ f[k].up.due = flow[k].up.due
        BY <3>2 DEF Serves
      <4> QED
        BY <4>1, <4>2
    <3> QED
      BY <3>1, <3>2
  <2> QED
    BY <2>1, <2>2, <2>3, Zenon
<1> QED
  BY <1>1, <1>3, <1>4, Zenon DEF NothingSkipped

\* ... the streams ...
LEMMA TurnsHolds ==
    ASSUME IInv, NEW sl, NEW n, NEW f, NEW D, Turns(sl, n, f, D), Serves(sl, n, f, D)
    PROVE  UpHolds' /\ DownHolds'
<1>1. /\ D \subseteq Used /\ mixed \subseteq mixed' /\ client' = client
  BY DEF Turns
<1>2. /\ \A s \in Slot \ D : /\ slots'[s] = sl[s] /\ slots'[s].conn = slots[s].conn
      /\ Used' = Used \ D
      /\ \A s \in Slot : s \in Used <=> slots[s].used
      /\ Used \subseteq Slot
  BY TurnsTypes, SlotFacts
<1>3. ASSUME NEW k \in Conn
      PROVE  ClientReads(k)' = ClientReads(k) /\ ClientWrites(k)' = ClientWrites(k)
  <2>1. net'[k].client = net[k].client
    BY TurnsConn
  <2> QED
    BY <1>1, <2>1 DEF ClientReads, ClientWrites
\* Who is at the connection afterwards.
<1>4. ASSUME NEW s \in Used, NEW k \in Conn, k = slots[s].conn
      PROVE  /\ ServerReads(k)' \subseteq (IF s \in D THEN {} ELSE {sl[s].received})
             /\ ServerWrites(k)' \subseteq (IF s \in D THEN {} ELSE {sl[s].encoded})
  <2>1. net'[k].server # "none"
    <3>1. /\ net[k].server = "open"
          /\ s \in D => net'[k] = CloseServer(n[k])
          /\ s \notin D => net'[k] = n[k]
      BY <1>4, TurnsConn
    <3>2. n[k] \in Sock /\ n[k].server = net[k].server
      BY <1>4 DEF Serves
    <3> QED
      BY <3>1, <3>2, SockFacts
  <2>2. ASSUME NEW t \in Used', slots'[t].conn = k
        PROVE  t = s /\ s \notin D /\ slots'[t] = sl[s]
    <3>1. t \in Used /\ t \notin D /\ slots[t].conn = k /\ slots'[t] = sl[t]
      BY <1>2, <2>2
    <3>2. t = s
      BY <1>2, <1>4, <3>1 DEF IInv, EndsInv, ServerEnds
    <3> QED
      BY <3>1, <3>2
  <2>3. /\ ServerReads(k)' = {slots'[t].received : t \in {u \in Used' : slots'[u].conn = k}}
        /\ ServerWrites(k)' = {slots'[t].encoded : t \in {u \in Used' : slots'[u].conn = k}}
    BY <2>1 DEF ServerReads, ServerWrites
  <2> QED
    BY <2>2, <2>3
<1>5. ASSUME NEW k \in Conn, \A s \in Used : k # slots[s].conn
      PROVE  /\ ServerReads(k)' \subseteq ServerReads(k)
             /\ ServerWrites(k)' \subseteq ServerWrites(k)
  <2>1. net'[k] = net[k]
    BY <1>5, TurnsConn
  <2>2. \A t \in Used' : slots'[t].conn # k
    BY <1>2, <1>5
  <2>3. /\ ServerReads(k)' = {slots'[t].received : t \in {u \in Used' : slots'[u].conn = k}}
                               \union (IF net'[k].server = "none" THEN {<<>>} ELSE {})
        /\ ServerWrites(k)' = {slots'[t].encoded : t \in {u \in Used' : slots'[u].conn = k}}
                               \union (IF net'[k].server = "none" THEN {<<>>} ELSE {})
    BY DEF ServerReads, ServerWrites
  <2>4. /\ ServerReads(k)' \subseteq (IF net[k].server = "none" THEN {<<>>} ELSE {})
        /\ ServerWrites(k)' \subseteq (IF net[k].server = "none" THEN {<<>>} ELSE {})
    BY <2>1, <2>2, <2>3
  <2> QED
    BY <2>4 DEF ServerReads, ServerWrites
\* With nobody there and no history everything holds.
<1>6. ASSUME NEW k \in Conn, NEW w, NEW V
      PROVE  Holds(k, NoFlow, w, {}, V)
  <2>1. Holds(k, NoFlow, <<>>, {}, {})
    BY NoFlowFacts, HoldsNothing
  <2> QED
    BY <2>1 DEF Holds
<1>7. \A k \in Conn : /\ net[k].client = "closed" => ClientReads(k) = {}
                      /\ net[k].server = "closed" => ServerReads(k) = {}
  BY EndTypes
\* A connection that nobody of the server is at.
<1>8. ASSUME NEW k \in Conn, \A s \in Used : k # slots[s].conn
      PROVE  /\ <<k, "up">> \notin mixed =>
                   Holds(k, flow'[k].up, net'[k].up, ServerReads(k)', ClientWrites(k))
             /\ <<k, "down">> \notin mixed =>
                   Holds(k, flow'[k].down, net'[k].down, ClientReads(k), ServerWrites(k)')
  <2>1. /\ net'[k] = net[k]
        /\ \/ flow'[k] = flow[k]
           \/ /\ net[k].client = "closed" /\ net[k].server = "closed"
              /\ flow'[k] = NoFlows
    BY <1>8, TurnsConn
  <2>2. /\ ServerReads(k)' \subseteq ServerReads(k)
        /\ ServerWrites(k)' \subseteq ServerWrites(k)
    BY <1>5, <1>8
  <2>3. CASE flow'[k] = flow[k]
    <3>1. /\ <<k, "up">> \notin mixed =>
               Holds(k, flow[k].up, net[k].up, ServerReads(k), ClientWrites(k))
          /\ <<k, "down">> \notin mixed =>
               Holds(k, flow[k].down, net[k].down, ClientReads(k), ServerWrites(k))
      BY DEF IInv, UpHolds, DownHolds
    <3> QED
      BY <2>1, <2>2, <2>3, <3>1, HoldsFewer
  <2>4. CASE net[k].client = "closed" /\ net[k].server = "closed" /\ flow'[k] = NoFlows
    <3>1. /\ ServerReads(k)' = {} /\ ClientReads(k) = {}
          /\ flow'[k].up = NoFlow /\ flow'[k].down = NoFlow
      BY <1>7, <2>2, <2>4, NoFlowFacts
    <3> QED
      BY <1>6, <3>1
  <2> QED
    BY <2>1, <2>3, <2>4
\* The connection of the slot s.
<1>9. ASSUME NEW s \in Used, NEW k \in Conn, k = slots[s].conn
      PROVE  /\ <<k, "up">> \notin mixed' =>
                   Holds(k, flow'[k].up, net'[k].up, ServerReads(k)', ClientWrites(k))
             /\ <<k, "down">> \notin mixed' =>
                   Holds(k, flow'[k].down, net'[k].down, ClientReads(k), ServerWrites(k)')
  <2>1. /\ s \in D => /\ net'[k] = CloseServer(n[k])
                      /\ \/ flow'[k] = f[k]
                         \/ net[k].client = "closed" /\ flow'[k] = NoFlows
        /\ s \notin D => net'[k] = n[k] /\ flow'[k] = f[k]
    BY <1>9, TurnsConn
  <2>2. /\ <<k, "up">> \notin mixed' =>
                Holds(k, f[k].up, n[k].up, IF s \in D THEN {} ELSE {sl[s].received},
                      ClientWrites(k))
        /\ <<k, "down">> \notin mixed' =>
                Holds(k, f[k].down, n[k].down, ClientReads(k),
                      IF s \in D THEN {} ELSE {sl[s].encoded})
        /\ n[k] \in Sock /\ n[k].client = net[k].client
    BY <1>9 DEF Serves
  <2>3. /\ ServerReads(k)' \subseteq (IF s \in D THEN {} ELSE {sl[s].received})
        /\ ServerWrites(k)' \subseteq (IF s \in D THEN {} ELSE {sl[s].encoded})
    BY <1>4, <1>9
  <2>4. CASE s \notin D
    BY <2>1, <2>2, <2>3, <2>4, HoldsFewer
  <2>5. CASE s \in D
    <3>1. ServerReads(k)' = {} /\ ServerWrites(k)' = {}
      BY <2>3, <2>5
    <3>2. CASE flow'[k] = f[k]
      <4>1. <<k, "up">> \notin mixed' =>
               Holds(k, flow'[k].up, net'[k].up, ServerReads(k)', ClientWrites(k))
        BY <2>2, <2>5, <3>1, <3>2 DEF Holds
      <4>2. <<k, "down">> \notin mixed' =>
               Holds(k, flow'[k].down, net'[k].down, ClientReads(k), ServerWrites(k)')
        <5>1. CASE net[k].client = "closed"
          BY <1>7, <2>2, <2>5, <3>1, <3>2, <5>1 DEF Holds
        <5>2. CASE net[k].client # "closed"
          <6>1. net'[k].down = n[k].down
            BY <2>1, <2>2, <2>5, <5>2, SockFacts
          <6> QED
            BY <2>2, <2>5, <3>1, <3>2, <6>1
        <5> QED
          BY <5>1, <5>2
      <4> QED
        BY <4>1, <4>2
    <3>3. CASE net[k].client = "closed" /\ flow'[k] = NoFlows
      <4>1. /\ ClientReads(k) = {} /\ flow'[k].up = NoFlow /\ flow'[k].down = NoFlow
        BY <1>7, <3>3, NoFlowFacts
      <4> QED
        BY <1>6, <3>1, <4>1
    <3> QED
      BY <2>1, <2>5, <3>2, <3>3
  <2> QED
    BY <2>4, <2>5
<1>10. \A k \in Conn :
          /\ <<k, "up">> \notin mixed' =>
                   Holds(k, flow'[k].up, net'[k].up, ServerReads(k)', ClientWrites(k)')
          /\ <<k, "down">> \notin mixed' =>
                   Holds(k, flow'[k].down, net'[k].down, ClientReads(k)', ServerWrites(k)')
  BY <1>1, <1>3, <1>8, <1>9, Zenon
<1> QED
  BY <1>10 DEF UpHolds, DownHolds

\* ... and so the invariant.
LEMMA TurnsInv ==
    ASSUME IInv, NEW sl, NEW n, NEW f, NEW D, Turns(sl, n, f, D), Serves(sl, n, f, D)
    PROVE  IInv'
<1>1. TypeInv'
  BY TurnsTypes
<1>2. ClientEnds' /\ ServerEnds' /\ Untouched' /\ SlotsAgree'
  BY TurnsEnds
<1>3. NothingSkipped'
  BY TurnsSkipsNothing
<1>4. UpHolds' /\ DownHolds'
  BY TurnsHolds
<1> QED
  BY <1>1, <1>2, <1>3, <1>4 DEF IInv, EndsInv

\* A slot, and nobody in its place, at its connection.
LEMMA SlotHolds ==
    ASSUME IInv, NEW s \in Used, NEW k \in Conn, k = slots[s].conn
    PROVE  /\ net[k].server = "open"
           /\ <<k, "up">> \notin mixed =>
                /\ Holds(k, flow[k].up, net[k].up, {slots[s].received}, ClientWrites(k))
                /\ Holds(k, flow[k].up, net[k].up, {}, ClientWrites(k))
           /\ <<k, "down">> \notin mixed =>
                /\ Holds(k, flow[k].down, net[k].down, ClientReads(k), {slots[s].encoded})
                /\ Holds(k, flow[k].down, net[k].down, ClientReads(k), {})
<1>1. net[k].server = "open"
  BY SlotFacts DEF IInv, EndsInv, ServerEnds
<1>2. /\ <<k, "up">> \notin mixed =>
           Holds(k, flow[k].up, net[k].up, ServerReads(k), ClientWrites(k))
      /\ <<k, "down">> \notin mixed =>
           Holds(k, flow[k].down, net[k].down, ClientReads(k), ServerWrites(k))
  BY DEF IInv, UpHolds, DownHolds
<1>3. {slots[s].received} \subseteq ServerReads(k) /\ {slots[s].encoded} \subseteq ServerWrites(k)
  BY DEF ServerReads, ServerWrites
<1>4. {} \subseteq ServerReads(k) /\ {} \subseteq ServerWrites(k)
      /\ ClientReads(k) \subseteq ClientReads(k) /\ ClientWrites(k) \subseteq ClientWrites(k)
  OBVIOUS
<1> QED
  BY <1>1, <1>2, <1>3, <1>4, HoldsFewer

\* The server disconnects clients between two calls.
LEMMA ServerDisconnectInv ==
    ASSUME IInv, NEW D, D \subseteq Used, ServerDisconnect(D)
    PROVE  IInv'
<1>1. /\ turn = "user" /\ turn' = turn /\ at' = at /\ stray' = stray /\ mixed' = mixed
      /\ pending' = pending /\ queue' = queue /\ made' = made
      /\ slots' = [s \in Slot |-> IF s \in D THEN Disconnected(slots[s]) ELSE slots[s]]
      /\ addrMap' = AddrMapWithout(D)
      /\ ids' = IdsWithout(D)
      /\ net' = NetWithout(D, net)
      /\ Remember(flow)
      /\ UNCHANGED <<client, counter, opened>>
  BY DEF ServerDisconnect
<1>2. TypeInv
  BY DEF IInv, EndsInv
<1>3. Turns(slots, net, flow, D)
  <2>1. /\ QueueType' /\ stray' \in Seq(Piece) /\ at' \in Nat
        /\ mixed' \subseteq Conn \X {"up", "down"}
    BY <1>1, <1>2 DEF TypeInv, QueueType, ServerType, NetType
  <2> QED
    BY <1>1, <2>1 DEF Turns
<1>4. Serves(slots, net, flow, D)
  <2>1. /\ slots \in [Slot -> ServerSlot] /\ net \in [Conn -> Sock]
        /\ flow \in [Conn -> [up : Flow, down : Flow]]
    BY <1>2 DEF TypeInv, ServerType, NetType
  <2>2. \A s \in Used : slots[s].last <= Len(queue[Server])
    BY SlotFacts DEF IInv, EndsInv, ServerEnds
  <2>3. ASSUME NEW s \in Used, NEW k \in Conn, k = slots[s].conn
        PROVE  /\ <<k, "up">> \notin mixed' =>
                    Holds(k, flow[k].up, net[k].up, IF s \in D THEN {} ELSE {slots[s].received},
                          ClientWrites(k))
               /\ <<k, "down">> \notin mixed' =>
                    Holds(k, flow[k].down, net[k].down, ClientReads(k),
                          IF s \in D THEN {} ELSE {slots[s].encoded})
               /\ flow[k].down.put
                     \o Numbers(Addressed(Rest(queue'[Server], slots[s].last), slots[s].id))
                      = flow[k].down.due
    <3>1. flow[k].down.put
             \o Numbers(Addressed(Rest(queue[Server], slots[s].last), slots[s].id))
               = flow[k].down.due
      BY <1>1, <2>3 DEF IInv, NothingSkipped
    <3> QED
      BY <1>1, <2>3, <3>1, SlotHolds, ZenonT(60)
  <2> QED
    BY <1>1, <2>1, <2>2, <2>3 DEF Serves
<1> QED
  BY <1>3, <1>4, TurnsInv

\* Nobody is there to be accepted, or to be updated.
LEMMA AcceptedInv ==
    ASSUME IInv, Accepted
    PROVE  IInv'
<1>1. /\ turn' = "user" /\ at' = 0
      /\ UNCHANGED <<pending, queue, made, client, slots, addrMap, stray, ids, counter,
                     opened, net, flow, mixed>>
  <2>1. Used = {} /\ GoTo(Used, 0)
    BY DEF Accepted
  <2>2. (turn' = "user" /\ at' = 0) \/ at' \in Used
    BY <2>1, SlotFacts, GoToFacts
  <2> QED
    BY <2>1, <2>2 DEF Accepted
<1>2. TypeInv'
  BY <1>1 DEF IInv, EndsInv, TypeInv, QueueType, ClientType, ServerType, NetType
<1>3. ClientEnds' /\ ServerEnds' /\ Untouched'
  BY <1>1 DEF IInv, EndsInv, ClientEnds, ServerEnds, Untouched
<1>4. SlotsAgree'
  BY <1>1 DEF IInv, SlotsAgree, Used
<1>5. NothingSkipped'
  <2>1. turn # "spin"
    BY DEF Accepted
  <2> QED
    BY <1>1, <2>1, Zenon DEF IInv, NothingSkipped, Used
<1>6. UpHolds' /\ DownHolds'
  <2>1. Used' = Used
    BY <1>1 DEF Used
  <2>2. ASSUME NEW k \in Conn
        PROVE  /\ ServerReads(k)' = ServerReads(k) /\ ServerWrites(k)' = ServerWrites(k)
               /\ ClientReads(k)' = ClientReads(k) /\ ClientWrites(k)' = ClientWrites(k)
    BY <1>1, <2>1 DEF ServerReads, ServerWrites, ClientReads, ClientWrites
  <2> QED
    BY <1>1, <2>2 DEF IInv, UpHolds, DownHolds
<1> QED
  BY <1>2, <1>3, <1>4, <1>5, <1>6 DEF IInv, EndsInv

\* The slots, the history and who is disconnected, when the server begins with
\* the queue q.
FrameLate(newFrame) == IF newFrame THEN {s \in Used : slots[s].last # 0} ELSE {}

\* The slots behind the begin of a call.
FrameSlots(q, newFrame) ==
    [s \in Slot |-> IF newFrame /\ s \in Used \ FrameLate(newFrame)
                    THEN [slots[s] EXCEPT !.last = Begin(q)] ELSE slots[s]]

\* The history behind the begin of a call.
More(k, q, id) == [flow[k] EXCEPT !.down.due = @ \o Numbers(Addressed(q, id))]

FrameFlow(q, newFrame) ==
    [k \in Conn |->
        IF newFrame /\ \E s \in Used : slots[s].conn = k
        THEN More(k, q, slots[CHOOSE s \in Used : slots[s].conn = k].id)
        ELSE flow[k]]

\* The begin of a call is a step of this kind ...
LEMMA FrameTurns ==
    ASSUME IInv, ServerFrame
    PROVE  \E newFrame \in BOOLEAN, q \in Seq(Message) :
              /\ newFrame => q = queue'[Server]
              /\ ~newFrame => queue'[Server] = queue[Server]
              /\ turn = "user" /\ turn' = "accept" /\ mixed' = mixed
              /\ Turns(FrameSlots(q, newFrame), net, FrameFlow(q, newFrame),
                       FrameLate(newFrame))
<1>1. PICK ms \in Made(Server), newFrame \in BOOLEAN :
        LET q == pending[Server] \o ms
            D == IF newFrame THEN {s \in Used : slots[s].last # 0} ELSE {}
        IN  /\ Produce(Server, ms, newFrame)
            /\ slots' = [s \in Slot |->
                 CASE s \in D                 -> Disconnected(slots[s])
                   [] newFrame /\ s \in Used \ D -> [slots[s] EXCEPT !.last = Begin(q)]
                   [] OTHER                   -> slots[s]]
            /\ addrMap' = AddrMapWithout(D)
            /\ ids' = IdsWithout(D)
            /\ net' = NetWithout(D, net)
            /\ Remember([k \in Conn |->
                 IF newFrame /\ \E s \in Used : slots[s].conn = k
                 THEN [flow[k] EXCEPT !.down.due = @ \o Numbers(Addressed(q,
                         slots[CHOOSE s \in Used : slots[s].conn = k].id))]
                 ELSE flow[k]])
  BY DEF ServerFrame
<1> DEFINE q == pending[Server] \o ms
           D == FrameLate(newFrame)
<1>2. /\ Produce(Server, ms, newFrame)
      /\ slots' = [s \in Slot |->
                 CASE s \in D                 -> Disconnected(slots[s])
                   [] newFrame /\ s \in Used \ D -> [slots[s] EXCEPT !.last = Begin(q)]
                   [] OTHER                   -> slots[s]]
      /\ addrMap' = AddrMapWithout(D) /\ ids' = IdsWithout(D) /\ net' = NetWithout(D, net)
      /\ Remember(FrameFlow(q, newFrame))
  BY <1>1 DEF FrameLate, FrameFlow, More
<1>3. /\ turn = "user" /\ turn' = "accept" /\ at' = 0
      /\ UNCHANGED <<client, stray, counter, opened, mixed>>
  BY DEF ServerFrame
<1>4. TypeInv /\ Server \in Endpoint /\ \A c \in Client : c \in Endpoint \ {Server}
  BY ChannelAssumption DEF IInv, EndsInv, Endpoint
<1>5. /\ QueueType' /\ q \in Seq(Message)
      /\ queue'[Server] = IF newFrame THEN q ELSE queue[Server]
      /\ \A d \in Endpoint \ {Server} : queue'[d] = queue[d]
  BY <1>2, <1>4, ProduceType
<1> HIDE DEF q
<1>6. D \subseteq Used
  BY DEF FrameLate
<1>7. slots' = [s \in Slot |-> IF s \in D THEN Disconnected(FrameSlots(q, newFrame)[s])
                               ELSE FrameSlots(q, newFrame)[s]]
  <2>1. \A s \in Slot :
          FrameSlots(q, newFrame)[s] = IF newFrame /\ s \in Used \ D
                    THEN [slots[s] EXCEPT !.last = Begin(q)] ELSE slots[s]
    BY DEF FrameSlots
  <2> HIDE DEF D
  <2>2. \A s \in Slot :
           (CASE s \in D                 -> Disconnected(slots[s])
              [] newFrame /\ s \in Used \ D -> [slots[s] EXCEPT !.last = Begin(q)]
              [] OTHER                   -> slots[s])
             = IF s \in D THEN Disconnected(FrameSlots(q, newFrame)[s])
                               ELSE FrameSlots(q, newFrame)[s]
    <3> SUFFICES ASSUME NEW s \in Slot
                 PROVE  (CASE s \in D                 -> Disconnected(slots[s])
                           [] newFrame /\ s \in Used \ D -> [slots[s] EXCEPT !.last = Begin(q)]
                           [] OTHER                   -> slots[s])
                           = IF s \in D THEN Disconnected(FrameSlots(q, newFrame)[s])
                               ELSE FrameSlots(q, newFrame)[s]
      OBVIOUS
    <3>1. D = {} \/ newFrame
      BY DEF D, FrameLate
    <3>2. CASE s \in D
      <4>1. FrameSlots(q, newFrame)[s] = slots[s]
        BY <2>1, <3>2
      <4> QED
        BY <3>2, <4>1
    <3>3. CASE s \notin D
      BY <2>1, <3>3
    <3> QED
      BY <3>2, <3>3
  <2> QED
    BY <1>2, <2>2
<1>8. stray' \in Seq(Piece) /\ mixed' \subseteq Conn \X {"up", "down"}
  BY <1>3, <1>4 DEF TypeInv, ServerType, NetType
<1>9. Turns(FrameSlots(q, newFrame), net, FrameFlow(q, newFrame), D)
  BY <1>2, <1>3, <1>4, <1>5, <1>6, <1>7, <1>8 DEF Turns
<1> QED
  BY <1>3, <1>5, <1>9

\* The history of the connection of slot s.
LEMMA FrameFlowFacts ==
    ASSUME IInv, NEW newFrame \in BOOLEAN, NEW q \in Seq(Message)
    PROVE  /\ FrameFlow(q, newFrame) \in [Conn -> [up : Flow, down : Flow]]
           /\ \A k \in Conn : (\A s \in Used : slots[s].conn # k) =>
                 FrameFlow(q, newFrame)[k] = flow[k]
           /\ \A s \in Used, k \in Conn : k = slots[s].conn =>
                 /\ FrameFlow(q, newFrame)[k].up = flow[k].up
                 /\ FrameFlow(q, newFrame)[k].down.put = flow[k].down.put
                 /\ FrameFlow(q, newFrame)[k].down.got = flow[k].down.got
                 /\ FrameFlow(q, newFrame)[k].down.due =
                       IF newFrame THEN flow[k].down.due \o Numbers(Addressed(q, slots[s].id))
                       ELSE flow[k].down.due
<1>1. \A k \in Conn : flow[k] \in [up : Flow, down : Flow]
  BY EndTypes
<1>2. \A id : Numbers(Addressed(q, id)) \in Seq(Nat)
  <2>1. \A id : Addressed(q, id) \in Seq(Message)
    BY AddressedFacts
  <2> QED
    BY <2>1, FittingType
<1>3. ASSUME NEW s \in Used, NEW k \in Conn, k = slots[s].conn
      PROVE  (CHOOSE t \in Used : slots[t].conn = k) = s
  <2>1. \A t \in Used : slots[t].conn = k => t = s
    BY <1>3, SlotFacts DEF IInv, EndsInv, ServerEnds
  <2> QED
    BY <1>3, <2>1
<1>4. ASSUME NEW k \in Conn, NEW id
      PROVE  /\ More(k, q, id) \in [up : Flow, down : Flow]
             /\ More(k, q, id).up = flow[k].up
             /\ More(k, q, id).down.put = flow[k].down.put
             /\ More(k, q, id).down.got = flow[k].down.got
             /\ More(k, q, id).down.due = flow[k].down.due \o Numbers(Addressed(q, id))
  <2>1. PICK more : more = Numbers(Addressed(q, id))
    OBVIOUS
  <2>2. more \in Seq(Nat) /\ flow[k].down.due \in Seq(Nat)
    BY <1>1, <1>2, <2>1 DEF Flow
  <2>3. flow[k].down.due \o more \in Seq(Nat)
    BY <2>2, ConcatProperties
  <2> QED
    BY <1>1, <2>1, <2>3 DEF Flow, More
<1>5. ASSUME NEW k \in Conn
      PROVE  FrameFlow(q, newFrame)[k] \in [up : Flow, down : Flow]
  <2>1. FrameFlow(q, newFrame)[k] = flow[k] \/ \E id : FrameFlow(q, newFrame)[k] = More(k, q, id)
    BY DEF FrameFlow
  <2> QED
    BY <1>1, <1>4, <2>1
<1>6. ASSUME NEW s \in Used, NEW k \in Conn, k = slots[s].conn
      PROVE  /\ FrameFlow(q, newFrame)[k].up = flow[k].up
             /\ FrameFlow(q, newFrame)[k].down.put = flow[k].down.put
             /\ FrameFlow(q, newFrame)[k].down.got = flow[k].down.got
             /\ FrameFlow(q, newFrame)[k].down.due =
                   IF newFrame THEN flow[k].down.due \o Numbers(Addressed(q, slots[s].id))
                   ELSE flow[k].down.due
  <2>1. CASE newFrame
    <3>1. FrameFlow(q, newFrame)[k] = More(k, q, slots[s].id)
      BY <1>3, <1>6, <2>1 DEF FrameFlow
    <3>2. /\ More(k, q, slots[s].id).up = flow[k].up
          /\ More(k, q, slots[s].id).down.put = flow[k].down.put
          /\ More(k, q, slots[s].id).down.got = flow[k].down.got
          /\ More(k, q, slots[s].id).down.due
               = flow[k].down.due \o Numbers(Addressed(q, slots[s].id))
      BY <1>4
    <3> QED
      BY <2>1, <3>1, <3>2
  <2>2. CASE ~newFrame
    BY <2>2 DEF FrameFlow
  <2> QED
    BY <2>1, <2>2
<1>7. FrameFlow(q, newFrame) \in [Conn -> [up : Flow, down : Flow]]
  BY <1>5 DEF FrameFlow
<1>8. \A k \in Conn : (\A s \in Used : slots[s].conn # k) => FrameFlow(q, newFrame)[k] = flow[k]
  BY DEF FrameFlow
<1> QED
  BY <1>6, <1>7, <1>8

\* ... and keeps the invariant.
LEMMA FrameInv ==
    ASSUME IInv, ServerFrame
    PROVE  IInv'
<1>1. PICK newFrame \in BOOLEAN, q \in Seq(Message) :
              /\ newFrame => q = queue'[Server]
              /\ ~newFrame => queue'[Server] = queue[Server]
              /\ turn = "user" /\ turn' = "accept" /\ mixed' = mixed
              /\ Turns(FrameSlots(q, newFrame), net, FrameFlow(q, newFrame),
                       FrameLate(newFrame))
  BY FrameTurns
<1> DEFINE sl == FrameSlots(q, newFrame)
           f == FrameFlow(q, newFrame)
           D == FrameLate(newFrame)
<1>2. TypeInv
  BY DEF IInv, EndsInv
<1>3. D \subseteq Used /\ (newFrame => \A s \in Used \ D : slots[s].last = 0)
  BY DEF FrameLate
<1>4. Begin(q) \in 0..Len(q) /\ Begin(q) \in Nat /\ Rest(q, Begin(q)) = q
  BY RestOfBegin
<1>5. /\ sl \in [Slot -> ServerSlot]
      /\ \A s \in Slot : /\ sl[s].used = slots[s].used /\ sl[s].id = slots[s].id
                         /\ sl[s].conn = slots[s].conn
                         /\ sl[s].received = slots[s].received
                         /\ sl[s].encoded = slots[s].encoded
                         /\ s \notin Used => sl[s] = slots[s]
                         /\ sl[s].last = IF newFrame /\ s \in Used \ D THEN Begin(q)
                                         ELSE slots[s].last
  <2>1. \A s \in Slot : slots[s] \in ServerSlot
    BY EndTypes
  <2>2. ASSUME NEW s \in Slot
        PROVE  /\ sl[s] \in ServerSlot
               /\ sl[s].used = slots[s].used /\ sl[s].id = slots[s].id
               /\ sl[s].conn = slots[s].conn
               /\ sl[s].received = slots[s].received
               /\ sl[s].encoded = slots[s].encoded
               /\ s \notin Used => sl[s] = slots[s]
               /\ sl[s].last = IF newFrame /\ s \in Used \ D THEN Begin(q) ELSE slots[s].last
    <3>1. sl[s] = IF newFrame /\ s \in Used \ D
                    THEN [slots[s] EXCEPT !.last = Begin(q)] ELSE slots[s]
      BY DEF FrameSlots
    <3> HIDE DEF sl, D
    <3> QED
      BY <1>4, <2>1, <3>1 DEF ServerSlot
  <2>3. sl = [s \in Slot |-> sl[s]]
    BY DEF FrameSlots
  <2> HIDE DEF sl
  <2> QED
    BY <2>2, <2>3
<1> HIDE DEF sl, f, D
<1>6. /\ f \in [Conn -> [up : Flow, down : Flow]]
      /\ \A k \in Conn : (\A s \in Used : slots[s].conn # k) => f[k] = flow[k]
      /\ \A s \in Used, k \in Conn : k = slots[s].conn =>
            /\ f[k].up = flow[k].up
            /\ f[k].down.put = flow[k].down.put
            /\ f[k].down.got = flow[k].down.got
            /\ f[k].down.due =
                  IF newFrame THEN flow[k].down.due \o Numbers(Addressed(q, slots[s].id))
                  ELSE flow[k].down.due
  BY FrameFlowFacts DEF f
<1>7. \A s \in Used \ D : sl[s].last <= Len(queue'[Server])
  <2>1. \A s \in Used : s \in Slot /\ slots[s].last <= Len(queue[Server])
    BY SlotFacts DEF IInv, EndsInv, ServerEnds
  <2>2. Begin(q) <= Len(q)
    BY <1>4
  <2> QED
    BY <1>1, <1>5, <2>1, <2>2
<1>8. ASSUME NEW s \in Used, NEW k \in Conn, k = slots[s].conn
      PROVE  /\ <<k, "up">> \notin mixed' =>
                   Holds(k, f[k].up, net[k].up, IF s \in D THEN {} ELSE {sl[s].received},
                         ClientWrites(k))
             /\ <<k, "down">> \notin mixed' =>
                   Holds(k, f[k].down, net[k].down, ClientReads(k),
                         IF s \in D THEN {} ELSE {sl[s].encoded})
  <2>1. /\ <<k, "up">> \notin mixed =>
              /\ Holds(k, flow[k].up, net[k].up, {slots[s].received}, ClientWrites(k))
              /\ Holds(k, flow[k].up, net[k].up, {}, ClientWrites(k))
        /\ <<k, "down">> \notin mixed =>
              /\ Holds(k, flow[k].down, net[k].down, ClientReads(k), {slots[s].encoded})
              /\ Holds(k, flow[k].down, net[k].down, ClientReads(k), {})
    BY <1>8, SlotHolds
  <2>2. /\ f[k].up = flow[k].up /\ f[k].down.put = flow[k].down.put
        /\ f[k].down.got = flow[k].down.got
    BY <1>6, <1>8
  <2>3. sl[s].received = slots[s].received /\ sl[s].encoded = slots[s].encoded
    BY <1>5, SlotFacts
  <2>4. \A A, B : <<k, "down">> \notin mixed /\ Holds(k, flow[k].down, net[k].down, A, B) =>
                    Holds(k, f[k].down, net[k].down, A, B)
    BY <2>2, HoldsFewer
  <2> QED
    BY <1>1, <2>1, <2>2, <2>3, <2>4
<1>9. ASSUME NEW s \in Used \ D, NEW k \in Conn, k = slots[s].conn
      PROVE  f[k].down.put \o Numbers(Addressed(Rest(queue'[Server], sl[s].last), sl[s].id))
                  = f[k].down.due
  <2>1. PICK id, w : id = slots[s].id /\ w = flow[k].down.put
    OBVIOUS
  <2>2. /\ f[k].down.put = w /\ sl[s].id = id
        /\ sl[s].last = IF newFrame THEN Begin(q) ELSE slots[s].last
        /\ f[k].down.due = IF newFrame THEN flow[k].down.due \o Numbers(Addressed(q, id))
                           ELSE flow[k].down.due
    BY <1>5, <1>6, <1>9, <2>1, SlotFacts, SMTT(40)
  <2>3. w \o Numbers(Addressed(Rest(queue[Server], slots[s].last), id)) = flow[k].down.due
    BY <1>1, <1>9, <2>1 DEF IInv, NothingSkipped
  <2>4. CASE newFrame
    <3>1. Rest(queue[Server], slots[s].last) = <<>>
      BY <1>3, <1>9, <2>4 DEF Rest
    <3>2. <<>> \in Seq(Message) /\ Addressed(<<>>, id) = <<>>
      <4>1. <<>> \in Seq(Message) /\ \A j \in 1..Len(<<>>) : ~Foreign(<<>>[j], id)
        OBVIOUS
      <4> QED
        BY <4>1, AddressedFacts
    <3>3. w \in Seq(Nat)
      BY <2>1, EndTypes DEF Flow
    <3>5. w \o Numbers(Addressed(Rest(queue[Server], slots[s].last), id)) = w \o <<>>
      BY <3>1, <3>2, NumbersFacts
    <3>4. flow[k].down.due = w
      BY <3>5, <2>3, <3>1, <3>2, <3>3, NumbersFacts
    <3> QED
      BY <1>1, <1>4, <2>2, <2>4, <3>4
  <2>5. CASE ~newFrame
    BY <1>1, <2>2, <2>3, <2>5
  <2> QED
    BY <2>4, <2>5
<1>10. Serves(sl, net, f, D)
  <2>1. net \in [Conn -> Sock]
    BY <1>2 DEF TypeInv, NetType
  <2>2. \A s \in Used, k \in Conn : k = slots[s].conn =>
           f[k].up.put = flow[k].up.put /\ f[k].up.due = flow[k].up.due
    BY <1>6
  <2> QED
    BY <1>5, <1>6, <1>7, <1>8, <1>9, <2>1, <2>2, ZenonT(60) DEF Serves
<1>11. Turns(sl, net, f, D)
  BY <1>1 DEF sl, f, D
<1> QED
  BY <1>10, <1>11, TurnsInv

\* The server is at no connection that it has not accepted.
LEMMA NotAccepted ==
    ASSUME IInv, NEW k \in Conn, net[k].server = "none"
    PROVE  \A s \in Slot : slots[s].used => slots[s].conn # k
  BY DEF IInv, EndsInv, ServerEnds

\* A new connection is closed at once.
Rejects(k) ==
    /\ net[k].server = "none"
    /\ net' = [net EXCEPT ![k] = CloseServer(@)]
    /\ turn = "accept"
    /\ \/ turn' = turn /\ at' \in Nat
       \/ GoTo(Used, 0)
    /\ UNCHANGED <<pending, queue, made, client, slots, addrMap, stray, ids, counter,
                   opened, flow, mixed>>

\* A socket that is closed at once.
LEMMA RejectsInv ==
    ASSUME IInv, NEW k \in Conn, Rejects(k)
    PROVE  IInv'
<1>1. /\ net[k].server = "none" /\ net' = [net EXCEPT ![k] = CloseServer(@)]
      /\ turn = "accept" /\ ((turn' = turn /\ at' \in Nat) \/ GoTo(Used, 0))
      /\ UNCHANGED <<pending, queue, made, client, slots, addrMap, stray, ids, counter,
                     opened, flow, mixed>>
  BY DEF Rejects
<1>2. TypeInv /\ net \in [Conn -> Sock] /\ net[k] \in Sock
  BY DEF IInv, EndsInv, TypeInv, NetType
<1>3. /\ CloseServer(net[k]) \in Sock
      /\ CloseServer(net[k]).server = "closed" /\ CloseServer(net[k]).client = net[k].client
      /\ CloseServer(net[k]).owner = net[k].owner
      /\ CloseServer(net[k]).down = IF net[k].client = "closed" THEN <<>> ELSE net[k].down
  BY <1>2, SockFacts
<1>4. /\ net' \in [Conn -> Sock] /\ net'[k] = CloseServer(net[k])
      /\ \A j \in Conn : j # k => net'[j] = net[j]
  BY <1>1, <1>2, <1>3
<1>5. \A j \in Conn : net'[j].client = net[j].client /\ net'[j].owner = net[j].owner
  BY <1>3, <1>4
<1>6. Used' = Used /\ Used \in SUBSET Nat
  BY <1>1, SlotFacts DEF Used
<1>7. /\ turn' \in {"user", "accept", "clients", "spin"} /\ at' \in Nat
      /\ turn' = "clients" => at' \in Used
  <2>1. CASE turn' = turn /\ at' \in Nat
    BY <1>1, <2>1
  <2>2. CASE GoTo(Used, 0)
    <3>1. (turn' = "user" /\ at' = 0) \/ (turn' = "clients" /\ at' \in Used)
      BY <1>6, <2>2, GoToFacts
    <3>2. \A s \in Used : s \in Nat
      BY <1>6
    <3>3. CASE turn' = "user" /\ at' = 0
      BY <3>3
    <3>4. CASE turn' = "clients" /\ at' \in Used
      BY <3>2, <3>4
    <3> QED
      BY <3>1, <3>3, <3>4
  <2> QED
    BY <1>1, <2>1, <2>2
<1>8. TypeInv'
  BY <1>1, <1>2, <1>4, <1>7 DEF TypeInv, QueueType, ClientType, ServerType, NetType
<1>9. ClientEnds'
  <2>1. \A c \in Client : client[c].conn # NoConn => client[c].conn \in Conn
    BY EndTypes
  <2> QED
    BY <1>1, <1>5, <2>1 DEF IInv, EndsInv, ClientEnds
<1>10. ServerEnds'
  <2>1. \A s \in Slot : slots[s].used =>
            slots[s].conn \in Conn /\ net'[slots[s].conn] = net[slots[s].conn]
    BY <1>1, <1>4, EndTypes, NotAccepted
  <2> QED
    BY <1>1, <1>6, <1>7, <2>1 DEF IInv, EndsInv, ServerEnds
<1>11. Untouched'
  <2>1. \A j \in Conn : net'[j].server = "none" => net[j].server = "none"
    BY <1>3, <1>4
  <2> QED
    BY <1>1, <1>5, <2>1 DEF IInv, EndsInv, Untouched
<1>12. SlotsAgree'
  BY <1>1, <1>6 DEF IInv, SlotsAgree
<1>13. NothingSkipped'
  BY <1>1, <1>6, Zenon DEF IInv, NothingSkipped
<1>14. ASSUME NEW j \in Conn
       PROVE  /\ <<j, "up">> \notin mixed' =>
                   Holds(j, flow'[j].up, net'[j].up, ServerReads(j)', ClientWrites(j)')
              /\ <<j, "down">> \notin mixed' =>
                   Holds(j, flow'[j].down, net'[j].down, ClientReads(j)', ServerWrites(j)')
  <2>1. /\ <<j, "up">> \notin mixed =>
             Holds(j, flow[j].up, net[j].up, ServerReads(j), ClientWrites(j))
        /\ <<j, "down">> \notin mixed =>
             Holds(j, flow[j].down, net[j].down, ClientReads(j), ServerWrites(j))
    BY DEF IInv, UpHolds, DownHolds
  <2>2. ClientReads(j)' = ClientReads(j) /\ ClientWrites(j)' = ClientWrites(j)
    BY <1>1, <1>5 DEF ClientReads, ClientWrites
  <2>3. CASE j # k
    <3>1. ServerReads(j)' = ServerReads(j) /\ ServerWrites(j)' = ServerWrites(j)
      BY <1>1, <1>4, <1>6, <2>3 DEF ServerReads, ServerWrites
    <3> QED
      BY <1>1, <1>4, <2>1, <2>2, <2>3, <3>1
  <2>4. CASE j = k
    <3>1. ServerReads(j)' = {} /\ ServerWrites(j)' = {}
      <4>1. \A s \in Used : slots[s].conn # j
        BY <1>1, <2>4, NotAccepted DEF Used
      <4> QED
        BY <1>1, <1>3, <1>4, <1>6, <2>4, <4>1 DEF ServerReads, ServerWrites
    <3>2. /\ <<j, "up">> \notin mixed => \A w : Holds(j, flow[j].up, w, {}, ClientWrites(j))
          /\ <<j, "down">> \notin mixed =>
                Holds(j, flow[j].down, net[j].down, ClientReads(j), {})
      BY <2>1 DEF Holds
    <3>3. CASE net[j].client = "closed"
      <4>1. ClientReads(j) = {}
        BY <3>3, EndTypes
      <4>2. <<j, "down">> \notin mixed => \A w : Holds(j, flow[j].down, w, {}, {})
        BY <2>1 DEF Holds
      <4> QED
        BY <1>1, <2>2, <3>1, <3>2, <4>1, <4>2
    <3>4. CASE net[j].client # "closed"
      <4>1. net'[j].down = net[j].down
        BY <1>3, <1>4, <2>4, <3>4
      <4> QED
        BY <1>1, <2>2, <3>1, <3>2, <4>1
    <3> QED
      BY <3>3, <3>4
  <2> QED
    BY <2>3, <2>4
<1>15. UpHolds' /\ DownHolds'
  BY <1>14 DEF UpHolds, DownHolds
<1> QED
  BY <1>8, <1>9, <1>10, <1>11, <1>12, <1>13, <1>15 DEF IInv, EndsInv

\* The new connection k gets the free slot s and the id.
Admits(k, s, id) ==
    /\ net[k].server = "none"
    /\ s \in Slot /\ ~slots[s].used
    /\ id \in Nat
    /\ slots' = [slots EXCEPT ![s].used = TRUE, ![s].id = id, ![s].conn = k,
                              ![s].last = Begin(queue[Server])]
    /\ addrMap' = addrMap \union {[conn |-> k, slot |-> s]}
    /\ ids' = ids \union {[id |-> id, addr |-> net[k].owner]}
    /\ counter' \in {counter, id}
    /\ net' = [net EXCEPT ![k].server = "open"]
    /\ flow' = [flow EXCEPT ![k].down.due = Numbers(Addressed(queue[Server], id))]
    /\ mixed' = IF slots[s].encoded = <<>> THEN mixed ELSE mixed \union {<<k, "down">>}
    /\ turn = "accept" /\ turn' = turn /\ at' \in Nat
    /\ UNCHANGED <<pending, queue, made, client, stray, opened>>

\* A socket that gets a slot: the types ...
LEMMA AdmitsTypes ==
    ASSUME IInv, NEW k \in Conn, NEW s, NEW id, Admits(k, s, id)
    PROVE  /\ TypeInv'
           /\ slots'[s].used /\ slots'[s].id = id /\ slots'[s].conn = k
           /\ slots'[s].last = Begin(queue[Server])
           /\ slots'[s].encoded = slots[s].encoded /\ slots'[s].received = slots[s].received
           /\ \A t \in Slot \ {s} : slots'[t] = slots[t]
           /\ net'[k].server = "open" /\ net'[k].client = net[k].client
           /\ net'[k].owner = net[k].owner
           /\ net'[k].up = net[k].up /\ net'[k].down = net[k].down
           /\ \A j \in Conn \ {k} : net'[j] = net[j] /\ flow'[j] = flow[j]
           /\ flow'[k].up = flow[k].up /\ flow'[k].down.put = flow[k].down.put
           /\ flow'[k].down.got = flow[k].down.got
           /\ flow'[k].down.due = Numbers(Addressed(queue[Server], id))
           /\ Used' = Used \union {s}
           /\ Begin(queue[Server]) <= Len(queue[Server])
           /\ Rest(queue[Server], Begin(queue[Server])) = queue[Server]
<1>1. TypeInv /\ s \in Slot /\ id \in Nat
  BY DEF Admits, IInv, EndsInv
<1>2. queue[Server] \in Seq(Message)
  BY <1>1 DEF TypeInv, QueueType, Endpoint
<1>3. PICK q, b, due : /\ q = queue[Server] /\ b = Begin(q)
                       /\ due = Numbers(Addressed(q, id))
  OBVIOUS
<1>4. b \in 0..Len(q) /\ b \in Nat /\ b <= Len(q) /\ Rest(q, b) = q
  BY <1>2, <1>3, RestOfBegin
<1>5. due \in Seq(Nat)
  <2>1. Addressed(q, id) \in Seq(Message)
    BY <1>2, <1>3, AddressedFacts
  <2> QED
    BY <1>3, <2>1, FittingType
<1>6. /\ slots' = [slots EXCEPT ![s].used = TRUE, ![s].id = id, ![s].conn = k, ![s].last = b]
      /\ net' = [net EXCEPT ![k].server = "open"]
      /\ flow' = [flow EXCEPT ![k].down.due = due]
  BY <1>3 DEF Admits
<1>7. /\ slots \in [Slot -> ServerSlot] /\ net \in [Conn -> Sock]
      /\ flow \in [Conn -> [up : Flow, down : Flow]]
  BY <1>1 DEF TypeInv, ServerType, NetType
<1>8. /\ slots' \in [Slot -> ServerSlot]
      /\ slots'[s].used /\ slots'[s].id = id /\ slots'[s].conn = k /\ slots'[s].last = b
      /\ slots'[s].encoded = slots[s].encoded /\ slots'[s].received = slots[s].received
      /\ \A t \in Slot \ {s} : slots'[t] = slots[t]
  <2> DEFINE new == [slots[s] EXCEPT !.used = TRUE, !.id = id, !.conn = k, !.last = b]
  <2>1. slots' = [slots EXCEPT ![s] = new]
    BY <1>1, <1>6, <1>7
  <2>2. k \in Ref /\ slots[s] \in ServerSlot /\ id \in Int
    BY <1>1, <1>7, ConnFacts
  <2>3. /\ new \in ServerSlot /\ new.used /\ new.id = id /\ new.conn = k /\ new.last = b
        /\ new.encoded = slots[s].encoded /\ new.received = slots[s].received
    BY <1>4, <2>2 DEF ServerSlot
  <2> HIDE DEF new
  <2> QED
    BY <1>1, <1>7, <2>1, <2>3
<1>9. /\ net' \in [Conn -> Sock]
      /\ net'[k].server = "open" /\ net'[k].client = net[k].client
      /\ net'[k].owner = net[k].owner
      /\ net'[k].up = net[k].up /\ net'[k].down = net[k].down
      /\ \A j \in Conn \ {k} : net'[j] = net[j]
  BY <1>6, <1>7 DEF Sock
<1>10. /\ flow' \in [Conn -> [up : Flow, down : Flow]]
       /\ flow'[k].up = flow[k].up /\ flow'[k].down.put = flow[k].down.put
       /\ flow'[k].down.got = flow[k].down.got /\ flow'[k].down.due = due
       /\ \A j \in Conn \ {k} : flow'[j] = flow[j]
  <2> DEFINE new == [flow[k] EXCEPT !.down.due = due]
  <2>1. flow' = [flow EXCEPT ![k] = new]
    BY <1>6, <1>7
  <2>2. /\ new \in [up : Flow, down : Flow] /\ new.up = flow[k].up
        /\ new.down.put = flow[k].down.put /\ new.down.got = flow[k].down.got
        /\ new.down.due = due
    BY <1>5, <1>7 DEF Flow
  <2> HIDE DEF new
  <2> QED
    BY <1>7, <2>1, <2>2
<1>11. Used' = Used \union {s}
  BY <1>1, <1>8 DEF Used
<1>12. ServerType'
  <2>1. addrMap' \subseteq [conn : Conn, slot : Slot]
    BY <1>1 DEF Admits, TypeInv, ServerType
  <2>2. ids' \in SUBSET Entry /\ IsFiniteSet(ids')
    <3>1. net[k].owner \in Endpoint
      BY <1>7 DEF Sock
    <3>2. [id |-> id, addr |-> net[k].owner] \in Entry
      BY <1>1, <3>1 DEF Entry
    <3>3. ids' = ids \union {[id |-> id, addr |-> net[k].owner]}
      BY DEF Admits
    <3>4. ids \in SUBSET Entry /\ IsFiniteSet(ids)
      BY <1>1 DEF TypeInv, ServerType
    <3> QED
      BY <3>2, <3>3, <3>4, FS_AddElement
  <2>3. /\ stray' \in Seq(Piece) /\ at' \in Nat /\ counter' \in Nat
        /\ turn' \in {"user", "accept", "clients", "spin"}
    BY <1>1 DEF Admits, TypeInv, ServerType
  <2> QED
    BY <1>8, <2>1, <2>2, <2>3 DEF ServerType
<1>13. TypeInv'
  <2>1. mixed' \subseteq Conn \X {"up", "down"}
    BY <1>1 DEF Admits, TypeInv, NetType
  <2>2. UNCHANGED <<pending, queue, made, client, opened>>
    BY DEF Admits
  <2> QED
    BY <1>1, <1>9, <1>10, <1>12, <2>1, <2>2 DEF TypeInv, QueueType, ClientType, NetType
<1> QED
  BY <1>3, <1>4, <1>8, <1>9, <1>10, <1>11, <1>13

\* ... and the invariant.
LEMMA AdmitsInv ==
    ASSUME IInv, NEW k \in Conn, NEW s, NEW id, Admits(k, s, id)
    PROVE  IInv'
<1>1. /\ net[k].server = "none" /\ s \in Slot /\ ~slots[s].used /\ id \in Nat
      /\ addrMap' = addrMap \union {[conn |-> k, slot |-> s]}
      /\ ids' = ids \union {[id |-> id, addr |-> net[k].owner]}
      /\ mixed' = (IF slots[s].encoded = <<>> THEN mixed ELSE mixed \union {<<k, "down">>})
      /\ turn = "accept" /\ turn' = turn
      /\ UNCHANGED <<pending, queue, made, client, opened>>
  BY DEF Admits
<1>2. /\ TypeInv'
      /\ slots'[s].used /\ slots'[s].id = id /\ slots'[s].conn = k
      /\ slots'[s].last = Begin(queue[Server])
      /\ slots'[s].encoded = slots[s].encoded /\ slots'[s].received = slots[s].received
      /\ \A t \in Slot \ {s} : slots'[t] = slots[t]
  BY AdmitsTypes
<1>3. /\ net'[k].server = "open" /\ net'[k].client = net[k].client
      /\ net'[k].owner = net[k].owner
      /\ net'[k].up = net[k].up /\ net'[k].down = net[k].down
      /\ \A j \in Conn \ {k} : net'[j] = net[j] /\ flow'[j] = flow[j]
      /\ flow'[k].up = flow[k].up /\ flow'[k].down.put = flow[k].down.put
      /\ flow'[k].down.got = flow[k].down.got
      /\ flow'[k].down.due = Numbers(Addressed(queue[Server], id))
  BY AdmitsTypes
<1>4. /\ Used' = Used \union {s}
      /\ Begin(queue[Server]) <= Len(queue[Server])
      /\ Rest(queue[Server], Begin(queue[Server])) = queue[Server]
  BY AdmitsTypes
<1>5. \A t \in Slot : slots[t].used =>
         slots[t].conn \in Conn /\ slots[t].conn # k /\ t # s /\ slots'[t] = slots[t]
  BY <1>1, <1>2, EndTypes, NotAccepted
<1>6. \A j \in Conn : net'[j].client = net[j].client /\ net'[j].owner = net[j].owner
  BY <1>3
<1>7. ClientEnds'
  <2>1. \A c \in Client : client[c].conn # NoConn => client[c].conn \in Conn
    BY EndTypes
  <2> QED
    BY <1>1, <1>6, <2>1 DEF IInv, EndsInv, ClientEnds
<1>8. ServerEnds'
  <2>1. ASSUME NEW t \in Slot
        PROVE  IF slots'[t].used
               THEN /\ slots'[t].conn # NoConn
                    /\ net'[slots'[t].conn].server = "open"
                    /\ slots'[t].last <= Len(queue'[Server])
                    /\ \A u \in Slot : slots'[u].used /\ slots'[u].conn = slots'[t].conn => u = t
               ELSE slots'[t].received = <<>>
    <3>1. CASE t = s
      <4>1. \A u \in Slot : slots'[u].used /\ slots'[u].conn = k => u = s
        BY <1>2, <1>5
      <4> QED
        BY <1>1, <1>2, <1>3, <1>4, <3>1, <4>1, ConnFacts
    <3>2. CASE t # s /\ slots[t].used
      <4>1. /\ slots[t].conn # NoConn /\ net[slots[t].conn].server = "open"
            /\ slots[t].last <= Len(queue[Server])
            /\ \A u \in Slot : slots[u].used /\ slots[u].conn = slots[t].conn => u = t
        BY <3>2 DEF IInv, EndsInv, ServerEnds
      <4>2. \A u \in Slot : slots'[u].used => u = s \/ (slots[u].used /\ slots'[u] = slots[u])
        BY <1>2
      <4> QED
        BY <1>1, <1>2, <1>3, <1>5, <3>2, <4>1, <4>2
    <3>3. CASE t # s /\ ~slots[t].used
      BY <1>2, <3>3 DEF IInv, EndsInv, ServerEnds
    <3> QED
      BY <3>1, <3>2, <3>3
  <2> QED
    BY <1>1, <2>1 DEF ServerEnds
<1>9. Untouched'
  <2>1. \A j \in Conn : /\ net'[j].server = "none" => net[j].server = "none"
                        /\ flow'[j].up.put = flow[j].up.put
                        /\ flow'[j].down.put = flow[j].down.put
    BY <1>3
  <2> QED
    BY <1>1, <1>6, <2>1 DEF IInv, EndsInv, Untouched
<1>10. SlotsAgree'
  <2>1. /\ \A t \in Slot : slots[t].used =>
              addrMap \intersect [conn : Conn, slot : {t}]
                 = {[conn |-> slots[t].conn, slot |-> t]}
        /\ \A e \in addrMap : slots[e.slot].used
        /\ \A e \in ids : \E t \in Used : slots[t].id = e.id
    BY DEF IInv, SlotsAgree
  <2>2. addrMap \subseteq [conn : Conn, slot : Slot]
    BY DEF IInv, EndsInv, TypeInv, ServerType
  <2>3. ASSUME NEW t \in Slot, slots'[t].used
        PROVE  addrMap' \intersect [conn : Conn, slot : {t}]
                 = {[conn |-> slots'[t].conn, slot |-> t]}
    <3>1. CASE t = s
      <4>1. \A e \in addrMap : e.slot # s
        BY <1>1, <2>1
      <4>2. addrMap \intersect [conn : Conn, slot : {s}] = {}
        BY <4>1
      <4> QED
        BY <1>1, <1>2, <3>1, <4>2
    <3>2. CASE t # s
      <4>1. slots'[t] = slots[t] /\ slots[t].used
        BY <1>2, <2>3, <3>2
      <4>2. addrMap' \intersect [conn : Conn, slot : {t}]
              = addrMap \intersect [conn : Conn, slot : {t}]
        BY <1>1, <3>2
      <4> QED
        BY <2>1, <4>1, <4>2
    <3> QED
      BY <3>1, <3>2
  <2>4. ASSUME NEW e \in addrMap'
        PROVE  slots'[e.slot].used
    <3>1. CASE e \in addrMap
      BY <1>5, <2>1, <2>2, <3>1
    <3>2. CASE e = [conn |-> k, slot |-> s]
      BY <1>2, <3>2
    <3> QED
      BY <1>1, <3>1, <3>2
  <2>5. ASSUME NEW e \in ids'
        PROVE  \E t \in Used' : slots'[t].id = e.id
    <3>1. CASE e \in ids
      <4>1. PICK t \in Used : slots[t].id = e.id
        BY <2>1, <3>1
      <4>2. slots'[t] = slots[t] /\ t \in Used'
        BY <1>4, <1>5, SlotFacts
      <4> QED
        BY <4>1, <4>2
    <3>2. CASE e = [id |-> id, addr |-> net[k].owner]
      BY <1>2, <1>4, <3>2
    <3> QED
      BY <1>1, <3>1, <3>2
  <2> QED
    BY <2>3, <2>4, <2>5 DEF SlotsAgree
<1>11. NothingSkipped'
  <2>1. ASSUME NEW t \in Used'
        PROVE  flow'[slots'[t].conn].down.put
                 \o Numbers(Addressed(Rest(queue'[Server], slots'[t].last), slots'[t].id))
                 = flow'[slots'[t].conn].down.due
    <3>1. CASE t = s
      <4>1. flow[k].down.put = <<>>
        BY <1>1 DEF IInv, EndsInv, Untouched
      <4>2. Numbers(Addressed(queue[Server], id)) \in Seq(Nat)
        BY <1>2, <1>3 DEF TypeInv, NetType, Flow
      <4>3. <<>> \o Numbers(Addressed(queue[Server], id)) = Numbers(Addressed(queue[Server], id))
        BY <4>2, NumbersFacts
      <4> QED
        BY <1>1, <1>2, <1>3, <1>4, <3>1, <4>1, <4>3
    <3>2. CASE t # s
      <4>1. t \in Used /\ slots'[t] = slots[t] /\ slots[t].conn \in Conn /\ slots[t].conn # k
        BY <1>4, <1>5, <3>2, SlotFacts
      <4>2. flow[slots[t].conn].down.put
                 \o Numbers(Addressed(Rest(queue[Server], slots[t].last), slots[t].id))
                 = flow[slots[t].conn].down.due
        BY <1>1, <4>1, Zenon DEF IInv, NothingSkipped
      <4> QED
        BY <1>1, <1>3, <4>1, <4>2, ZenonT(60)
    <3> QED
      BY <3>1, <3>2
  <2>2. ASSUME NEW c \in Client, client[c].conn # NoConn
        PROVE  flow'[client[c].conn].up.put \o Numbers(Rest(queue[c], client[c].last))
                 = flow'[client[c].conn].up.due
    <3>1. client[c].conn \in Conn
      BY <2>2, EndTypes
    <3>2. flow'[client[c].conn].up = flow[client[c].conn].up
      BY <1>3, <3>1
    <3> QED
      BY <2>2, <3>2, Zenon DEF IInv, NothingSkipped
  <2> QED
    BY <1>1, <2>1, <2>2, ZenonT(60) DEF NothingSkipped
<1>12. ASSUME NEW j \in Conn
       PROVE  /\ <<j, "up">> \notin mixed' =>
                   Holds(j, flow'[j].up, net'[j].up, ServerReads(j)', ClientWrites(j)')
              /\ <<j, "down">> \notin mixed' =>
                   Holds(j, flow'[j].down, net'[j].down, ClientReads(j)', ServerWrites(j)')
  <2>1. /\ <<j, "up">> \notin mixed =>
             Holds(j, flow[j].up, net[j].up, ServerReads(j), ClientWrites(j))
        /\ <<j, "down">> \notin mixed =>
             Holds(j, flow[j].down, net[j].down, ClientReads(j), ServerWrites(j))
    BY DEF IInv, UpHolds, DownHolds
  <2>2. ClientReads(j)' = ClientReads(j) /\ ClientWrites(j)' = ClientWrites(j)
    BY <1>1, <1>6 DEF ClientReads, ClientWrites
  <2>3. mixed \subseteq mixed'
    BY <1>1
  <2>4. CASE j # k
    <3>1. \A t : t \in {u \in Used' : slots'[u].conn = j} <=> t \in {u \in Used : slots[u].conn = j}
      BY <1>1, <1>2, <1>4, <1>5, <2>4, SlotFacts
    <3>2. \A t \in Used : slots'[t] = slots[t]
      BY <1>5, SlotFacts
    <3>3. net'[j] = net[j] /\ flow'[j] = flow[j]
      BY <1>3, <2>4
    <3>4. ServerReads(j)' = ServerReads(j) /\ ServerWrites(j)' = ServerWrites(j)
      BY <3>1, <3>2, <3>3 DEF ServerReads, ServerWrites
    <3> QED
      BY <2>1, <2>2, <2>3, <3>3, <3>4
  <2>5. CASE j = k
    <3>1. \A t : t \in {u \in Used' : slots'[u].conn = j} <=> t = s
      BY <1>2, <1>4, <1>5, <2>5, SlotFacts
    <3>2. ServerReads(j)' = {slots'[s].received} /\ ServerWrites(j)' = {slots'[s].encoded}
      BY <1>3, <2>5, <3>1 DEF ServerReads, ServerWrites
    <3>3. slots[s].received = <<>>
      BY <1>1 DEF IInv, EndsInv, ServerEnds
    <3>4. <<>> \in ServerReads(j) /\ <<>> \in ServerWrites(j)
      BY <1>1, <2>5 DEF ServerReads, ServerWrites
    <3>5. ServerReads(j)' \subseteq ServerReads(j)
      BY <1>2, <3>2, <3>3, <3>4
    <3>6. <<j, "down">> \notin mixed' => ServerWrites(j)' \subseteq ServerWrites(j)
      BY <1>1, <1>2, <2>5, <3>2, <3>4
    <3> QED
      BY <1>3, <2>1, <2>2, <2>3, <2>5, <3>5, <3>6, HoldsFewer
  <2> QED
    BY <2>4, <2>5
<1>13. UpHolds' /\ DownHolds'
  BY <1>12 DEF UpHolds, DownHolds
<1> QED
  BY <1>2, <1>7, <1>8, <1>9, <1>10, <1>11, <1>13 DEF IInv, EndsInv

\* The server looks at a socket.
LEMMA AcceptInv ==
    ASSUME IInv, NEW k \in Conn, Accept(k)
    PROVE  IInv'
<1> DEFINE c == net[k].owner
           free == Slot \ Used
           id == IF KnownIds(c) # {} THEN Min(KnownIds(c)) ELSE NewId
           s == Min(free)
           q == queue[Server]
<1>1. /\ turn = "accept" /\ net[k].server = "none"
      /\ UNCHANGED <<pending, queue, made, client, stray, opened>>
      /\ \/ /\ net' = [net EXCEPT ![k] = CloseServer(@)]
            /\ GoTo(Used, 0)
            /\ UNCHANGED <<slots, addrMap, ids, counter, flow, mixed>>
         \/ /\ net' = [net EXCEPT ![k] = CloseServer(@)]
            /\ at' = at + 1
            /\ UNCHANGED <<slots, addrMap, turn, ids, counter, flow, mixed>>
         \/ /\ free # {}
            /\ slots' = [slots EXCEPT ![s].used = TRUE, ![s].id = id,
                                      ![s].conn = k, ![s].last = Begin(q)]
            /\ addrMap' = addrMap \union {[conn |-> k, slot |-> s]}
            /\ ids' = ids \union {[id |-> id, addr |-> c]}
            /\ counter' = IF KnownIds(c) = {} THEN id ELSE counter
            /\ net' = [net EXCEPT ![k].server = "open"]
            /\ flow' = [flow EXCEPT ![k].down.due = Numbers(Addressed(q, id))]
            /\ mixed' = IF slots[s].encoded = <<>> THEN mixed
                        ELSE mixed \union {<<k, "down">>}
            /\ at' = at + 1
            /\ UNCHANGED turn
  BY Zenon DEF Accept
<1>2. TypeInv
  BY DEF IInv, EndsInv
<1>3. at + 1 \in Nat
  BY <1>2 DEF TypeInv, ServerType
<1>4. CASE /\ net' = [net EXCEPT ![k] = CloseServer(@)]
           /\ GoTo(Used, 0)
           /\ UNCHANGED <<slots, addrMap, ids, counter, flow, mixed>>
  <2>1. Rejects(k)
    BY <1>1, <1>4, Zenon DEF Rejects
  <2> QED
    BY <2>1, RejectsInv
<1>5. CASE /\ net' = [net EXCEPT ![k] = CloseServer(@)]
           /\ at' = at + 1
           /\ UNCHANGED <<slots, addrMap, turn, ids, counter, flow, mixed>>
  <2>1. Rejects(k)
    BY <1>1, <1>3, <1>5 DEF Rejects
  <2> QED
    BY <2>1, RejectsInv
<1>6. CASE /\ free # {}
           /\ slots' = [slots EXCEPT ![s].used = TRUE, ![s].id = id,
                                     ![s].conn = k, ![s].last = Begin(q)]
           /\ addrMap' = addrMap \union {[conn |-> k, slot |-> s]}
           /\ ids' = ids \union {[id |-> id, addr |-> c]}
           /\ counter' = IF KnownIds(c) = {} THEN id ELSE counter
           /\ net' = [net EXCEPT ![k].server = "open"]
           /\ flow' = [flow EXCEPT ![k].down.due = Numbers(Addressed(q, id))]
           /\ mixed' = IF slots[s].encoded = <<>> THEN mixed
                       ELSE mixed \union {<<k, "down">>}
           /\ at' = at + 1
           /\ UNCHANGED turn
  <2>1. s \in free
    <3>1. free \in SUBSET Nat /\ free # {}
      BY <1>6, SlotFacts, Zenon
    <3> HIDE DEF free
    <3> QED
      BY <3>1, MinIsIn
  <2>2. s \in Slot /\ ~slots[s].used
    BY <2>1 DEF Used
  <2>3. id \in Nat
    <3>1. NewId \in Nat
      BY <1>2, NewIdType
    <3>2. KnownIds(c) \in SUBSET Nat
      BY <1>2 DEF KnownIds, TypeInv, ServerType, Entry
    <3>3. KnownIds(c) # {} => Min(KnownIds(c)) \in KnownIds(c)
      BY <3>2, MinIsIn
    <3> QED
      BY <3>1, <3>2, <3>3
  <2>4. PICK t, i : t = s /\ i = id
    OBVIOUS
  <2> HIDE DEF s, id, free
  <2>5. Admits(k, t, i)
    BY <1>1, <1>3, <1>6, <2>2, <2>3, <2>4 DEF Admits
  <2> QED
    BY <2>5, AdmitsInv
<1> QED
  BY <1>1, <1>4, <1>5, <1>6, Zenon

-----------------------------------------------------------------------------
(* The server at a slot *)

\* What a call of the server receives of the connection k and sends there.
NetIn(k, r) == [net EXCEPT ![k].up = Drop(@, r.taken)]

\* The history behind a receive.
FlowIn(k, known, r) == [flow EXCEPT ![k].up.got = @ \o Decoded(known, net[k].up, r)]

\* The connections and their history behind a send.
NetOut(k, n, out) ==
    [n EXCEPT ![k].down = IF net[k].client = "closed" THEN <<>> ELSE @ \o out]

FlowOut(k, f, put) == [f EXCEPT ![k].down.put = @ \o put]

\* The slot behind both.
NextSlot(slot, k, q, left, o) ==
    [slot EXCEPT !.received = left,
                 !.last = LastSentAfter(@, o),
                 !.encoded = EncodedAfter(@, k, q, slot.last, o)]

\* The slot is lost before anything is sent.
Loses(s, k, known, r) ==
    /\ slots' = [slots EXCEPT ![s] = Disconnected(@)]
    /\ addrMap' = AddrMapWithout({s})
    /\ ids' = IdsWithout({s})
    /\ net' = NetWithout({s}, NetIn(k, r))
    /\ Remember(FlowIn(k, known, r))
    /\ GoTo(Used, s + 1)

\* The slot receives and sends.
Answers(s, k, known, q, r, o, D) ==
    /\ slots' = [slots EXCEPT ![s] =
         IF D = {} THEN NextSlot(slots[s], k, q, Remaining(known, net[k].up, r), o)
         ELSE Disconnected(NextSlot(slots[s], k, q, Remaining(known, net[k].up, r), o))]
    /\ addrMap' = AddrMapWithout(D)
    /\ ids' = IdsWithout(D)
    /\ net' = NetWithout(D, NetOut(k, NetIn(k, r),
                                   Sent(slots[s].encoded, k, q, slots[s].last, o)))
    /\ Remember(FlowOut(k, FlowIn(k, known, r), Put(q, slots[s].last, o)))
    /\ D = IF o.how = "error" THEN {s} ELSE {}
    /\ IF o.how = "spin" THEN turn' = "spin" /\ at' = s ELSE GoTo(Used, s + 1)

\* The slot of the step, and what it has received before.
AtSlot(s, k, known, q) ==
    /\ s \in Used /\ k = slots[s].conn
    /\ known = (IF slots[s].received # <<>> THEN slots[s].received ELSE stray)
    /\ q = queue[Server]
    /\ turn # "spin"
    /\ mixed' = IF slots[s].received = <<>> /\ stray # <<>>
                THEN mixed \union {<<k, "up">>} ELSE mixed
    /\ UNCHANGED <<pending, queue, made, client, counter, opened>>

\* The body of UpdateClient().
Updates(s, slot, k, q, known, r) ==
    LET left     == Remaining(known, net[k].up, r)
        overflow == Len(left) > MaxMsgSize
        failed   == r.failed \/ overflow
        got      == Decoded(known, net[k].up, r)
        n        == [net EXCEPT ![k].up = Drop(@, r.taken)]
        flowIn   == [flow EXCEPT ![k].up.got = @ \o got]
        received == IF overflow THEN <<>> ELSE left
    IN  /\ stray' = IF overflow THEN left ELSE <<>>
        /\ mixed' = IF slot.received = <<>> /\ stray # <<>>
                    THEN mixed \union {<<k, "up">>} ELSE mixed
        /\ \/ /\ failed
              /\ slots' = [slots EXCEPT ![s] = Disconnected(@)]
              /\ addrMap' = AddrMapWithout({s})
              /\ ids' = IdsWithout({s})
              /\ net' = NetWithout({s}, n)
              /\ Remember(flowIn)
              /\ GoTo(Used, s + 1)
           \/ /\ ~failed
              /\ \E o \in Sending(slot.encoded, k, q, slot.last, slot.id,
                                  Room(net[k].down), FALSE) :
                  LET next == [slot EXCEPT
                                 !.received = received,
                                 !.last = LastSentAfter(@, o),
                                 !.encoded = EncodedAfter(@, k, q, slot.last, o)]
                      out  == Sent(slot.encoded, k, q, slot.last, o)
                      m    == [n EXCEPT ![k].down =
                                 IF net[k].client = "closed" THEN <<>>
                                 ELSE @ \o out]
                      D    == IF o.how = "error" THEN {s} ELSE {}
                  IN  /\ slots' = [slots EXCEPT ![s] =
                           IF D = {} THEN next ELSE Disconnected(next)]
                      /\ addrMap' = AddrMapWithout(D)
                      /\ ids' = IdsWithout(D)
                      /\ net' = NetWithout(D, m)
                      /\ Remember([flowIn EXCEPT ![k].down.put =
                           @ \o Put(q, slot.last, o)])
                      /\ IF o.how = "spin"
                         THEN turn' = "spin" /\ at' = s
                         ELSE GoTo(Used, s + 1)

\* UpdateClient with names for its parts.
LEMMA UpdateIs ==
    ASSUME IInv, NEW s \in Slot, UpdateClient(s)
    PROVE  \E k \in Conn, known \in Seq(Piece), q \in Seq(Message) :
             /\ AtSlot(s, k, known, q)
             /\ \E r \in Receiving(known, net[k].up) :
                  /\ stray' \in {<<>>, Remaining(known, net[k].up, r)}
                  /\ \/ Loses(s, k, known, r)
                     \/ \E o \in Sending(slots[s].encoded, k, q, slots[s].last, slots[s].id,
                                         Room(net[k].down), FALSE) :
                        \E D \in {{}, {s}} : Answers(s, k, known, q, r, o, D)
<1>1. PICK k, known, q :
         /\ k = slots[s].conn
         /\ known = (IF slots[s].received # <<>> THEN slots[s].received ELSE stray)
         /\ q = queue[Server]
  OBVIOUS
<1>2. s \in Used /\ turn # "spin"
  <2>1. (turn = "accept" /\ NextUsed(Used, 0) = s) \/ (turn = "clients" /\ at = s)
    BY Zenon DEF UpdateClient
  <2>2. s # NoId
    BY SlotFacts DEF NoId
  <2>3. turn = "clients" => at \in Used
    BY DEF IInv, EndsInv, ServerEnds
  <2> QED
    BY <2>1, <2>2, <2>3, SlotFacts
<1>3. k \in Conn /\ known \in Seq(Piece) /\ q \in Seq(Message)
  <2>1. k \in Conn /\ slots[s] \in ServerSlot
    BY <1>1, <1>2, EndTypes, SlotFacts
  <2>2. stray \in Seq(Piece) /\ queue[Server] \in Seq(Message)
    BY DEF IInv, EndsInv, TypeInv, ServerType, QueueType, Endpoint
  <2>3. slots[s].received \in Seq(Piece)
    BY <2>1 DEF ServerSlot
  <2> QED
    BY <1>1, <2>1, <2>2, <2>3
<1>9. \E r \in Receiving(IF slots[s].received # <<>> THEN slots[s].received ELSE stray,
                          net[slots[s].conn].up) :
          Updates(s, slots[s], slots[s].conn, queue[Server],
                  IF slots[s].received # <<>> THEN slots[s].received ELSE stray, r)
  BY Zenon DEF UpdateClient, Updates
<1>4. PICK r \in Receiving(known, net[k].up) : Updates(s, slots[s], k, q, known, r)
  BY <1>1, <1>9
<1>5. AtSlot(s, k, known, q)
  <2>1. UNCHANGED <<pending, queue, made, client, counter, opened>>
    BY Zenon DEF UpdateClient
  <2> QED
    BY <1>1, <1>2, <1>4, <2>1, Zenon DEF AtSlot, Updates
<1> DEFINE left == Remaining(known, net[k].up, r)
           overflow == Len(left) > MaxMsgSize
           failed == r.failed \/ overflow
<1>6. stray' \in {<<>>, left}
  BY <1>4, Zenon DEF Updates
<1>7. CASE failed
  <2>1. Loses(s, k, known, r)
    BY <1>4, <1>7, Zenon DEF Updates, Loses, NetIn, FlowIn
  <2> QED
    BY <1>3, <1>5, <1>6, <2>1, Zenon
<1>8. CASE ~failed
  <2>1. PICK o \in Sending(slots[s].encoded, k, q, slots[s].last, slots[s].id,
                           Room(net[k].down), FALSE) :
          LET next == [slots[s] EXCEPT
                         !.received = left,
                         !.last = LastSentAfter(@, o),
                         !.encoded = EncodedAfter(@, k, q, slots[s].last, o)]
              out  == Sent(slots[s].encoded, k, q, slots[s].last, o)
              n    == [net EXCEPT ![k].up = Drop(@, r.taken)]
              flowIn == [flow EXCEPT ![k].up.got = @ \o Decoded(known, net[k].up, r)]
              m    == [n EXCEPT ![k].down = IF net[k].client = "closed" THEN <<>>
                                            ELSE @ \o out]
              D    == IF o.how = "error" THEN {s} ELSE {}
          IN  /\ slots' = [slots EXCEPT ![s] =
                   IF D = {} THEN next ELSE Disconnected(next)]
              /\ addrMap' = AddrMapWithout(D)
              /\ ids' = IdsWithout(D)
              /\ net' = NetWithout(D, m)
              /\ Remember([flowIn EXCEPT ![k].down.put = @ \o Put(q, slots[s].last, o)])
              /\ IF o.how = "spin" THEN turn' = "spin" /\ at' = s ELSE GoTo(Used, s + 1)
    BY <1>4, <1>8, Zenon DEF Updates
  <2>2. Answers(s, k, known, q, r, o, IF o.how = "error" THEN {s} ELSE {})
    BY <2>1 DEF Answers, NetIn, FlowIn, NetOut, FlowOut, NextSlot
  <2>3. \E D \in {{}, {s}} : Answers(s, k, known, q, r, o, D)
    BY <2>2
  <2> QED
    BY <1>3, <1>5, <1>6, <2>3, Zenon
<1> QED
  BY <1>7, <1>8

\* The slot that the server is at.
LEMMA AtSlotFacts ==
    ASSUME IInv, NEW s, NEW k \in Conn, NEW known \in Seq(Piece), NEW q,
           AtSlot(s, k, known, q)
    PROVE  /\ s \in Used /\ s \in Slot /\ s \in Nat /\ k = slots[s].conn /\ q = queue[Server]
           /\ slots[s] \in ServerSlot
           /\ slots[s].last \in 0..Len(q) /\ slots[s].encoded \in Seq(Piece)
           /\ QueueType' /\ queue' = queue
           /\ mixed \subseteq mixed' /\ mixed' \subseteq Conn \X {"up", "down"}
           /\ <<k, "up">> \notin mixed' => known = slots[s].received
           /\ \A t \in Used : slots[t].conn = k => t = s
           /\ UNCHANGED <<client, counter, opened>>
           /\ flow[k].down.put \o Numbers(Addressed(Rest(q, slots[s].last), slots[s].id))
                 = flow[k].down.due
<1>1. /\ s \in Used /\ k = slots[s].conn /\ q = queue[Server] /\ turn # "spin"
      /\ known = (IF slots[s].received # <<>> THEN slots[s].received ELSE stray)
      /\ mixed' = (IF slots[s].received = <<>> /\ stray # <<>>
                   THEN mixed \union {<<k, "up">>} ELSE mixed)
      /\ UNCHANGED <<pending, queue, made, client, counter, opened>>
  BY DEF AtSlot
<1>2. TypeInv
  BY DEF IInv, EndsInv
<1>3. s \in Slot /\ s \in Nat /\ slots[s].used /\ slots[s] \in ServerSlot
  BY <1>1, SlotFacts, EndTypes
<1>4. q \in Seq(Message)
  BY <1>1, <1>2 DEF TypeInv, QueueType, Endpoint
<1>5. slots[s].last \in 0..Len(q) /\ slots[s].encoded \in Seq(Piece)
  <2>1. slots[s].last <= Len(q) /\ slots[s].last \in Nat /\ Len(q) \in Nat
    BY <1>1, <1>3, <1>4 DEF IInv, EndsInv, ServerEnds, ServerSlot
  <2> QED
    BY <1>3, <2>1 DEF ServerSlot
<1>6. QueueType' /\ queue' = queue
  BY <1>1, <1>2 DEF TypeInv, QueueType
<1>7. mixed \subseteq mixed' /\ mixed' \subseteq Conn \X {"up", "down"}
  BY <1>1, <1>2 DEF TypeInv, NetType
<1>8. <<k, "up">> \notin mixed' => known = slots[s].received
  BY <1>1
<1>9. \A t \in Used : slots[t].conn = k => t = s
  BY <1>1, <1>3, SlotFacts DEF IInv, EndsInv, ServerEnds
<1>10. flow[k].down.put \o Numbers(Addressed(Rest(q, slots[s].last), slots[s].id))
                 = flow[k].down.due
  BY <1>1, Zenon DEF IInv, NothingSkipped
<1> QED
  BY <1>1, <1>3, <1>5, <1>6, <1>7, <1>8, <1>9, <1>10, Zenon

\* What the slot receives.
LEMMA InFacts ==
    ASSUME IInv, NEW s, NEW k \in Conn, NEW known \in Seq(Piece), NEW q,
           AtSlot(s, k, known, q), NEW r \in Receiving(known, net[k].up)
    PROVE  /\ NetIn(k, r) \in [Conn -> Sock]
           /\ FlowIn(k, known, r) \in [Conn -> [up : Flow, down : Flow]]
           /\ \A j \in Conn \ {k} : NetIn(k, r)[j] = net[j] /\ FlowIn(k, known, r)[j] = flow[j]
           /\ NetIn(k, r)[k].owner = net[k].owner /\ NetIn(k, r)[k].client = net[k].client
           /\ NetIn(k, r)[k].server = net[k].server /\ NetIn(k, r)[k].down = net[k].down
           /\ FlowIn(k, known, r)[k].down = flow[k].down
           /\ FlowIn(k, known, r)[k].up.put = flow[k].up.put
           /\ FlowIn(k, known, r)[k].up.due = flow[k].up.due
           /\ Remaining(known, net[k].up, r) \in Seq(Piece)
           /\ <<k, "up">> \notin mixed' =>
                 Holds(k, FlowIn(k, known, r)[k].up, NetIn(k, r)[k].up,
                       {Remaining(known, net[k].up, r)}, ClientWrites(k))
<1>1. /\ net[k] \in Sock /\ flow[k] \in [up : Flow, down : Flow]
      /\ ClientWrites(k) \in SUBSET Seq(Piece)
  BY EndTypes
<1>2. net \in [Conn -> Sock] /\ flow \in [Conn -> [up : Flow, down : Flow]]
  BY DEF IInv, EndsInv, TypeInv, NetType
<1>3. PICK way, U, W : way = net[k].up /\ U = flow[k].up /\ W = ClientWrites(k)
  OBVIOUS
<1>4. way \in Seq(Piece) /\ U \in Flow /\ k \in Nat /\ W \in SUBSET Seq(Piece)
  BY <1>1, <1>3, ConnFacts DEF Sock
<1>5. r \in Receiving(known, way)
  BY <1>3
<1> DEFINE got == Decoded(known, way, r)
           left == Remaining(known, way, r)
           rest == Drop(way, r.taken)
           n == NetIn(k, r)
           f == FlowIn(k, known, r)
<1>6. left \in Seq(Piece) /\ rest \in Seq(Piece)
  BY <1>4, <1>5, RemainingFacts
<1>7. got \in Seq(Nat \X Nat)
  BY <1>4, <1>5, DecodedType
<1>8. n = [net EXCEPT ![k] = [net[k] EXCEPT !.up = rest]]
      /\ f = [flow EXCEPT ![k] = [flow[k] EXCEPT !.up.got = flow[k].up.got \o got]]
  BY <1>2, <1>3 DEF NetIn, FlowIn
<1> HIDE DEF got, left, rest, n, f
<1>9. /\ n \in [Conn -> Sock] /\ \A j \in Conn \ {k} : n[j] = net[j]
      /\ n[k].owner = net[k].owner /\ n[k].client = net[k].client
      /\ n[k].server = net[k].server /\ n[k].down = net[k].down /\ n[k].up = rest
  <2> DEFINE m == [net[k] EXCEPT !.up = rest]
  <2>1. /\ m \in Sock /\ m.owner = net[k].owner /\ m.client = net[k].client
        /\ m.server = net[k].server /\ m.down = net[k].down /\ m.up = rest
    BY <1>1, <1>6 DEF Sock
  <2>2. n = [net EXCEPT ![k] = m]
    BY <1>8
  <2> HIDE DEF m
  <2> QED
    BY <1>2, <2>1, <2>2
<1>10. /\ f \in [Conn -> [up : Flow, down : Flow]] /\ \A j \in Conn \ {k} : f[j] = flow[j]
       /\ f[k].down = flow[k].down /\ f[k].up.put = U.put /\ f[k].up.due = U.due
       /\ f[k].up.got = U.got \o got
  <2> DEFINE x == flow[k].up.got \o got
             m == [flow[k] EXCEPT !.up.got = x]
  <2>1. x \in Seq(Nat \X Nat)
    <3>1. flow[k].up.got \in Seq(Nat \X Nat)
      BY <1>1 DEF Flow
    <3> QED
      BY <1>7, <3>1, ConcatProperties
  <2> HIDE DEF x
  <2>2. /\ m \in [up : Flow, down : Flow] /\ m.down = flow[k].down
        /\ m.up.put = flow[k].up.put /\ m.up.due = flow[k].up.due /\ m.up.got = x
    BY <1>1, <2>1 DEF Flow
  <2>3. f = [flow EXCEPT ![k] = m]
    BY <1>8 DEF x
  <2> HIDE DEF m
  <2> QED
    BY <1>2, <1>3, <2>2, <2>3 DEF x
<1>11. ASSUME <<k, "up">> \notin mixed'
       PROVE  Holds(k, f[k].up, n[k].up, {left}, W)
  <2>1. /\ s \in Used /\ k = slots[s].conn /\ known = slots[s].received
        /\ <<k, "up">> \notin mixed
    BY <1>11, AtSlotFacts, ZenonT(60)
  <2>2. Holds(k, flow[k].up, net[k].up, {slots[s].received}, ClientWrites(k))
    BY <2>1, SlotHolds
  <2>3. Holds(k, U, way, {known}, W)
    BY <1>3, <2>1, <2>2
  <2>4. PICK h : h = f[k].up
    OBVIOUS
  <2>5. h.put = U.put /\ h.got = U.got \o Decoded(known, way, r)
    BY <1>10, <2>4 DEF got
  <2>6. Holds(k, h, Drop(way, r.taken), {Remaining(known, way, r)}, W)
    BY <1>4, <1>5, <2>3, <2>5, HoldsReceive
  <2> QED
    BY <1>9, <2>4, <2>6 DEF left, rest
<1>12. left = Remaining(known, net[k].up, r)
  BY <1>3 DEF left
<1> QED
  BY <1>3, <1>6, <1>9, <1>10, <1>11, <1>12 DEF n, f

\* The server disconnects a client whose message it refuses.
LEMMA LosesInv ==
    ASSUME IInv, NEW s, NEW k \in Conn, NEW known \in Seq(Piece), NEW q,
           AtSlot(s, k, known, q), NEW r \in Receiving(known, net[k].up),
           stray' \in {<<>>, Remaining(known, net[k].up, r)},
           Loses(s, k, known, r)
    PROVE  IInv'
<1> DEFINE n == NetIn(k, r)
           f == FlowIn(k, known, r)
           left == Remaining(known, net[k].up, r)
<1>1. /\ s \in Used /\ s \in Slot /\ s \in Nat /\ k = slots[s].conn
      /\ QueueType' /\ queue' = queue
      /\ mixed \subseteq mixed' /\ mixed' \subseteq Conn \X {"up", "down"}
      /\ \A t \in Used : slots[t].conn = k => t = s
      /\ UNCHANGED <<client, counter, opened>>
  BY AtSlotFacts
<1>2. /\ n \in [Conn -> Sock]
      /\ f \in [Conn -> [up : Flow, down : Flow]]
      /\ \A j \in Conn \ {k} : n[j] = net[j] /\ f[j] = flow[j]
      /\ n[k].owner = net[k].owner /\ n[k].client = net[k].client
      /\ n[k].server = net[k].server /\ n[k].down = net[k].down
      /\ f[k].down = flow[k].down
      /\ f[k].up.put = flow[k].up.put
      /\ f[k].up.due = flow[k].up.due
      /\ left \in Seq(Piece)
      /\ <<k, "up">> \notin mixed' => Holds(k, f[k].up, n[k].up, {left}, ClientWrites(k))
  BY InFacts
<1>3. /\ slots' = [slots EXCEPT ![s] = Disconnected(@)]
      /\ addrMap' = AddrMapWithout({s}) /\ ids' = IdsWithout({s})
      /\ net' = NetWithout({s}, n) /\ Remember(f) /\ GoTo(Used, s + 1)
  BY DEF Loses
<1>4. stray' \in {<<>>, left}
  OBVIOUS
<1> HIDE DEF n, f, left
<1>5. slots \in [Slot -> ServerSlot]
  BY DEF IInv, EndsInv, TypeInv, ServerType
<1>6. /\ turn' \in {"user", "accept", "clients", "spin"} /\ at' \in Nat
      /\ turn' = "clients" => at' \in Used \ {s}
  <2>1. s + 1 \in Nat /\ Used \in SUBSET Nat
    BY <1>1, SlotFacts
  <2>2. (turn' = "user" /\ at' = 0) \/ (turn' = "clients" /\ at' \in Used /\ at' >= s + 1)
    BY <1>3, <2>1, GoToFacts
  <2>3. CASE turn' = "user" /\ at' = 0
    BY <2>3
  <2>4. CASE turn' = "clients" /\ at' \in Used /\ at' >= s + 1
    <3>1. at' \in Nat
      BY <2>1, <2>4
    <3>2. at' # s
      BY <1>1, <2>4, <3>1
    <3> QED
      BY <2>4, <3>1, <3>2
  <2> QED
    BY <2>2, <2>3, <2>4
<1>7. Turns(slots, n, f, {s})
  <2>1. slots' = [t \in Slot |-> IF t \in {s} THEN Disconnected(slots[t]) ELSE slots[t]]
    BY <1>1, <1>3, <1>5
  <2>2. stray' \in Seq(Piece)
    <3>1. <<>> \in Seq(Piece)
      OBVIOUS
    <3> QED
      BY <1>2, <1>4, <3>1
  <2>3. {s} \subseteq Used
    BY <1>1
  <2> QED
    BY <1>1, <1>3, <1>6, <2>1, <2>2, <2>3 DEF Turns
<1>8. Serves(slots, n, f, {s})
  <2>1. \A t \in Used \ {s} : slots[t].last <= Len(queue'[Server])
    BY <1>1, SlotFacts DEF IInv, EndsInv, ServerEnds
  <2>2. \A j \in Conn : (\A t \in Used : slots[t].conn # j) => n[j] = net[j] /\ f[j] = flow[j]
    BY <1>1, <1>2
  <2>3. ASSUME NEW t \in Used, NEW j \in Conn, j = slots[t].conn
        PROVE  /\ n[j].owner = net[j].owner /\ n[j].client = net[j].client
               /\ n[j].server = net[j].server
               /\ f[j].up.put = flow[j].up.put /\ f[j].up.due = flow[j].up.due
               /\ <<j, "up">> \notin mixed' =>
                    Holds(j, f[j].up, n[j].up, IF t \in {s} THEN {} ELSE {slots[t].received},
                          ClientWrites(j))
               /\ <<j, "down">> \notin mixed' =>
                    Holds(j, f[j].down, n[j].down, ClientReads(j),
                          IF t \in {s} THEN {} ELSE {slots[t].encoded})
               /\ t \notin {s} /\ turn' # "spin" =>
                    f[j].down.put \o Numbers(Addressed(Rest(queue'[Server], slots[t].last),
                                                       slots[t].id))
                      = f[j].down.due
    <3>1. /\ <<j, "up">> \notin mixed =>
                /\ Holds(j, flow[j].up, net[j].up, {slots[t].received}, ClientWrites(j))
                /\ Holds(j, flow[j].up, net[j].up, {}, ClientWrites(j))
          /\ <<j, "down">> \notin mixed =>
                /\ Holds(j, flow[j].down, net[j].down, ClientReads(j), {slots[t].encoded})
                /\ Holds(j, flow[j].down, net[j].down, ClientReads(j), {})
      BY <2>3, SlotHolds
    <3>2. CASE t = s
      <4>1. j = k
        BY <1>1, <2>3, <3>2
      <4>2. <<k, "up">> \notin mixed' => Holds(k, f[k].up, n[k].up, {}, ClientWrites(k))
        BY <1>2 DEF Holds
      <4> QED
        BY <1>1, <1>2, <3>1, <3>2, <4>1, <4>2
    <3>3. CASE t # s
      <4>1. j # k
        BY <1>1, <2>3, <3>3
      <4>2. n[j] = net[j] /\ f[j] = flow[j]
        BY <1>2, <4>1, SMTT(40)
      <4>3. flow[j].down.put \o Numbers(Addressed(Rest(queue[Server], slots[t].last),
                                                  slots[t].id)) = flow[j].down.due
        <5>1. turn # "spin"
          BY DEF AtSlot
        <5> QED
          BY <2>3, <5>1 DEF IInv, NothingSkipped
      <4> QED
        BY <1>1, <3>1, <3>3, <4>2, <4>3
    <3> QED
      BY <3>2, <3>3
  <2> QED
    BY <1>2, <1>5, <2>1, <2>2, <2>3 DEF Serves
<1> QED
  BY <1>7, <1>8, TurnsInv

\* No message for a client is lost between two calls.
LEMMA DueIsKept ==
    ASSUME NEW enc, NEW k, NEW q, NEW last, NEW id, NEW room, NEW failed, NEW o,
           IsSend(enc, k, q, last, id, room, failed, o),
           o.how \in {"done", "full"}, NEW w \in Seq(Nat)
    PROVE  (w \o Put(q, last, o)) \o Numbers(Addressed(Rest(q, LastSentAfter(last, o)), id))
              = w \o Numbers(Addressed(Rest(q, last), id))
<1> DEFINE P == Put(q, last, o)
           l == LastSentAfter(last, o)
           R == Numbers(Addressed(Rest(q, l), id))
<1>0. /\ enc \in Seq(Piece) /\ k \in Nat /\ q \in Seq(Message) /\ last \in 0..Len(q)
      /\ failed \in BOOLEAN
      /\ o \in Sending(enc, k, q, last, id, room, failed)
  BY DEF IsSend
<1>1. P \o R = Numbers(Addressed(Rest(q, last), id))
  BY <1>0, NothingLost
<1>2. P \in Seq(Nat) /\ Rest(q, l) \in Seq(Message)
  BY <1>0, SendTypes
<1>3. R \in Seq(Nat)
  <2> DEFINE a == Addressed(Rest(q, l), id)
  <2>1. a \in Seq(Message)
    BY <1>2, AddressedFacts
  <2> HIDE DEF a
  <2>2. Numbers(a) \in Seq(Nat)
    BY <2>1, FittingType
  <2> QED
    BY <2>2 DEF a
<1> HIDE DEF P, R
<1>4. (w \o P) \o R = w \o (P \o R)
  BY ZenonT(60), <1>2, <1>3, NumbersFacts
<1> QED
  BY <1>1, <1>4 DEF P, R, l

\* A slot with the id sends messages of the queue q, from l on, on connection k.
Sends(k, n, f, enc, q, l, id, o, m, g) ==
    /\ n \in [Conn -> Sock] /\ f \in [Conn -> [up : Flow, down : Flow]]
    /\ n[k].down = net[k].down /\ f[k].down = flow[k].down
    /\ enc \in Seq(Piece) /\ q \in Seq(Message) /\ l \in 0..Len(q)
    /\ <<k, "down">> \notin mixed =>
         Holds(k, flow[k].down, net[k].down, ClientReads(k), {enc})
    /\ o \in Sending(enc, k, q, l, id, Room(net[k].down), FALSE)
    /\ m = NetOut(k, n, Sent(enc, k, q, l, o)) /\ g = FlowOut(k, f, Put(q, l, o))

\* What a send leaves of the connections.
LEMMA OutFacts ==
    ASSUME IInv, NEW k \in Conn, NEW n, NEW f, NEW enc, NEW q, NEW l, NEW id, NEW o,
           NEW m, NEW g, Sends(k, n, f, enc, q, l, id, o, m, g)
    PROVE  /\ m \in [Conn -> Sock] /\ g \in [Conn -> [up : Flow, down : Flow]]
           /\ \A j \in Conn \ {k} : m[j] = n[j] /\ g[j] = f[j]
           /\ m[k].owner = n[k].owner /\ m[k].client = n[k].client
           /\ m[k].server = n[k].server /\ m[k].up = n[k].up
           /\ g[k].up = f[k].up
           /\ <<k, "down">> \notin mixed =>
                 /\ Holds(k, g[k].down, m[k].down, ClientReads(k), {})
                 /\ o.how # "error" =>
                       Holds(k, g[k].down, m[k].down, ClientReads(k),
                             {EncodedAfter(enc, k, q, l, o)})
           /\ o.how \in {"done", "full", "error", "spin"}
           /\ o.how \in {"done", "full"}
                /\ flow[k].down.put \o Numbers(Addressed(Rest(q, l), id)) = flow[k].down.due =>
                 g[k].down.put \o Numbers(Addressed(Rest(q, LastSentAfter(l, o)), id))
                   = g[k].down.due
           /\ EncodedAfter(enc, k, q, l, o) \in Seq(Piece)
           /\ LastSentAfter(l, o) \in 0..Len(q)
<1>12. /\ n \in [Conn -> Sock] /\ f \in [Conn -> [up : Flow, down : Flow]]
       /\ n[k].down = net[k].down /\ f[k].down = flow[k].down
  BY DEF Sends
<1>13. /\ enc \in Seq(Piece) /\ q \in Seq(Message) /\ l \in 0..Len(q)
  BY DEF Sends
<1>14. /\ <<k, "down">> \notin mixed =>
            Holds(k, flow[k].down, net[k].down, ClientReads(k), {enc})
       /\ o \in Sending(enc, k, q, l, id, Room(net[k].down), FALSE)
       /\ m = NetOut(k, n, Sent(enc, k, q, l, o)) /\ g = FlowOut(k, f, Put(q, l, o))
  BY DEF Sends
<1>1. /\ net[k] \in Sock /\ flow[k] \in [up : Flow, down : Flow]
      /\ ClientReads(k) \in SUBSET Seq(Piece)
      /\ net[k].client = "closed" => ClientReads(k) = {}
  BY EndTypes
<1>2. PICK way, U, R, room, failed, due :
         /\ way = net[k].down /\ U = flow[k].down /\ R = ClientReads(k)
         /\ room = Room(net[k].down) /\ failed = FALSE /\ due = flow[k].down.due
  OBVIOUS
<1>3. /\ way \in Seq(Piece) /\ U \in Flow /\ k \in Nat /\ R \in SUBSET Seq(Piece)
      /\ failed \in BOOLEAN
  BY <1>1, <1>2, ConnFacts DEF Sock
<1>4. o \in Sending(enc, k, q, l, id, room, failed)
  BY <1>2, <1>14
<1> DEFINE put == Put(q, l, o)
           out == Sent(enc, k, q, l, o)
           after == EncodedAfter(enc, k, q, l, o)
           last == LastSentAfter(l, o)
<1>5. /\ put \in Seq(Nat) /\ out \in Seq(Piece) /\ after \in Seq(Piece)
      /\ last \in 0..Len(q)
  BY <1>3, <1>4, <1>13, SendTypes
<1>6. o.how \in {"done", "full", "error", "spin"}
  BY <1>3, <1>4, <1>13, SendingFacts
<1>7. m = [n EXCEPT ![k] = [n[k] EXCEPT !.down = IF net[k].client = "closed" THEN <<>>
                                                ELSE way \o out]]
      /\ g = [f EXCEPT ![k] = [f[k] EXCEPT !.down.put = U.put \o put]]
  BY <1>2, <1>12, <1>14 DEF NetOut, FlowOut
<1> HIDE DEF put, out, after, last
<1>8. /\ m \in [Conn -> Sock] /\ \A j \in Conn \ {k} : m[j] = n[j]
      /\ m[k].owner = n[k].owner /\ m[k].client = n[k].client
      /\ m[k].server = n[k].server /\ m[k].up = n[k].up
      /\ m[k].down = IF net[k].client = "closed" THEN <<>> ELSE way \o out
  <2> DEFINE d == IF net[k].client = "closed" THEN <<>> ELSE way \o out
             sock == [n[k] EXCEPT !.down = d]
  <2>1. way \o out \in Seq(Piece) /\ <<>> \in Seq(Piece)
    BY <1>3, <1>5, ConcatProperties
  <2>2. d \in Seq(Piece)
    BY <2>1
  <2> HIDE DEF d
  <2>3. n[k] \in Sock
    BY <1>12
  <2>4. /\ sock \in Sock /\ sock.owner = n[k].owner /\ sock.client = n[k].client
        /\ sock.server = n[k].server /\ sock.up = n[k].up /\ sock.down = d
    BY <2>2, <2>3 DEF Sock
  <2>5. m = [n EXCEPT ![k] = sock]
    BY <1>7 DEF d
  <2> HIDE DEF sock
  <2>6. m[k] = sock /\ m \in [Conn -> Sock] /\ \A j \in Conn \ {k} : m[j] = n[j]
    BY <1>12, <2>4, <2>5
  <2> QED
    BY <2>4, <2>6 DEF d
<1>9. /\ g \in [Conn -> [up : Flow, down : Flow]] /\ \A j \in Conn \ {k} : g[j] = f[j]
      /\ g[k].up = f[k].up /\ g[k].down.due = U.due /\ g[k].down.got = U.got
      /\ g[k].down.put = U.put \o put
  <2> DEFINE x == U.put \o put
             h == [f[k] EXCEPT !.down.put = x]
  <2>1. x \in Seq(Nat)
    <3>1. U.put \in Seq(Nat)
      BY <1>3 DEF Flow
    <3> QED
      BY <1>5, <3>1, ConcatProperties
  <2> HIDE DEF x
  <2>2. f[k] \in [up : Flow, down : Flow] /\ f[k].down = U
    BY <1>2, <1>12
  <2>3. /\ h \in [up : Flow, down : Flow] /\ h.up = f[k].up
        /\ h.down.due = U.due /\ h.down.got = U.got /\ h.down.put = x
    BY <2>1, <2>2 DEF Flow
  <2>4. g = [f EXCEPT ![k] = h]
    BY <1>7 DEF x
  <2> HIDE DEF h
  <2>5. g[k] = h /\ g \in [Conn -> [up : Flow, down : Flow]] /\ \A j \in Conn \ {k} : g[j] = f[j]
    BY <1>12, <2>3, <2>4
  <2> QED
    BY <2>3, <2>5 DEF x
<1>10. ASSUME <<k, "down">> \notin mixed
       PROVE  /\ Holds(k, g[k].down, m[k].down, R, {})
              /\ o.how # "error" => Holds(k, g[k].down, m[k].down, R, {after})
  <2>1. Holds(k, U, way, R, {enc})
    BY <1>2, <1>10, <1>14
  <2>2. PICK h : h = g[k].down
    OBVIOUS
  <2>3. h.put = U.put \o Put(q, l, o) /\ h.got = U.got
    BY <1>9, <2>2 DEF put
  <2>4. CASE net[k].client = "closed"
    <3>1. \A any, V : Holds(k, h, any, {}, V)
      BY <1>3, <1>5, <2>1, <2>3, HoldsUnread DEF put
    <3>2. R = {}
      BY <1>1, <1>2, <2>4
    <3> QED
      BY <2>2, <3>1, <3>2
  <2>5. CASE net[k].client # "closed"
    <3>1. /\ Holds(k, h, way \o Sent(enc, k, q, l, o), R, {})
          /\ o.how # "error" =>
                Holds(k, h, way \o Sent(enc, k, q, l, o), R, {EncodedAfter(enc, k, q, l, o)})
      BY <1>3, <1>4, <1>13, <2>1, <2>3, HoldsSend
    <3>2. m[k].down = way \o Sent(enc, k, q, l, o)
      BY <1>8, <2>5 DEF out
    <3> QED
      BY <2>2, <3>1, <3>2 DEF after
  <2> QED
    BY <2>4, <2>5
<1>11. ASSUME o.how \in {"done", "full"},
              flow[k].down.put \o Numbers(Addressed(Rest(q, l), id)) = flow[k].down.due
       PROVE  g[k].down.put \o Numbers(Addressed(Rest(q, last), id)) = g[k].down.due
  <2>1. PICK w : w = U.put
    OBVIOUS
  <2>2. w \in Seq(Nat)
    BY <1>3, <2>1 DEF Flow
  <2>3. (w \o Put(q, l, o)) \o Numbers(Addressed(Rest(q, LastSentAfter(l, o)), id))
          = w \o Numbers(Addressed(Rest(q, l), id))
    <3>1. k \in Nat /\ failed \in BOOLEAN
      BY <1>3
    <3>2. enc \in Seq(Piece) /\ q \in Seq(Message) /\ l \in 0..Len(q)
      BY <1>13
    <3>3. o.how \in {"done", "full"}
      BY <1>11
    <3>4. o \in Sending(enc, k, q, l, id, room, failed)
      BY <1>4
    <3>5. IsSend(enc, k, q, l, id, room, failed, o)
      BY <3>1, <3>2, <3>4 DEF IsSend
    <3> QED
      BY <2>2, <3>3, <3>5, DueIsKept
  <2>4. w \o Numbers(Addressed(Rest(q, l), id)) = U.due
    BY <1>2, <1>11, <2>1
  <2>5. g[k].down.put = w \o Put(q, l, o) /\ g[k].down.due = U.due
    BY <1>9, <2>1 DEF put
  <2> QED
    BY <2>3, <2>4, <2>5 DEF last
<1> QED
  BY <1>2, <1>5, <1>6, <1>8, <1>9, <1>10, <1>11 DEF after, last

\* The slots while the server answers at s.
SlotsWith(s, next) == [slots EXCEPT ![s] = next]

\* The server has received from a client and sends to it.
LEMMA AnswersInv ==
    ASSUME IInv, NEW s, NEW k \in Conn, NEW known \in Seq(Piece), NEW q \in Seq(Message),
           AtSlot(s, k, known, q), NEW r \in Receiving(known, net[k].up),
           stray' \in {<<>>, Remaining(known, net[k].up, r)},
           NEW o \in Sending(slots[s].encoded, k, q, slots[s].last, slots[s].id,
                             Room(net[k].down), FALSE),
           NEW D, Answers(s, k, known, q, r, o, D)
    PROVE  IInv'
<1>1. /\ s \in Used /\ s \in Slot /\ s \in Nat /\ k = slots[s].conn /\ q = queue[Server]
      /\ slots[s] \in ServerSlot
      /\ slots[s].last \in 0..Len(q) /\ slots[s].encoded \in Seq(Piece)
      /\ QueueType' /\ queue' = queue
      /\ mixed \subseteq mixed' /\ mixed' \subseteq Conn \X {"up", "down"}
      /\ \A t \in Used : slots[t].conn = k => t = s
      /\ UNCHANGED <<client, counter, opened>>
      /\ flow[k].down.put \o Numbers(Addressed(Rest(q, slots[s].last), slots[s].id))
            = flow[k].down.due
  BY AtSlotFacts, ZenonT(60)
<1>2. PICK enc, l, id, left, n, f :
        /\ enc = slots[s].encoded /\ l = slots[s].last /\ id = slots[s].id
        /\ left = Remaining(known, net[k].up, r)
        /\ n = NetIn(k, r) /\ f = FlowIn(k, known, r)
  OBVIOUS
<1>3. /\ NetIn(k, r) \in [Conn -> Sock]
      /\ FlowIn(k, known, r) \in [Conn -> [up : Flow, down : Flow]]
      /\ \A j \in Conn \ {k} : NetIn(k, r)[j] = net[j] /\ FlowIn(k, known, r)[j] = flow[j]
      /\ NetIn(k, r)[k].owner = net[k].owner /\ NetIn(k, r)[k].client = net[k].client
      /\ NetIn(k, r)[k].server = net[k].server /\ NetIn(k, r)[k].down = net[k].down
      /\ FlowIn(k, known, r)[k].down = flow[k].down
      /\ FlowIn(k, known, r)[k].up.put = flow[k].up.put
      /\ FlowIn(k, known, r)[k].up.due = flow[k].up.due
      /\ Remaining(known, net[k].up, r) \in Seq(Piece)
      /\ <<k, "up">> \notin mixed' =>
            Holds(k, FlowIn(k, known, r)[k].up, NetIn(k, r)[k].up,
                  {Remaining(known, net[k].up, r)}, ClientWrites(k))
  BY InFacts
<1>4. /\ n \in [Conn -> Sock] /\ f \in [Conn -> [up : Flow, down : Flow]]
      /\ \A j \in Conn \ {k} : n[j] = net[j] /\ f[j] = flow[j]
      /\ n[k].owner = net[k].owner /\ n[k].client = net[k].client
      /\ n[k].server = net[k].server /\ n[k].down = net[k].down
      /\ f[k].down = flow[k].down
      /\ f[k].up.put = flow[k].up.put /\ f[k].up.due = flow[k].up.due
      /\ left \in Seq(Piece)
      /\ <<k, "up">> \notin mixed' => Holds(k, f[k].up, n[k].up, {left}, ClientWrites(k))
  BY <1>2, <1>3
<1>5. PICK m, g : m = NetOut(k, n, Sent(enc, k, q, l, o)) /\ g = FlowOut(k, f, Put(q, l, o))
  OBVIOUS
<1>6. /\ enc \in Seq(Piece) /\ l \in 0..Len(q)
      /\ o \in Sending(enc, k, q, l, id, Room(net[k].down), FALSE)
  BY <1>1, <1>2, Zenon
<1>7. <<k, "down">> \notin mixed => Holds(k, flow[k].down, net[k].down, ClientReads(k), {enc})
  BY <1>1, <1>2, SlotHolds, Zenon
<1>19. Sends(k, n, f, enc, q, l, id, o, m, g)
  BY <1>4, <1>5, <1>6, <1>7 DEF Sends
<1>8. /\ m \in [Conn -> Sock] /\ g \in [Conn -> [up : Flow, down : Flow]]
      /\ \A j \in Conn \ {k} : m[j] = n[j] /\ g[j] = f[j]
      /\ m[k].owner = n[k].owner /\ m[k].client = n[k].client
      /\ m[k].server = n[k].server /\ m[k].up = n[k].up
      /\ g[k].up = f[k].up
      /\ <<k, "down">> \notin mixed =>
            /\ Holds(k, g[k].down, m[k].down, ClientReads(k), {})
            /\ o.how # "error" =>
                  Holds(k, g[k].down, m[k].down, ClientReads(k),
                        {EncodedAfter(enc, k, q, l, o)})
      /\ o.how \in {"done", "full", "error", "spin"}
      /\ o.how \in {"done", "full"}
           /\ flow[k].down.put \o Numbers(Addressed(Rest(q, l), id)) = flow[k].down.due =>
            g[k].down.put \o Numbers(Addressed(Rest(q, LastSentAfter(l, o)), id))
              = g[k].down.due
      /\ EncodedAfter(enc, k, q, l, o) \in Seq(Piece)
      /\ LastSentAfter(l, o) \in 0..Len(q)
  BY <1>19, OutFacts
<1>9. PICK slot, after, last, next :
        /\ slot = slots[s]
        /\ after = EncodedAfter(enc, k, q, l, o) /\ last = LastSentAfter(l, o)
        /\ next = NextSlot(slot, k, q, left, o)
  OBVIOUS
<1>10. /\ next \in ServerSlot /\ next.used = slot.used /\ next.id = id /\ next.conn = k
       /\ next.received = left /\ next.last = last /\ next.encoded = after
       /\ last \in Nat /\ last <= Len(q)
  <2>1. /\ slot \in ServerSlot /\ slot.conn = k /\ slot.id = id /\ slot.last = l
        /\ slot.encoded = enc
    BY <1>1, <1>2, <1>9, Zenon
  <2>2. last \in 0..Len(q) /\ after \in Seq(Piece) /\ Len(q) \in Nat
    BY <1>8, <1>9
  <2>3. last \in Nat /\ last <= Len(q)
    BY <2>2
  <2>4. left \in Seq(Piece)
    BY <1>4
  <2>5. next = [slot EXCEPT !.received = left, !.last = last, !.encoded = after]
    BY <1>9, <2>1 DEF NextSlot
  <2>6. /\ next \in ServerSlot /\ next.used = slot.used /\ next.id = slot.id
        /\ next.conn = slot.conn
        /\ next.received = left /\ next.last = last /\ next.encoded = after
    BY <2>1, <2>2, <2>3, <2>4, <2>5 DEF ServerSlot
  <2> QED
    BY <2>1, <2>3, <2>6
<1>11. /\ slots' = [slots EXCEPT ![s] = IF D = {} THEN next ELSE Disconnected(next)]
       /\ addrMap' = AddrMapWithout(D) /\ ids' = IdsWithout(D)
       /\ net' = NetWithout(D, m) /\ Remember(g)
       /\ D = IF o.how = "error" THEN {s} ELSE {}
       /\ IF o.how = "spin" THEN turn' = "spin" /\ at' = s ELSE GoTo(Used, s + 1)
  BY <1>2, <1>5, <1>9 DEF Answers
<1>12. stray' \in Seq(Piece)
  <2>1. <<>> \in Seq(Piece)
    OBVIOUS
  <2> QED
    BY <1>2, <1>4, <2>1
<1>13. slots \in [Slot -> ServerSlot]
  BY DEF IInv, EndsInv, TypeInv, ServerType
<1>14. /\ turn' \in {"user", "accept", "clients", "spin"} /\ at' \in Nat
       /\ turn' = "clients" => at' \in Used \ {s}
       /\ turn' # "spin" => o.how # "spin"
  <2>1. CASE o.how = "spin"
    BY <1>1, <1>11, <2>1, Zenon
  <2>2. CASE o.how # "spin"
    <3>5. s \in Nat
      BY <1>1, Zenon
    <3>6. GoTo(Used, s + 1)
      <4>1. IF o.how = "spin" THEN turn' = "spin" /\ at' = s ELSE GoTo(Used, s + 1)
        BY <1>11
      <4> QED
        BY <2>2, <4>1
    <3>7. Used \in SUBSET Nat
      BY SlotFacts
    <3>1. GoTo(Used, s + 1) /\ s + 1 \in Nat /\ Used \in SUBSET Nat
      BY <3>5, <3>6, <3>7
    <3>2. (turn' = "user" /\ at' = 0) \/ (turn' = "clients" /\ at' \in Used /\ at' >= s + 1)
      BY <3>1, GoToFacts
    <3>3. CASE turn' = "user" /\ at' = 0
      BY <2>2, <3>3
    <3>4. CASE turn' = "clients" /\ at' \in Used /\ at' >= s + 1
      <4>1. at' \in Nat
        BY <3>1, <3>4
      <4>2. at' # s
        BY <3>4, <3>5, <4>1
      <4> QED
        BY <2>2, <3>4, <4>1, <4>2
    <3> QED
      BY <3>2, <3>3, <3>4
  <2> QED
    BY <2>1, <2>2
<1> DEFINE sl == SlotsWith(s, next)
<1>15. /\ sl \in [Slot -> ServerSlot] /\ sl[s] = next
       /\ \A t \in Slot \ {s} : sl[t] = slots[t]
  BY <1>1, <1>10, <1>13, Zenon DEF SlotsWith
<1> HIDE DEF sl
<1>16. D \subseteq {s} /\ (s \in D <=> o.how = "error") /\ (D = {} <=> s \notin D)
  BY <1>11
<1>17. Turns(sl, m, g, D)
  <2>1. slots' = [t \in Slot |-> IF t \in D THEN Disconnected(sl[t]) ELSE sl[t]]
    <3>1. \A t \in Slot : slots'[t] = IF t \in D THEN Disconnected(sl[t]) ELSE sl[t]
      BY <1>1, <1>11, <1>13, <1>15, <1>16, Zenon
    <3>2. slots' = [t \in Slot |-> slots'[t]]
      BY <1>11, <1>13, Zenon
    <3> QED
      BY <3>1, <3>2
  <2>2. D \subseteq Used
    BY <1>1, <1>16, Zenon
  <2>3. turn' = "clients" => at' \in Used \ D
    BY <1>14, <1>16
  <2> QED
    BY <1>1, <1>11, <1>12, <1>14, <2>1, <2>2, <2>3, Zenon DEF Turns
<1>18. Serves(sl, m, g, D)
  <2>1. \A t \in Slot : /\ sl[t].used = slots[t].used /\ sl[t].id = slots[t].id
                        /\ sl[t].conn = slots[t].conn
                        /\ t \notin Used => sl[t] = slots[t]
    BY <1>1, <1>2, <1>9, <1>10, <1>15, Zenon
  <2>2. \A t \in Used \ D : sl[t].last <= Len(queue'[Server])
    <3>1. \A t \in Used : t \in Slot /\ slots[t].last <= Len(queue[Server])
      BY SlotFacts DEF IInv, EndsInv, ServerEnds
    <3> QED
      BY <1>1, <1>10, <1>15, <3>1, Zenon
  <2>3. \A j \in Conn : (\A t \in Used : slots[t].conn # j) => m[j] = net[j] /\ g[j] = flow[j]
    <3>1. ASSUME NEW j \in Conn, \A t \in Used : slots[t].conn # j
          PROVE  m[j] = net[j] /\ g[j] = flow[j]
      <4>1. s \in Used /\ slots[s].conn = k
        BY <1>1, Zenon
      <4>2. j \in Conn \ {k}
        BY <3>1, <4>1
      <4>3. n[j] = net[j] /\ f[j] = flow[j]
        BY <1>4, <4>2
      <4>4. m[j] = n[j] /\ g[j] = f[j]
        BY <1>8, <4>2
      <4> QED
        BY <4>3, <4>4
    <3> QED
      BY <3>1
  <2>4. ASSUME NEW t \in Used, NEW j \in Conn, j = slots[t].conn
        PROVE  /\ m[j].owner = net[j].owner /\ m[j].client = net[j].client
               /\ m[j].server = net[j].server
               /\ g[j].up.put = flow[j].up.put /\ g[j].up.due = flow[j].up.due
               /\ <<j, "up">> \notin mixed' =>
                    Holds(j, g[j].up, m[j].up, IF t \in D THEN {} ELSE {sl[t].received},
                          ClientWrites(j))
               /\ <<j, "down">> \notin mixed' =>
                    Holds(j, g[j].down, m[j].down, ClientReads(j),
                          IF t \in D THEN {} ELSE {sl[t].encoded})
               /\ t \notin D /\ turn' # "spin" =>
                    g[j].down.put \o Numbers(Addressed(Rest(queue'[Server], sl[t].last),
                                                       sl[t].id))
                      = g[j].down.due
    <3>1. CASE t # s
      <4>1. /\ <<j, "up">> \notin mixed =>
                  Holds(j, flow[j].up, net[j].up, {slots[t].received}, ClientWrites(j))
            /\ <<j, "down">> \notin mixed =>
                  Holds(j, flow[j].down, net[j].down, ClientReads(j), {slots[t].encoded})
        BY <2>4, SlotHolds, Zenon
      <4>2. j # k
        BY <1>1, <2>4, <3>1, Zenon
      <4>3. m[j] = net[j] /\ g[j] = flow[j] /\ sl[t] = slots[t] /\ t \notin D
        BY <1>4, <1>8, <1>15, <1>16, <3>1, <4>2, SlotFacts
      <4>4. flow[j].down.put \o Numbers(Addressed(Rest(queue[Server], slots[t].last),
                                                  slots[t].id)) = flow[j].down.due
        <5>1. turn # "spin"
          BY DEF AtSlot
        <5> QED
          BY <2>4, <5>1, Zenon DEF IInv, NothingSkipped
      <4> QED
        BY <1>1, <4>1, <4>3, <4>4, Zenon
    <3>2. CASE t = s
      <4>1. j = k
        BY <1>1, <2>4, <3>2, Zenon
      <4>2. /\ m[k].owner = net[k].owner /\ m[k].client = net[k].client
            /\ m[k].server = net[k].server
            /\ g[k].up.put = flow[k].up.put /\ g[k].up.due = flow[k].up.due
        BY <1>4, <1>8
      <4>3. ASSUME <<k, "up">> \notin mixed'
            PROVE  Holds(k, g[k].up, m[k].up, IF s \in D THEN {} ELSE {left}, ClientWrites(k))
        <5>1. Holds(k, f[k].up, n[k].up, {left}, ClientWrites(k))
          BY <1>4, <4>3
        <5>2. Holds(k, f[k].up, n[k].up, {}, ClientWrites(k))
          BY <5>1 DEF Holds
        <5> QED
          BY <1>8, <5>1, <5>2
      <4>4. ASSUME <<k, "down">> \notin mixed'
            PROVE  Holds(k, g[k].down, m[k].down, ClientReads(k),
                         IF s \in D THEN {} ELSE {after})
        <5>1. <<k, "down">> \notin mixed
          BY <1>1, <4>4, Zenon
        <5> QED
          BY <1>8, <1>9, <1>16, <5>1
      <4>5. ASSUME s \notin D, turn' # "spin"
            PROVE  g[k].down.put \o Numbers(Addressed(Rest(q, last), id)) = g[k].down.due
        <5>1. o.how \in {"done", "full"}
          BY <1>8, <1>14, <1>16, <4>5
        <5>2. flow[k].down.put \o Numbers(Addressed(Rest(q, l), id)) = flow[k].down.due
          BY <1>1, <1>2, Zenon
        <5> QED
          BY <1>8, <1>9, <5>1, <5>2
      <4>6. sl[t] = next /\ queue'[Server] = q
        BY <1>1, <1>15, <3>2, Zenon
      <4> QED
        BY <1>10, <3>2, <4>1, <4>2, <4>3, <4>4, <4>5, <4>6, Zenon
    <3> QED
      BY <3>1, <3>2
  <2> QED
    BY <1>8, <1>15, <2>1, <2>2, <2>3, <2>4, Zenon DEF Serves
<1> QED
  BY <1>17, <1>18, TurnsInv

\* The server updates a slot.
LEMMA UpdateInv ==
    ASSUME IInv, NEW s \in Slot, UpdateClient(s)
    PROVE  IInv'
<1>1. PICK k \in Conn, known \in Seq(Piece), q \in Seq(Message) :
         /\ AtSlot(s, k, known, q)
         /\ \E r \in Receiving(known, net[k].up) :
              /\ stray' \in {<<>>, Remaining(known, net[k].up, r)}
              /\ \/ Loses(s, k, known, r)
                 \/ \E o \in Sending(slots[s].encoded, k, q, slots[s].last, slots[s].id,
                                     Room(net[k].down), FALSE) :
                    \E D \in {{}, {s}} : Answers(s, k, known, q, r, o, D)
  BY UpdateIs
<1>2. PICK r \in Receiving(known, net[k].up) :
         /\ stray' \in {<<>>, Remaining(known, net[k].up, r)}
         /\ \/ Loses(s, k, known, r)
            \/ \E o \in Sending(slots[s].encoded, k, q, slots[s].last, slots[s].id,
                                Room(net[k].down), FALSE) :
               \E D \in {{}, {s}} : Answers(s, k, known, q, r, o, D)
  BY <1>1
<1>3. CASE Loses(s, k, known, r)
  BY <1>1, <1>2, <1>3, LosesInv
<1>4. CASE \E o \in Sending(slots[s].encoded, k, q, slots[s].last, slots[s].id,
                            Room(net[k].down), FALSE) :
           \E D \in {{}, {s}} : Answers(s, k, known, q, r, o, D)
  <2>1. PICK o \in Sending(slots[s].encoded, k, q, slots[s].last, slots[s].id,
                           Room(net[k].down), FALSE) :
           \E D \in {{}, {s}} : Answers(s, k, known, q, r, o, D)
    BY <1>4
  <2>2. PICK D \in {{}, {s}} : Answers(s, k, known, q, r, o, D)
    BY <2>1
  <2>3. AtSlot(s, k, known, q)
    BY <1>1
  <2>4. stray' \in {<<>>, Remaining(known, net[k].up, r)}
    BY <1>2
  <2>5. IInv
    OBVIOUS
  <2>6. k \in Conn /\ known \in Seq(Piece) /\ q \in Seq(Message)
    BY <1>1
  <2>7. r \in Receiving(known, net[k].up)
    BY <1>2
  <2>8. o \in Sending(slots[s].encoded, k, q, slots[s].last, slots[s].id,
                     Room(net[k].down), FALSE)
    BY <2>1
  <2>9. Answers(s, k, known, q, r, o, D)
    BY <2>2
  <2> HIDE <2>1, <2>2
  <2> QED
    BY ONLY <2>3, <2>4, <2>5, <2>6, <2>7, <2>8, <2>9, AnswersInv
<1> QED
  BY <1>2, <1>3, <1>4

-----------------------------------------------------------------------------
(* The channel *)

\* At the start nothing is open, and nothing has been sent.
LEMMA InitInv ==
    ASSUME Init
    PROVE  IInv
<1>1. /\ pending = [e \in Endpoint |-> <<>>]
      /\ queue = [e \in Endpoint |-> <<>>]
      /\ made = [e \in Endpoint |-> 0]
      /\ client = [c \in Client |->
                     [begun |-> FALSE, status |-> "Disconnected", conn |-> NoConn,
                      last |-> 0, encoded |-> <<>>, received |-> <<>>]]
      /\ slots = [s \in Slot |-> [used |-> FALSE, id |-> NoId, conn |-> NoConn,
                                  last |-> 0, encoded |-> <<>>, received |-> <<>>]]
      /\ addrMap = {} /\ stray = <<>> /\ turn = "user" /\ at = 0 /\ ids = {}
      /\ counter = 0 /\ opened = 0
      /\ net = [k \in Conn |-> NoSocket]
      /\ flow = [k \in Conn |-> NoFlows]
      /\ mixed = {}
  BY DEF Init, NoFlows
<1>2. <<>> \in Seq(Piece) /\ <<>> \in Seq(Message) /\ <<>> \in Seq(Nat)
      /\ <<>> \in Seq(Nat \X Nat) /\ NoId \in Int /\ NoConn \in Ref /\ 0 \in Ref
      /\ Server \in Endpoint /\ Client \subseteq Endpoint
  <2>1. NoConn \in Ref /\ 0 \in Ref
    BY ConnFacts DEF NoConn
  <2> QED
    BY <2>1 DEF NoId, Endpoint
<1>3. TypeInv
  <2>1. QueueType
    BY <1>1, <1>2 DEF QueueType
  <2>2. ClientType
    BY <1>1, <1>2 DEF ClientType, ClientChannel
  <2>3. IsFiniteSet(ids)
    BY <1>1, FS_EmptySet
  <2>4. ServerType
    BY <1>1, <1>2, <2>3 DEF ServerType, ServerSlot
  <2>5. NoSocket \in Sock
    BY <1>2 DEF NoSocket, Sock
  <2>6. NoFlows \in [up : Flow, down : Flow]
    BY <1>2 DEF NoFlows, NoFlow, Flow
  <2>7. NetType
    BY <1>1, <1>2, <2>5, <2>6 DEF NetType
  <2> QED
    BY <2>1, <2>2, <2>4, <2>7 DEF TypeInv
<1>4. Used = {}
  BY <1>1 DEF Used
<1>5. /\ \A k \in Conn : /\ net[k].client = "none" /\ net[k].server = "none"
                         /\ net[k].up = <<>> /\ net[k].down = <<>>
                         /\ flow[k].up.put = <<>> /\ flow[k].up.got = <<>>
                         /\ flow[k].down.put = <<>> /\ flow[k].down.got = <<>>
      /\ \A c \in Client : /\ client[c].conn = NoConn /\ client[c].last = 0
                           /\ client[c].status = "Disconnected"
                           /\ queue[c] = <<>>
      /\ \A s \in Slot : ~slots[s].used /\ slots[s].received = <<>>
  BY <1>1, <1>2 DEF NoSocket, NoFlows, NoFlow
<1>6. ClientEnds
  <2>1. Len(<<>>) = 0
    OBVIOUS
  <2> QED
    BY <1>5, <2>1 DEF ClientEnds
<1>7. ServerEnds
  BY <1>1, <1>5 DEF ServerEnds
<1>8. Untouched
  <2>1. \A k \in Conn : k > opened
    BY <1>1 DEF Conn
  <2> QED
    BY <1>5, <2>1 DEF Untouched
<1>9. SlotsAgree
  BY <1>1, <1>5 DEF SlotsAgree
<1>10. NothingSkipped
  BY <1>4, <1>5 DEF NothingSkipped
<1>11. UpHolds /\ DownHolds
  <2>1. ASSUME NEW k \in Conn
        PROVE  /\ Holds(k, flow[k].up, net[k].up, ServerReads(k), ClientWrites(k))
               /\ Holds(k, flow[k].down, net[k].down, ClientReads(k), ServerWrites(k))
    <3>1. k # NoConn
      BY ConnFacts
    <3>2. /\ {t \in Used : slots[t].conn = k} = {}
          /\ {d \in Client : client[d].conn = k} = {}
      BY <1>4, <1>5, <3>1
    <3>3. /\ ServerReads(k) \subseteq {<<>>} /\ ServerWrites(k) \subseteq {<<>>}
          /\ ClientReads(k) \subseteq {<<>>} /\ ClientWrites(k) \subseteq {<<>>}
      BY <3>2 DEF ServerReads, ServerWrites, ClientReads, ClientWrites
    <3>4. /\ Holds(k, flow[k].up, <<>>, ServerReads(k), ClientWrites(k))
          /\ Holds(k, flow[k].down, <<>>, ClientReads(k), ServerWrites(k))
      BY <1>5, <3>3, HoldsNothing
    <3> QED
      BY <1>5, <3>4
  <2> QED
    BY <2>1 DEF UpHolds, DownHolds
<1> QED
  BY <1>3, <1>6, <1>7, <1>8, <1>9, <1>10, <1>11 DEF IInv, EndsInv

\* Nothing happens.
LEMMA StutterInv ==
    ASSUME IInv, UNCHANGED vars
    PROVE  IInv'
<1>1. UNCHANGED <<pending, queue, made, client, slots, addrMap, stray, turn, at, ids,
                  counter, opened, net, flow, mixed>>
  BY DEF vars
<1>2. TypeInv'
  BY <1>1 DEF IInv, EndsInv, TypeInv, QueueType, ClientType, ServerType, NetType
<1>3. ClientEnds' /\ ServerEnds' /\ Untouched'
  BY <1>1 DEF IInv, EndsInv, ClientEnds, ServerEnds, Untouched, Used
<1>4. SlotsAgree'
  BY <1>1 DEF IInv, SlotsAgree, Used
<1>5. NothingSkipped'
  BY <1>1, Zenon DEF IInv, NothingSkipped, Used
<1>6. UpHolds' /\ DownHolds'
  <2>1. Used' = Used
    BY <1>1 DEF Used
  <2>2. ASSUME NEW k \in Conn
        PROVE  /\ ServerReads(k)' = ServerReads(k) /\ ServerWrites(k)' = ServerWrites(k)
               /\ ClientReads(k)' = ClientReads(k) /\ ClientWrites(k)' = ClientWrites(k)
    BY <1>1, <2>1 DEF ServerReads, ServerWrites, ClientReads, ClientWrites
  <2> QED
    BY <1>1, <2>2 DEF IInv, UpHolds, DownHolds
<1> QED
  BY <1>2, <1>3, <1>4, <1>5, <1>6 DEF IInv, EndsInv

\* Every step keeps the invariant.
LEMMA NextInv ==
    ASSUME IInv, [Next]_vars
    PROVE  IInv'
<1>1. CASE \E c \in Client : ClientNext(c)
  <2>1. PICK c \in Client : ClientNext(c)
    BY <1>1
  <2>2. CASE ClientBroken(c)
    BY <2>2, BrokenInv
  <2>3. CASE ClientWait(c)
    BY <2>3, WaitInv
  <2>4. CASE ClientRetry(c)
    BY <2>4, RetryInv
  <2>5. CASE ClientExchange(c)
    BY <2>5, ExchangeInv
  <2> QED
    BY <2>1, <2>2, <2>3, <2>4, <2>5 DEF ClientNext
<1>2. CASE ServerNext
  <2>1. CASE ServerFrame
    BY <2>1, FrameInv
  <2>2. ASSUME NEW k \in Conn, Accept(k)
        PROVE  IInv'
    BY <2>2, AcceptInv
  <2>3. CASE Accepted
    BY <2>3, AcceptedInv
  <2>4. ASSUME NEW s \in Slot, UpdateClient(s)
        PROVE  IInv'
    BY <2>4, UpdateInv
  <2> QED
    BY <1>2, <2>1, <2>2, <2>3, <2>4 DEF ServerNext
<1>3. CASE User
  <2>1. ASSUME NEW s \in Used, DisconnectClient(slots[s].id)
        PROVE  IInv'
    <3> DEFINE found == {t \in Used : slots[t].id = slots[s].id}
    <3>1. found # {} /\ ServerDisconnect({Min(found)})
      BY <2>1 DEF DisconnectClient
    <3>2. found \in SUBSET Nat /\ found \subseteq Used
      BY SlotFacts
    <3> HIDE DEF found
    <3>3. Min(found) \in Used
      BY <3>1, <3>2, MinIsIn
    <3>4. {Min(found)} \subseteq Used
      BY <3>3
    <3> QED
      BY <3>1, <3>4, ServerDisconnectInv
  <2>2. CASE DisconnectClientsWithIncompleteMsgQueue
    <3> DEFINE incomplete == {s \in Used : slots[s].last # 0}
    <3>1. incomplete \subseteq Used /\ ServerDisconnect(incomplete)
      BY <2>2 DEF DisconnectClientsWithIncompleteMsgQueue
    <3> HIDE DEF incomplete
    <3> QED
      BY <3>1, ServerDisconnectInv
  <2> QED
    BY <1>3, <2>1, <2>2 DEF User
<1>4. CASE UNCHANGED vars
  BY <1>4, StutterInv
<1> QED
  BY <1>1, <1>2, <1>3, <1>4 DEF Next

\* Reachable states satisfy the invariant.
THEOREM Invariant == Spec => []IInv
<1>1. Init => IInv
  BY InitInv
<1>2. IInv /\ [Next]_vars => IInv'
  BY NextInv
<1> QED
  BY <1>1, <1>2, PTL DEF Spec

\* Endpoints, slots, connections and streams keep their types.
THEOREM ChannelTypeCorrect == Spec => []TypeInv
<1>1. IInv => TypeInv
  BY DEF IInv, EndsInv
<1> QED
  BY <1>1, Invariant, PTL

\* A sequence that agrees with the first elements of another one is its prefix.
LEMMA PrefixByElements ==
    ASSUME NEW S, NEW s \in Seq(S), NEW t \in Seq(S), Len(s) <= Len(t),
           \A j \in 1..Len(s) : s[j] = t[j]
    PROVE  IsPrefix(s, t)
<1>1. Len(s) \in Nat /\ Len(t) \in Nat
  OBVIOUS
<1>2. /\ SubSeq(s, 1, Len(s)) \in Seq(S) /\ SubSeq(t, 1, Len(s)) \in Seq(S)
      /\ Len(SubSeq(s, 1, Len(s))) = Len(s) /\ Len(SubSeq(t, 1, Len(s))) = Len(s)
      /\ \A j \in 1..Len(s) : /\ SubSeq(s, 1, Len(s))[j] = s[j]
                              /\ SubSeq(t, 1, Len(s))[j] = t[j]
  BY <1>1
<1>3. SubSeq(s, 1, Len(s)) = SubSeq(t, 1, Len(s))
  BY <1>2
<1> QED
  BY <1>3 DEF IsPrefix

\* What is Carried is a prefix.
LEMMA CarriedIsPrefix ==
    ASSUME NEW k, NEW f \in Flow, Carried(k, f.put, f.got)
    PROVE  IsPrefix(f.got, [j \in DOMAIN f.put |-> <<k, f.put[j]>>])
<1> DEFINE sent == [j \in DOMAIN f.put |-> <<k, f.put[j]>>]
           S == {<<k, f.put[j]>> : j \in 1..Len(f.put)}
<1>1. f.put \in Seq(Nat) /\ f.got \in Seq(Nat \X Nat)
  BY DEF Flow
<1>2. DOMAIN f.put = 1..Len(f.put) /\ Len(f.put) \in Nat /\ Len(f.got) \in Nat
  BY <1>1
<1>3. /\ Len(f.got) <= Len(f.put)
      /\ \A j \in 1..Len(f.got) : f.got[j] = <<k, f.put[j]>>
  BY DEF Carried
<1>4. /\ sent \in Seq(S) /\ Len(sent) = Len(f.put)
      /\ \A j \in 1..Len(f.put) : sent[j] = <<k, f.put[j]>>
  BY <1>2
<1>5. f.got \in Seq(S)
  <2>1. DOMAIN f.got = 1..Len(f.got)
    BY <1>1
  <2>2. ASSUME NEW j \in 1..Len(f.got)
        PROVE  f.got[j] \in S
    <3>1. j \in 1..Len(f.put) /\ f.got[j] = <<k, f.put[j]>>
      BY <1>2, <1>3
    <3> QED
      BY <3>1
  <2>3. f.got = [j \in 1..Len(f.got) |-> f.got[j]]
    BY <1>1
  <2>4. f.got \in [1..Len(f.got) -> S]
    BY <2>2, <2>3
  <2> QED
    BY <1>2, <2>4
<1> HIDE DEF S
<1>6. IsPrefix(f.got, sent)
  <2>1. ASSUME NEW j \in 1..Len(f.got)
        PROVE  f.got[j] = sent[j]
    <3>1. j \in 1..Len(f.put)
      BY <1>2, <1>3
    <3>2. f.got[j] = <<k, f.put[j]>>
      BY <1>3
    <3>3. sent[j] = <<k, f.put[j]>>
      BY <1>4, <3>1
    <3> QED
      BY ONLY <3>2, <3>3
  <2>2. Len(f.got) <= Len(sent)
    BY <1>3, <1>4
  <2> HIDE DEF sent
  <2> QED
    BY <1>4, <1>5, <2>1, <2>2, PrefixByElements
<1> QED
  BY <1>6

\* In each direction of a connection that got nothing foreign, the receiver
\* decodes a prefix of the messages that were encoded for it, StreamInOrder:
\* whatever the sizes of the buffers and of the socket.
THEOREM StreamsInOrder == Spec => []StreamInOrder
<1>1. IInv => StreamInOrder
  <2> SUFFICES ASSUME IInv, NEW k \in Conn
               PROVE  /\ <<k, "up">> \notin mixed =>
                           IsPrefix(flow[k].up.got,
                                    [j \in DOMAIN flow[k].up.put |-> <<k, flow[k].up.put[j]>>])
                      /\ <<k, "down">> \notin mixed =>
                           IsPrefix(flow[k].down.got,
                                    [j \in DOMAIN flow[k].down.put |-> <<k, flow[k].down.put[j]>>])
    BY Zenon DEF StreamInOrder
  <2>1. flow[k].up \in Flow /\ flow[k].down \in Flow
    BY DEF IInv, EndsInv, TypeInv, NetType
  <2>2. /\ <<k, "up">> \notin mixed => Carried(k, flow[k].up.put, flow[k].up.got)
        /\ <<k, "down">> \notin mixed => Carried(k, flow[k].down.put, flow[k].down.got)
    BY DEF IInv, UpHolds, DownHolds, Holds
  <2> QED
    BY <2>1, <2>2, CarriedIsPrefix
<1> QED
  BY <1>1, Invariant, PTL

\* The pool, the map of addresses and the listener agree, SlotsAgree.
THEOREM PoolAgrees == Spec => []SlotsAgree
<1>1. IInv => SlotsAgree
  BY DEF IInv
<1> QED
  BY <1>1, Invariant, PTL

\* No message of a frame is left out of the stream of a connection that goes
\* on, NothingSkipped.
THEOREM NothingIsSkipped == Spec => []NothingSkipped
<1>1. IInv => NothingSkipped
  BY DEF IInv
<1> QED
  BY <1>1, Invariant, PTL
=============================================================================
