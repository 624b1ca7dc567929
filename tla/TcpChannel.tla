------------------------------ MODULE TcpChannel ------------------------------
(***************************************************************************)
(* TCP channels of a server and its clients, with the listener that gives  *)
(* the clients their ids (networking/HighLevel/TcpChannel.{h,cpp},         *)
(* ClientServerBase.cpp, Utils/DefaultClientListener.cpp).                 *)
(*                                                                         *)
(* Every endpoint calls Update() again and again, with the frame of the    *)
(* call before or the next one.  A step of a client is a call, but for one *)
(* that first drops its connection; a call of the server has a step for    *)
(* its begin, one for each accepted socket and one for each client.  The   *)
(* endpoints share nothing but the connections, which are streams in both  *)
(* directions of a library.  The channels are reliable ones, there is one  *)
(* channel, and a client has an address of its own.                        *)
(***************************************************************************)
EXTENDS TcpStream, FiniteSets, SequencesExt

CONSTANTS
    Client,
    Server,
    MaxClients,     \* _maxClients, of the pool and of the listener
    SocketSize,     \* parts a connection can hold in one direction
    MaxPerUpdate,   \* bound: messages produced in a call of Update()
    MaxMade,        \* bound: messages of an endpoint, a function
    MaxConn,        \* bound: connections
    Targeted,       \* the server has messages for one client
    Fits            \* whether messages can be written, a set of BOOLEAN

ASSUME ChannelAssumption == /\ Server \notin Client
                            /\ MaxClients \in Nat \ {0}
                            /\ SocketSize \in Nat
                            /\ MaxPerUpdate \in Nat
                            /\ MaxMade \in [Client \union {Server} -> Nat]
                            /\ MaxConn \in Nat
                            /\ Targeted \in BOOLEAN
                            /\ Fits \subseteq BOOLEAN

Endpoint == Client \union {Server}
Slot == 0..(MaxClients - 1)
Conn == 1..MaxConn
NoConn == 0
NoId == -2      \* Default, in a pool slot that nobody has

VARIABLES
    pending,    \* messages of Send() that wait for the next frame
    queue,      \* messages of this frame
    made,       \* number of the last message of an endpoint
    client,     \* TcpClientChannel of each client
    slots,      \* _clientPool, with _poolBits
    addrMap,    \* _clientAddrMap: connections, by their address, and slots
    stray,      \* _received.storage up to _received.received, of the server
    turn,       \* where the server's Update() is
    at,         \* slot that _UpdateClients() is at
    ids,        \* _clients of the listener: id and address
    counter,    \* _counter of the listener
    opened,     \* connections so far
    net,        \* the connections
    flow,       \* history: what went through a connection, per direction
    mixed       \* history: streams that got parts of another connection

serverVars == <<slots, addrMap, stray, turn, at, ids, counter>>
vars == <<pending, queue, made, client, slots, addrMap, stray, turn, at, ids,
          counter, opened, net, flow, mixed>>

NoFlow == [put |-> <<>>, got |-> <<>>, due |-> <<>>]

\* Nobody uses a socket that has not been created.
NoSocket == [owner |-> Server, up |-> <<>>, down |-> <<>>, client |-> "none",
             server |-> "none"]

Init ==
    /\ pending = [e \in Endpoint |-> <<>>]
    /\ queue = [e \in Endpoint |-> <<>>]
    /\ made = [e \in Endpoint |-> 0]
    /\ client = [c \in Client |->
                   [begun |-> FALSE, status |-> "Disconnected", conn |-> NoConn,
                    last |-> 0, encoded |-> <<>>, received |-> <<>>]]
    /\ slots = [s \in Slot |-> [used |-> FALSE, id |-> NoId, conn |-> NoConn,
                                last |-> 0, encoded |-> <<>>, received |-> <<>>]]
    /\ addrMap = {}
    /\ stray = <<>>
    /\ turn = "user"
    /\ at = 0
    /\ ids = {}
    /\ counter = 0
    /\ opened = 0
    /\ net = [k \in Conn |-> NoSocket]
    /\ flow = [k \in Conn |-> [up |-> NoFlow, down |-> NoFlow]]
    /\ mixed = {}

-----------------------------------------------------------------------------
\* Messages the producers of e and Send() bring in one call of Update().
Made(e) ==
    LET kinds == [to : IF e = Server /\ Targeted
                       THEN {AnyClient} \union {slots[s].id : s \in {t \in Slot : slots[t].used}}
                       ELSE {AnyClient},
                  fits : Fits]
        most  == IF MaxMade[e] - made[e] < MaxPerUpdate THEN MaxMade[e] - made[e]
                                                        ELSE MaxPerUpdate
    IN  UNION {{[j \in 1..m |-> [n |-> made[e] + j, to |-> k[j].to,
                                 fits |-> k[j].fits]]
                   : k \in [1..m -> kinds]} : m \in 0..most}

\* Update(): the produced messages go to the pending ones; with a new frame,
\* FlushPendingQueue() makes the pending ones the queue.
Produce(e, ms, newFrame) ==
    /\ made' = [made EXCEPT ![e] = @ + Len(ms)]
    /\ pending' = [pending EXCEPT ![e] = IF newFrame THEN <<>> ELSE @ \o ms]
    /\ queue' = [queue EXCEPT ![e] = IF newFrame THEN pending[e] \o ms ELSE @]

\* The begin of the queue: the end of the queue when it is empty.
Begin(q) == IF q = <<>> THEN 0 ELSE 1

\* A side closes its socket: nothing can be read there any more, and when both
\* have closed it nothing is left.
CloseClient(sock) ==
    [sock EXCEPT !.client = "closed", !.down = <<>>,
                 !.up = IF sock.server = "closed" THEN <<>> ELSE @]

CloseServer(sock) ==
    [sock EXCEPT !.server = "closed", !.up = <<>>,
                 !.down = IF sock.client = "closed" THEN <<>> ELSE @]

Room(parts) == SocketSize - Len(parts)

\* The history of a connection that both sides have closed is of no interest.
Remember(f) ==
    flow' = [k \in Conn |-> IF net'[k].client = "closed" /\ net'[k].server = "closed"
                            THEN [up |-> NoFlow, down |-> NoFlow] ELSE f[k]]

-----------------------------------------------------------------------------
\* Client.

\* What is encoded stays for the next connection.
Reconnected_Bug(ch, ok) ==
    [ch EXCEPT !.status = IF ok THEN "Connecting" ELSE "Disconnected",
               !.conn = IF ok THEN opened + 1 ELSE NoConn,
               !.received = <<>>]

\* What _Reconnect() leaves of the channel: the socket is closed and another
\* one begins to connect, or the address is of no use.
Reconnected(ch, ok) ==
    [ch EXCEPT !.status = IF ok THEN "Connecting" ELSE "Disconnected",
               !.conn = IF ok THEN opened + 1 ELSE NoConn,
               !.encoded = <<>>, !.received = <<>>]

\* The connections after _Reconnect() of c, when before it they were n.
Reopened(c, n, ok) ==
    [k \in Conn |->
        CASE k = client[c].conn     -> CloseClient(n[k])
          [] ok /\ k = opened + 1   -> [n[k] EXCEPT !.owner = c, !.client = "open"]
          [] OTHER                  -> n[k]]

\* The history of the new connection begins with the messages of the frame
\* that the channel is going to send on it.
Redue(f, q, last, ok) ==
    IF ok THEN [f EXCEPT ![opened + 1].up.due = Numbers(Rest(q, last))] ELSE f

\* AsyncConnect() may fail, and MaxConn bounds the connections.
Connects == IF opened < MaxConn THEN BOOLEAN ELSE {FALSE}

\* The begin of TcpClientChannel::ProcessMessages() of a call that goes on
\* with the connection, or the call has begun before, see ClientBroken.
Begins(c, ms, newFrame) ==
    /\ IF client[c].begun THEN ms = <<>> /\ ~newFrame
                          ELSE newFrame => client[c].last = 0
    /\ Produce(c, ms, newFrame)

\* The channel, and its history, behind this begin.
Begun(c, ms, newFrame) ==
    [client[c] EXCEPT !.begun = FALSE,
                      !.last = IF newFrame THEN Begin(pending[c] \o ms) ELSE @]

Due(c, ms, newFrame) ==
    IF newFrame /\ client[c].conn # NoConn
    THEN [flow EXCEPT ![client[c].conn].up.due = @ \o Numbers(pending[c] \o ms)]
    ELSE flow

\* The begin in which messages are left of the last frame: they are discarded
\* and the connection with them.
ClientBroken(c) ==
    /\ ~client[c].begun
    /\ client[c].last # 0
    /\ \E ms \in Made(c), ok \in Connects :
        LET q == pending[c] \o ms
        IN  /\ Produce(c, ms, TRUE)
            /\ client' = [client EXCEPT ![c] =
                 Reconnected([@ EXCEPT !.begun = TRUE, !.last = Begin(q)], ok)]
            /\ opened' = opened + (IF ok THEN 1 ELSE 0)
            /\ net' = Reopened(c, net, ok)
            /\ Remember(Redue(flow, q, Begin(q), ok))
    /\ UNCHANGED <<serverVars, mixed>>

\* The connection is not established yet, or it could not be.
ClientWait(c) ==
    /\ client[c].status = "Connecting"
    /\ \E ms \in Made(c), newFrame \in BOOLEAN,
          status \in {"Connecting", "Failed"} :
        /\ Begins(c, ms, newFrame)
        /\ client' = [client EXCEPT ![c] =
                        [Begun(c, ms, newFrame) EXCEPT !.status = status]]
        /\ flow' = Due(c, ms, newFrame)
    /\ UNCHANGED <<serverVars, opened, net, mixed>>

\* The next try after a failure.
ClientRetry(c) ==
    /\ client[c].status \in {"Failed", "Disconnected"}
    /\ \E ms \in Made(c), newFrame \in BOOLEAN, ok \in Connects :
        LET ch == Begun(c, ms, newFrame)
        IN  /\ Begins(c, ms, newFrame)
            /\ client' = [client EXCEPT ![c] = Reconnected(ch, ok)]
            /\ opened' = opened + (IF ok THEN 1 ELSE 0)
            /\ net' = Reopened(c, net, ok)
            /\ Remember(Redue(flow, queue'[c], ch.last, ok))
    /\ UNCHANGED <<serverVars, mixed>>

\* The connection is established: receive, then send.
ClientExchange(c) ==
    /\ client[c].status \in {"Connecting", "Connected"}
    /\ \E ms \in Made(c), newFrame \in BOOLEAN :
        /\ Begins(c, ms, newFrame)
        /\ LET ch == Begun(c, ms, newFrame)
               k  == ch.conn
               q  == queue'[c]
           IN  \E r \in Receiving(ch.received, net[k].down) :
               \E o \in Sending(ch.encoded, k, q, ch.last, AnyClient,
                                Room(net[k].up), r.failed) :
               \E ok \in (IF o.how = "error" THEN Connects ELSE {FALSE}) :
                LET last == LastSentAfter(ch.last, o)
                    disconnected == o.how = "error"
                    out  == Sent(ch.encoded, k, q, ch.last, o)
                    n    == [net EXCEPT
                               ![k].down = Drop(@, r.taken),
                               ![k].up = IF net[k].server = "closed" THEN <<>>
                                         ELSE @ \o out]
                    f    == [Due(c, ms, newFrame) EXCEPT
                               ![k].down.got =
                                   @ \o Decoded(ch.received, net[k].down, r),
                               ![k].up.put = @ \o Put(q, ch.last, o)]
                    next == [ch EXCEPT
                               !.status = "Connected", !.last = last,
                               !.encoded = EncodedAfter(@, k, q, ch.last, o),
                               !.received = Remaining(@, net[k].down, r)]
                IN  /\ client' = [client EXCEPT ![c] =
                         IF disconnected THEN Reconnected(next, ok) ELSE next]
                    /\ opened' = opened + (IF ok THEN 1 ELSE 0)
                    /\ net' = IF disconnected THEN Reopened(c, n, ok) ELSE n
                    /\ Remember(IF disconnected THEN Redue(f, q, last, ok) ELSE f)
    /\ UNCHANGED <<serverVars, mixed>>

-----------------------------------------------------------------------------
\* Server.

Used == {s \in Slot : slots[s].used}

\* Messages of ms that the client with this id is to get.
Addressed(ms, id) == Chosen(ms, {j \in 1..Len(ms) : ~Foreign(ms[j], id)})

\* _Disconnect() of the slots D: the socket is closed, the slot is free, its
\* address is forgotten and the listener forgets its id.  What is encoded for
\* the client stays.
Disconnected(slot) == [slot EXCEPT !.used = FALSE, !.id = NoId, !.conn = NoConn,
                                   !.received = <<>>]

AddrMapWithout(D) == {e \in addrMap : e.slot \notin D}

\* The listener is not told.
IdsWithout_Bug(D) == ids

IdsWithout(D) == {e \in ids : e.id \notin {slots[s].id : s \in D}}

NetWithout(D, n) == [k \in Conn |-> IF \E s \in D : slots[s].conn = k
                                    THEN CloseServer(n[k]) ELSE n[k]]

\* The slot the loop of _UpdateClients() goes to after those below s.
NextUsed(used, s) == LET later == {t \in used : t >= s}
                  IN  IF later = {} THEN NoId ELSE Min(later)

GoTo(used, s) ==
    /\ turn' = IF NextUsed(used, s) = NoId THEN "user" ELSE "clients"
    /\ at' = IF NextUsed(used, s) = NoId THEN 0 ELSE NextUsed(used, s)

\* The begin of TcpServerChannel::ProcessMessages(): who did not get all of the
\* last frame is disconnected.
ServerFrame ==
    /\ turn = "user"
    /\ \E ms \in Made(Server), newFrame \in BOOLEAN :
        LET q == pending[Server] \o ms
            D == IF newFrame THEN {s \in Used : slots[s].last # 0} ELSE {}
        IN  /\ Produce(Server, ms, newFrame)
            /\ slots' = [s \in Slot |->
                 CASE s \in D                     -> Disconnected(slots[s])
                   [] newFrame /\ s \in Used \ D -> [slots[s] EXCEPT !.last = Begin(q)]
                   [] OTHER                       -> slots[s]]
            /\ addrMap' = AddrMapWithout(D)
            /\ ids' = IdsWithout(D)
            /\ net' = NetWithout(D, net)
            /\ Remember([k \in Conn |->
                 IF newFrame /\ \E s \in Used : slots[s].conn = k
                 THEN [flow[k] EXCEPT !.down.due = @ \o Numbers(Addressed(q,
                         slots[CHOOSE s \in Used : slots[s].conn = k].id))]
                 ELSE flow[k]])
    /\ turn' = "accept"
    /\ at' = 0
    /\ UNCHANGED <<client, stray, counter, opened, mixed>>

\* OnClientConnected(): a known address keeps its id, without its port.
KnownIds(c) == {e.id : e \in {f \in ids : f.addr = c}}

NewId == Min({i \in counter..(counter + Cardinality(ids)) :
                \A e \in ids : e.id # i})

Full == Cardinality(ids) >= MaxClients

\* Iteration `at' of _CheckNewConnections(): the pool may be full, and the
\* listener may refuse the client, whose address may be on the black list; then
\* the new socket is closed.
Accept(k) ==
    LET c    == net[k].owner
        free == Slot \ Used
        id   == IF KnownIds(c) # {} THEN Min(KnownIds(c)) ELSE NewId
        s    == Min(free)
        q    == queue[Server]
    IN  /\ turn = "accept"
        /\ at < MaxClients
        /\ net[k].client # "none"
        /\ net[k].server = "none"
        /\ \/ /\ free = {}
              /\ net' = [net EXCEPT ![k] = CloseServer(@)]
              /\ GoTo(Used, 0)
              /\ UNCHANGED <<slots, addrMap, ids, counter, flow, mixed>>
           \/ /\ free # {}
              /\ net' = [net EXCEPT ![k] = CloseServer(@)]
              /\ at' = at + 1
              /\ UNCHANGED <<slots, addrMap, turn, ids, counter, flow, mixed>>
           \/ /\ free # {}
              /\ KnownIds(c) # {} \/ ~Full
              /\ slots' = [slots EXCEPT ![s].used = TRUE, ![s].id = id,
                                        ![s].conn = k, ![s].last = Begin(q)]
              /\ addrMap' = addrMap \union {[conn |-> k, slot |-> s]}
              /\ ids' = ids \union {[id |-> id, addr |-> c]}
              /\ counter' = IF KnownIds(c) = {} THEN id ELSE counter
              /\ net' = [net EXCEPT ![k].server = "open"]
              /\ flow' = [flow EXCEPT ![k].down.due = Numbers(Addressed(q, id))]
              /\ mixed' = IF slots[s].encoded = <<>> THEN mixed
                          ELSE mixed \union {<<k, "down">>}
              /\ at' = at + 1
              /\ UNCHANGED turn
    /\ UNCHANGED <<pending, queue, made, client, stray, opened>>

\* Accept() of the socket has no more connections, or enough are accepted, and
\* there is no client.
Accepted ==
    /\ turn = "accept"
    /\ Used = {}
    /\ GoTo(Used, 0)
    /\ UNCHANGED <<pending, queue, made, client, slots, addrMap, stray, ids,
                   counter, opened, net, flow, mixed>>

\* The work of _UpdateClients() on slot s.  The parts that are left in the
\* buffer go to the slot, so that the next client finds the buffer empty, but
\* not when they are so many that the client is disconnected.
UpdateClient(s) ==
    LET slot  == slots[s]
        k     == slot.conn
        q     == queue[Server]
        known == IF slot.received # <<>> THEN slot.received ELSE stray
    IN  /\ \/ turn = "accept" /\ NextUsed(Used, 0) = s
           \/ turn = "clients" /\ at = s
        /\ \E r \in Receiving(known, net[k].up) :
            LET left     == Remaining(known, net[k].up, r)
                overflow == Len(left) > MaxMsgSize
                failed   == r.failed \/ overflow
                got      == Decoded(known, net[k].up, r)
                n        == [net EXCEPT ![k].up = Drop(@, r.taken)]
                flowIn   == [flow EXCEPT ![k].up.got = @ \o got]
                received == IF overflow THEN <<>> ELSE left
            IN  /\ stray' = IF overflow THEN left ELSE <<>>
                /\ mixed' = IF slot.received = <<>> /\ stray # <<>>
                            THEN mixed \union {<<k, "up">>} ELSE mixed
                /\ \/ /\ failed
                      /\ slots' = [slots EXCEPT ![s] = Disconnected(@)]
                      /\ addrMap' = AddrMapWithout({s})
                      /\ ids' = IdsWithout({s})
                      /\ net' = NetWithout({s}, n)
                      /\ Remember(flowIn)
                      /\ GoTo(Used, s + 1)
                   \/ /\ ~failed
                      /\ \E o \in Sending(slot.encoded, k, q, slot.last, slot.id,
                                          Room(net[k].down), FALSE) :
                          LET next == [slot EXCEPT
                                         !.received = received,
                                         !.last = LastSentAfter(@, o),
                                         !.encoded = EncodedAfter(@, k, q, slot.last, o)]
                              out  == Sent(slot.encoded, k, q, slot.last, o)
                              m    == [n EXCEPT ![k].down =
                                         IF net[k].client = "closed" THEN <<>>
                                         ELSE @ \o out]
                              D    == IF o.how = "error" THEN {s} ELSE {}
                          IN  /\ slots' = [slots EXCEPT ![s] =
                                   IF D = {} THEN next ELSE Disconnected(next)]
                              /\ addrMap' = AddrMapWithout(D)
                              /\ ids' = IdsWithout(D)
                              /\ net' = NetWithout(D, m)
                              /\ Remember([flowIn EXCEPT ![k].down.put =
                                   @ \o Put(q, slot.last, o)])
                              /\ IF o.how = "spin"
                                 THEN turn' = "spin" /\ at' = s
                                 ELSE GoTo(Used, s + 1)
        /\ UNCHANGED <<pending, queue, made, client, counter, opened>>

\* DisconnectClient( id ) and DisconnectClientsWithIncompleteMsgQueue(), between
\* two calls of Update().
ServerDisconnect(D) ==
    /\ turn = "user"
    /\ slots' = [s \in Slot |-> IF s \in D THEN Disconnected(slots[s]) ELSE slots[s]]
    /\ addrMap' = AddrMapWithout(D)
    /\ ids' = IdsWithout(D)
    /\ net' = NetWithout(D, net)
    /\ Remember(flow)
    /\ UNCHANGED <<pending, queue, made, client, stray, turn, at, counter, opened,
                   mixed>>

DisconnectClient(id) ==
    LET found == {s \in Used : slots[s].id = id}
    IN  found # {} /\ ServerDisconnect({Min(found)})

DisconnectClientsWithIncompleteMsgQueue ==
    LET incomplete == {s \in Used : slots[s].last # 0}
    IN  incomplete # {} /\ ServerDisconnect(incomplete)

-----------------------------------------------------------------------------
ClientNext(c) == \/ ClientBroken(c)
                 \/ ClientWait(c)
                 \/ ClientRetry(c)
                 \/ ClientExchange(c)

ServerNext == \/ ServerFrame
              \/ \E k \in Conn : Accept(k)
              \/ Accepted
              \/ \E s \in Slot : UpdateClient(s)

User == \/ \E s \in Used : DisconnectClient(slots[s].id)
        \/ DisconnectClientsWithIncompleteMsgQueue

Next == \/ \E c \in Client : ClientNext(c)
        \/ ServerNext
        \/ User

Spec == Init /\ [][Next]_vars

\* The thread of the server goes on.
FairSpec == Spec /\ WF_vars(ServerNext)

-----------------------------------------------------------------------------
\* Up to the first foreign part, a connection delivers what was put on it: the
\* receiver decodes the messages that were encoded for this connection, each
\* once and in their order, however sends and receives cut them into pieces
\* (_SendMessages(), _ReceiveMessages(), client.received, client.encoded).
StreamInOrder ==
    \A k \in Conn :
        /\ <<k, "up">> \notin mixed =>
              LET f == flow[k].up
              IN  IsPrefix(f.got, [j \in DOMAIN f.put |-> <<k, f.put[j]>>])
        /\ <<k, "down">> \notin mixed =>
              LET f == flow[k].down
              IN  IsPrefix(f.got, [j \in DOMAIN f.put |-> <<k, f.put[j]>>])

\* TcpChannel.h, "Reliability": while a connection lives, no message of a frame
\* is left out of its stream.  What is encoded and what the channel will go on
\* with is all that was handed to it since the connection began.
NothingSkipped ==
    /\ \A s \in Used :
         LET k == slots[s].conn
         IN  turn # "spin" =>
               flow[k].down.put \o Numbers(Addressed(Rest(queue[Server], slots[s].last),
                                                     slots[s].id))
                 = flow[k].down.due
    /\ \A c \in Client :
         LET k == client[c].conn
         IN  k # NoConn =>
               flow[k].up.put \o Numbers(Rest(queue[c], client[c].last))
                 = flow[k].up.due

\* The pool, the map of addresses and the listener agree: a used slot has one
\* address, a free one none, and the listener knows no id without a slot.
SlotsAgree ==
    /\ \A s \in Slot : slots[s].used =>
          addrMap \intersect [conn : Conn, slot : {s}]
             = {[conn |-> slots[s].conn, slot |-> s]}
    /\ \A e \in addrMap : slots[e.slot].used
    /\ \A e \in ids : \E s \in Used : slots[s].id = e.id

\* TcpChannel.h, "Reliability": "All messages must be encoded in
\* 'ProcessMessages()'".  A call of the server that has begun returns.
UpdateReturns == turn # "user" ~> turn = "user"
=============================================================================
