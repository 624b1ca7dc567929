------------------------------ MODULE TcpStream ------------------------------
(***************************************************************************)
(* Messages and bytes of a TCP channel (networking/HighLevel/TcpChannel):  *)
(* what one call of _SendMessages() and of _ReceiveMessages() may do to    *)
(* the two ends of a stream.                                               *)
(*                                                                         *)
(* A stream is a sequence of parts.  A message is HeaderSize parts of      *)
(* _MsgHeader and BodySize parts that Serialize() wrote; the index of a    *)
(* part tells whether a reader that takes it for the begin of a message    *)
(* finds the magic number there.  Calls of the socket are of a library:    *)
(* they move any number of parts or fail, at any time.                     *)
(***************************************************************************)
EXTENDS Integers, Sequences

CONSTANTS
    HeaderSize,     \* parts in _MsgHeader
    BodySize,       \* parts in an encoded message
    MaxMsgSize,     \* _maxMsgSize
    StorageSize     \* ChannelStorageSize, of the encoded and of the received parts

ASSUME StreamAssumption == /\ HeaderSize \in Nat \ {0}
                           /\ BodySize \in Nat
                           /\ MaxMsgSize \in Nat
                           /\ BodySize <= MaxMsgSize
                           /\ StorageSize \in Nat
                           /\ StorageSize > 4 * MaxMsgSize

MsgSize == HeaderSize + BodySize

\* A message is addressed to all clients or to one; Default in the code.
AnyClient == -1

\* The part with index i of the message n that was encoded for connection k.
Part(k, n, i) == [conn |-> k, n |-> n, i |-> i]

\* The elements of s whose index is in I, in their order.
Chosen(s, I) ==
    LET upTo[j \in 0..Len(s)] ==
            IF j = 0 THEN <<>>
            ELSE upTo[j - 1] \o (IF j \in I THEN <<s[j]>> ELSE <<>>)
    IN  upTo[Len(s)]

\* Messages that Serialize() can not write are skipped.
Fitting(ms) == Chosen(ms, {j \in 1..Len(ms) : ms[j].fits})

Numbers(ms) == [j \in 1..Len(Fitting(ms)) |-> Fitting(ms)[j].n]

\* The parts that the messages ms become in the stream of connection k.
Encoded(k, ms) ==
    [p \in 1..(Len(Fitting(ms)) * MsgSize) |->
        Part(k, Fitting(ms)[((p - 1) \div MsgSize) + 1].n,
             ((p - 1) % MsgSize) + 1)]

\* Every message in the buffer has its magic number: _ValidateMsgStream().
ValidateMsgStream(buf) ==
    \A p \in 1..Len(buf) : buf[p].i = ((p - 1) % MsgSize) + 1

Drop(s, n) == SubSeq(s, n + 1, Len(s))

Take(s, n) == SubSeq(s, 1, n)

-----------------------------------------------------------------------------
(***************************************************************************)
(* _ReceiveMessages(): up to four times parts are taken from the socket    *)
(* and whole messages are taken from the buffer.  The memory may run out   *)
(* or a message be unknown: that message is gone, and those behind it      *)
(* wait for a call in which more parts come.  No message is taken from a   *)
(* buffer when nothing came.                                               *)
(***************************************************************************)

\* All that a call may do with the parts of earlier calls and those of the
\* socket: how many parts it takes, how many messages it decodes, and whether
\* the socket fails.
Receiving(received, incoming) ==
    {r \in [taken : 0..Len(incoming), decoded : 0..(Len(received) + Len(incoming)),
            failed : BOOLEAN] :
        LET buf   == received \o Take(incoming, r.taken)
            whole == Len(buf) \div MsgSize
        IN  IF r.taken = 0 \/ whole = 0 \/ ~ValidateMsgStream(buf)
            THEN r.decoded = 0
            ELSE r.decoded \in 1..whole}

Buffer(received, incoming, r) == received \o Take(incoming, r.taken)

\* What is decoded stays.
Remaining_Bug(received, incoming, r) == Buffer(received, incoming, r)

\* The parts that are not decoded.
Remaining(received, incoming, r) ==
    Drop(Buffer(received, incoming, r), r.decoded * MsgSize)

\* The decoded messages, in their order, with the connection they were
\* encoded for.
Decoded(received, incoming, r) ==
    LET buf == Buffer(received, incoming, r)
    IN  [j \in 1..r.decoded |-> <<buf[(j - 1) * MsgSize + 1].conn,
                                  buf[(j - 1) * MsgSize + 1].n>>]

-----------------------------------------------------------------------------
(***************************************************************************)
(* _SendMessages(): messages from lastSendMsg on are encoded behind the    *)
(* parts that are not sent yet.  When the storage is almost full SendData  *)
(* sends some; if that was not enough the call ends and the next one goes  *)
(* on with the message.  At the end SendData is called once more.          *)
(***************************************************************************)

NeedsSending(parts) == Len(parts) + 4 * MaxMsgSize >= StorageSize

NotEnoughMemory(parts) == Len(parts) + 2 * MaxMsgSize >= StorageSize

\* Messages from lastSendMsg on; 0 is Default, the end of the queue.
Rest(queue, last) == IF last = 0 THEN <<>> ELSE Drop(queue, last - 1)

Foreign(m, id) == ~(m.to = id \/ m.to = AnyClient \/ id = AnyClient)

\* The storage when m messages are encoded and nothing is sent.
Storage(encoded, k, rest, m) == encoded \o Encoded(k, Take(rest, m))

\* The sends before message m + 1 of the call left room for it.
HadRoom(encoded, k, rest, m, sent) ==
    LET parts == Storage(encoded, k, rest, m)
    IN  ~NotEnoughMemory(Drop(parts, IF sent < Len(parts) THEN sent
                                                          ELSE Len(parts)))

\* How a call may end once m messages are encoded.  "done": all is encoded, the
\* storage may still have parts.  "full": no room for the next message.
\* "error": the socket failed in a SendData, which leaves its parts in the
\* storage.  "spin": the next message is for another client, `continue' does not
\* step to the one behind it, and the loop never ends.
Ends(encoded, k, rest, id, room, m) ==
    LET parts   == Storage(encoded, k, rest, m)
        more    == m < Len(rest)
        foreign == more /\ Foreign(rest[m + 1], id)
        amounts == {n \in 0..Len(parts) :
                      n <= room /\ (m > 0 => HadRoom(encoded, k, rest, m - 1, n))}
        End(how, sent, moved) ==
            [how |-> how, m |-> m, sent |-> sent, moved |-> moved]
    IN  UNION {
          {End("done", n, n) : n \in {a \in amounts : ~more}},
          {End("full", n, n) : n \in {a \in amounts :
                more /\ ~foreign /\ NotEnoughMemory(Drop(parts, a))}},
          {End("error", a[1], a[2]) : a \in {b \in amounts \X amounts :
                /\ b[2] <= b[1]
                /\ more => /\ ~foreign
                           /\ \/ NeedsSending(Drop(parts, b[2]))
                              \/ ~rest[m + 1].fits}},
          {End("spin", n, n) : n \in {a \in amounts :
                /\ foreign
                /\ a > 0 => \E j \in 1..m :
                      \/ NeedsSending(Storage(encoded, k, rest, j - 1))
                      \/ ~rest[j].fits}}}

\* All that a call may do.  Nothing happens when the queue is empty, not even
\* the parts of earlier messages are sent.  After a failed receive no message is
\* encoded, but parts may be sent.
Sending(encoded, k, queue, last, id, room, failed) ==
    LET rest == Rest(queue, last)
    IN  IF queue = <<>> \/ failed
        THEN {[how |-> IF failed THEN "error" ELSE "done",
               m |-> 0, sent |-> n, moved |-> n] :
                n \in {a \in 0..Len(encoded) : a <= room /\ (queue = <<>> => a = 0)}}
        ELSE UNION {Ends(encoded, k, rest, id, room, m) :
                      m \in {j \in 0..Len(rest) :
                               \A i \in 1..j : ~Foreign(rest[i], id)}}

\* _toSend.encoded when the call ends, and lastSendMsg.
EncodedAfter(encoded, k, queue, last, o) ==
    Drop(Storage(encoded, k, Rest(queue, last), o.m), o.moved)

\* The end of the queue, although there was no room.
LastSentAfter_Bug(last, o) == IF o.how = "spin" THEN last ELSE 0

LastSentAfter(last, o) == CASE o.how = "full" -> last + o.m
                            [] o.how = "spin" -> last
                            [] OTHER          -> 0

Sent(encoded, k, queue, last, o) ==
    Take(Storage(encoded, k, Rest(queue, last), o.m), o.sent)

\* The numbers of the messages that are encoded in the call.
Put(queue, last, o) == Numbers(Take(Rest(queue, last), o.m))
=============================================================================
