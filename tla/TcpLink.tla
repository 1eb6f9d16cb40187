------------------------------ MODULE TcpLink ------------------------------
(***************************************************************************)
(* Packets over TCP: LinkCommon (transport/tcplinkcommon.hpp, tcplink.hpp) *)
(* with its PacketStream (transport/pktstream.hpp), between two peers, and *)
(* the session's use of it (tun_recv() in client/cliproto.hpp).            *)
(*                                                                         *)
(* A packet is sent with its size before it.  The sender keeps a queue and *)
(* one asynchronous send under way, which may take any part of the front;  *)
(* the receiver reads any part of the stream and has to find the packets   *)
(* in it, wherever the reads happen to cut, be it within a size.           *)
(*                                                                         *)
(* Bytes are digits and a size has two of them.  Abstracted: the recycling *)
(* of buffers, statistics, raw mode (HTTP proxies), transport mutation,    *)
(* and connecting.  Assumed: packets are not empty and fit a buffer.       *)
(* The wrong versions before some definitions are used by nothing: they    *)
(* are mistakes the properties have been shown to catch.                   *)
(***************************************************************************)
EXTENDS Integers, SequencesExt

CONSTANTS
    Client, Server,
    Base,       \* bytes are 0 .. Base - 1
    MaxSize,    \* Frame::Context::payload()
    Packet,     \* what may be sent; the first byte tells control from data
    QueueLimit, \* tcp_queue_limit
    MaxPackets  \* bound: packets that each peer sends

Peer == {Client, Server}
Byte == 0 .. Base - 1

ASSUME PeerAssumption == Client # Server
ASSUME SizeAssumption == Base \in Nat \ {0, 1} /\ MaxSize \in 1 .. Base * Base - 1
ASSUME PacketAssumption == Packet \subseteq UNION {[1 .. k -> Byte] : k \in 1 .. MaxSize}
ASSUME BoundAssumption == QueueLimit \in Nat /\ MaxPackets \in [Peer -> Nat]

VARIABLES
    link,      \* each peer's LinkCommon
    wire,      \* bytes under way from each peer
    accepted,  \* packets that each peer's send() took
    delivered  \* packets that each peer's tcp_read_handler() was given

vars == <<link, wire, accepted, delivered>>

\* A packet in the queue, data or not, and what is left of its bytes; the
\* PacketStream's declared size, 0 when undefined, and buffer; why it stopped.
Queued == [data : BOOLEAN, bytes : Seq(Byte)]
Link ==
    [queue : Seq(Queued), sending : BOOLEAN, reading : BOOLEAN,
     declared : 0 .. MaxSize, buffer : Seq(Byte), halt : BOOLEAN, sizeError : BOOLEAN]

Other(p) == IF p = Client THEN Server ELSE Client
IsData(packet) == packet[1] = 1

Init ==
    /\ link = [p \in Peer |->
                 [queue |-> <<>>, sending |-> FALSE, reading |-> TRUE, declared |-> 0,
                  buffer |-> <<>>, halt |-> FALSE, sizeError |-> FALSE]]
    /\ wire = [p \in Peer |-> <<>>]
    /\ accepted = [p \in Peer |-> <<>>]
    /\ delivered = [p \in Peer |-> <<>>]

-----------------------------------------------------------------------------
(* The sender.                                                             *)

Take(bytes, n) == SubSeq(bytes, 1, IF n < Len(bytes) THEN n ELSE Len(bytes))
Drop(bytes, n) == SubSeq(bytes, n + 1, Len(bytes))

SizeBytes(size) == <<size \div Base, size % Base>>
PrependSize(packet) == SizeBytes(Len(packet)) \o packet

\* queue_send_buffer(): starts a send unless one is under way.
QueueSendBuffer(l, entry) ==
    LET queue == Append(l.queue, entry)
    IN  [l EXCEPT !.queue = queue, !.sending = @ \/ Len(queue) = 1]

RoomUnchecked(l, packet) == TRUE
\* tun_recv() drops data while the queue is over the limit; control packets pass.
Room(l, packet) == IsData(packet) => Len(l.queue) <= QueueLimit

Send(p, packet) ==
    /\ ~link[p].halt /\ Room(link[p], packet)
    /\ Len(accepted[p]) < MaxPackets[p]
    /\ link' = [link EXCEPT ![p] = QueueSendBuffer(@,
                    [data |-> IsData(packet), bytes |-> PrependSize(packet)])]
    /\ accepted' = [accepted EXCEPT ![p] = Append(@, packet)]
    /\ UNCHANGED <<wire, delivered>>

\* handle_send(): the front is gone, or shorter.
AfterSendStalls(l, n) ==
    LET rest == Drop(Head(l.queue).bytes, n)
        queue == IF rest = <<>> THEN Tail(l.queue) ELSE [l.queue EXCEPT ![1].bytes = rest]
    IN  [l EXCEPT !.queue = queue, !.sending = rest = <<>> /\ queue # <<>>]
AfterSendWhole(l, n) ==
    LET queue == Tail(l.queue)
    IN  [l EXCEPT !.queue = queue, !.sending = queue # <<>>]
AfterSend(l, n) ==
    LET rest == Drop(Head(l.queue).bytes, n)
        queue == IF rest = <<>> THEN Tail(l.queue) ELSE [l.queue EXCEPT ![1].bytes = rest]
    IN  [l EXCEPT !.queue = queue, !.sending = queue # <<>>]

HandleSend(p, n) ==
    /\ link[p].sending /\ ~link[p].halt
    /\ n <= Len(Head(link[p].queue).bytes)
    /\ wire' = [wire EXCEPT ![p] = @ \o Take(Head(link[p].queue).bytes, n)]
    /\ link' = [link EXCEPT ![p] = AfterSend(@, n)]
    /\ UNCHANGED <<accepted, delivered>>

-----------------------------------------------------------------------------
(* The receiver.  A Stream is a PacketStream, the bytes being read, what   *)
(* was found in them, and whether they made sense.                         *)

Stream == [declared : 0 .. MaxSize, buffer : Seq(Byte), read : Seq(Byte),
           found : Seq(Seq(Byte)), error : BOOLEAN]

Size(bytes) == bytes[1] * Base + bytes[2]
Valid(size) == size \in 1 .. MaxSize

ExtractSize(st, bytes) ==
    IF Valid(Size(bytes)) THEN [st EXCEPT !.declared = Size(bytes)]
    ELSE [st EXCEPT !.error = TRUE]

\* Moves what is needed and there from what is being read to the buffer.
Fill(st) ==
    LET needed == st.declared - Len(st.buffer)
    IN  IF st.error THEN st
        ELSE [st EXCEPT !.buffer = @ \o Take(st.read, needed), !.read = Drop(@, needed)]

PutFragmentLost(st) ==
    LET sizeBytes == Take(st.read, 2)
    IN  CASE st.declared > 0 -> Fill(st)
          [] st.declared = 0 /\ Len(sizeBytes) = 2 ->
               Fill(ExtractSize([st EXCEPT !.read = Drop(@, 2), !.buffer = <<>>], sizeBytes))
          [] OTHER -> [st EXCEPT !.buffer = sizeBytes, !.read = <<>>]
\* put(): a fragment without a whole size waits in the buffer for the rest of it.
Put(st) ==
    LET sizeBytes == Take(st.buffer \o st.read, 2)
        taken == 2 - Len(st.buffer)
    IN  CASE st.declared > 0 -> Fill(st)
          [] st.declared = 0 /\ Len(sizeBytes) = 2 ->
               Fill(ExtractSize([st EXCEPT !.read = Drop(@, taken), !.buffer = <<>>], sizeBytes))
          [] OTHER -> [st EXCEPT !.buffer = sizeBytes, !.read = <<>>]

\* ready() and get()
Get(st) ==
    IF st.declared > 0 /\ Len(st.buffer) = st.declared
    THEN [st EXCEPT !.found = Append(@, st.buffer), !.buffer = <<>>, !.declared = 0]
    ELSE st

\* put_pktstream(): until all that was read is used, of which each pass uses a
\* byte or more.
Pass[st \in Stream] == IF st.read = <<>> \/ st.error THEN st ELSE Get(Put(st))

PutPktstream(st) ==
    LET after[n \in 0 .. Len(st.read)] == IF n = 0 THEN st ELSE Pass[after[n - 1]]
    IN  after[Len(st.read)]

\* handle_recv(): a handler that stops the session does not stop the loop, which
\* hands over the rest of what was read; the read is not queued again.
AfterRecv(l, st, stops) ==
    LET halt == st.error \/ (stops /\ st.found # <<>>)
    IN  [l EXCEPT !.declared = st.declared, !.buffer = st.buffer,
                  !.halt = halt, !.reading = ~halt, !.sizeError = st.error]

HandleRecv(p, n, stops) ==
    /\ link[p].reading /\ ~link[p].halt
    /\ n <= Len(wire[Other(p)])
    /\ \E st \in {PutPktstream([declared |-> link[p].declared, buffer |-> link[p].buffer,
                                read |-> Take(wire[Other(p)], n),
                                found |-> <<>>, error |-> FALSE])} :
          /\ link' = [link EXCEPT ![p] = AfterRecv(@, st, stops)]
          /\ delivered' = [delivered EXCEPT ![p] = @ \o st.found]
    /\ wire' = [wire EXCEPT ![Other(p)] = Drop(@, n)]
    /\ UNCHANGED accepted

-----------------------------------------------------------------------------
\* The session, or an error of the socket or the peer's end of the connection,
\* stops the link.
Stop(p) ==
    /\ ~link[p].halt
    /\ link' = [link EXCEPT ![p].halt = TRUE, ![p].reading = FALSE]
    /\ UNCHANGED <<wire, accepted, delivered>>

Next ==
    \E p \in Peer :
      \/ \E packet \in Packet : Send(p, packet)
      \/ \E n \in 1 .. MaxSize + 2 : HandleSend(p, n)
      \/ \E n \in 1 .. Len(wire[Other(p)]), stops \in BOOLEAN : HandleRecv(p, n, stops)
      \/ Stop(p)

\* The system completes the operations that the links have started.
Fairness ==
    \A p \in Peer :
      /\ WF_vars(\E n \in 1 .. MaxSize + 2 : HandleSend(p, n))
      /\ WF_vars(\E n \in 1 .. Len(wire[Other(p)]), stops \in BOOLEAN : HandleRecv(p, n, stops))

Spec == Init /\ [][Next]_vars /\ Fairness

-----------------------------------------------------------------------------
(* Properties                                                              *)

\* Every variable keeps its type.
TypeOK ==
    /\ link \in [Peer -> Link]
    /\ wire \in [Peer -> Seq(Byte)]
    /\ accepted \in [Peer -> Seq(Packet)] /\ delivered \in [Peer -> Seq(Packet)]

\* Whatever the sends and the reads cut in two, packets pass in order, whole and
\* exactly once, until an end stops.
Pipe ==
    INSTANCE PacketPipe WITH stopped <- [p \in Peer |-> link[p].halt]
PipeSpec == Pipe!Spec

Framed(packets) == FlattenSeq([i \in DOMAIN packets |-> PrependSize(packets[i])])
Unsent(l) == FlattenSeq([i \in DOMAIN l.queue |-> l.queue[i].bytes])
SizeRead(l) == IF l.declared = 0 THEN <<>> ELSE SizeBytes(l.declared)

\* What is not yet delivered of the packets taken is in the receiver's buffer, on
\* the wire and in the queue, in this order and nowhere else; a queue that is
\* not empty has exactly one send under way; and no size is ever misread.
Conserved ==
    \A p \in Peer :
      LET q == Other(p)
      IN  /\ ~link[p].sizeError
          /\ ~link[p].halt /\ ~link[q].halt =>
            /\ SizeRead(link[q]) \o link[q].buffer \o wire[p] \o Unsent(link[p])
                 = Framed(Drop(accepted[p], Len(delivered[q])))
            /\ link[p].sending <=> link[p].queue # <<>>

\* The invariant behind these: of a packet's size or of the packet, a part waits in
\* the buffer, never all of it; what one end was given is a beginning of what the
\* other took, and what is on its way is the rest, also after an end has stopped;
\* and no data comes late in a queue.
Waiting(l) == Len(l.buffer) < IF l.declared = 0 THEN 2 ELSE l.declared
Framing ==
    /\ TypeOK
    /\ \A p \in Peer :
         LET q == Other(p)
             n == Len(delivered[q])
         IN  /\ ~link[p].sizeError
             /\ link[p].sending <=> link[p].queue # <<>>
             /\ Waiting(link[p])
             /\ \A i \in DOMAIN link[p].queue : link[p].queue[i].data => i <= QueueLimit + 1
             /\ n <= Len(accepted[p])
             /\ delivered[q] = SubSeq(accepted[p], 1, n)
             /\ SizeRead(link[q]) \o link[q].buffer \o wire[p] \o Unsent(link[p])
                  = Framed(Drop(accepted[p], n))

\* However control packets come between, a peer that sends data faster than the
\* network takes it has a bounded amount of it in the queue.  Data is what the tun
\* hands on; keepalive packets, which tun_recv() does not see, count as control ones.
DataBounded ==
    \A p \in Peer :
      Cardinality({i \in DOMAIN link[p].queue : link[p].queue[i].data}) <= QueueLimit + 1

\* Every packet taken is delivered, unless an end stops.
Drained ==
    \A p \in Peer : \A k \in 1 .. MaxPackets[p] :
      Len(accepted[p]) >= k ~> \/ Len(delivered[Other(p)]) >= k
                               \/ link[p].halt \/ link[Other(p)].halt

=============================================================================
