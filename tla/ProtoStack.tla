----------------------------- MODULE ProtoStack -----------------------------
(***************************************************************************)
(* The control-channel stack of OpenVPN3: ProtoStackBase over its send     *)
(* window (ReliableSend), its receive window (ReliableRecv), its queue of  *)
(* acknowledgements (ReliableAck) and the tls-auth/tls-crypt packet-ID     *)
(* check that guards every control packet.  Two peers exchange packets     *)
(* over a datagram network that loses, duplicates and reorders them.       *)
(*                                                                         *)
(* There is one action for each operation of ProtoStackBase; its parent    *)
(* may call them in any order, as the comment on flush() allows ("after    *)
(* one or more net_recv, app_send, raw_send, or start_handshake calls").   *)
(*                                                                         *)
(* Abstracted: payload bytes, encryption and HMAC (a packet that fails     *)
(* them never reaches decapsulate_post_process), retransmission times (any *)
(* set of held messages may be due), session IDs, and the TLS engine, of   *)
(* which only the order of its ciphertext packets is kept.                 *)
(*                                                                         *)
(* Just before some definitions stand wrong versions of them (RoomByCount, *)
(* AcksUpTo, RecvOutsideAckNone, ...).  Nothing uses them: they are        *)
(* mistakes the properties below have been shown to catch.                 *)
(***************************************************************************)
EXTENDS Integers, Sequences, FiniteSets

CONSTANTS
    Client, Server,  \* the two peers
    Payload,         \* what a message may carry
    Span,            \* config->reliable_window
    MaxAckList,      \* config->max_ack_list
    PacketIds,       \* TRUE: tls-auth or tls-crypt; FALSE: plain TLS
    Lossy,           \* FALSE: packets may be late for ever, but are kept
    Fallible,        \* the peers whose stack may be invalidated
    MaxSilence,      \* how often each peer hears nothing for 30 s
    MaxQueued,       \* bound: messages each peer hands to the stack
    MaxPending,      \* bound: length of an acknowledgement queue
    MaxPid           \* bound: packet IDs each peer draws

Peer == {Client, Server}

ASSUME PeerAssumption  == Client # Server
ASSUME SpanAssumption  == Span \in Nat \ {0}
ASSUME AckAssumption   == MaxAckList \in Nat \ {0}
ASSUME ModeAssumption  == PacketIds \in BOOLEAN
ASSUME FaultAssumption == Lossy \in BOOLEAN /\ Fallible \subseteq Peer
ASSUME BoundAssumption == /\ MaxSilence \in [Peer -> Nat]
                          /\ MaxPending \in Nat
                          /\ MaxPid \in Nat
                          /\ MaxQueued \in [Peer -> Nat]

VARIABLES
    started,     \* ssl_started_
    invalidated, \* invalidated_
    rawQueue,    \* raw_write_queue
    sslQueue,    \* app_write_queue and the ciphertext the TLS engine made of it
    sendHead,    \* rel_send.window_.head_id_
    sendNext,    \* rel_send.next
    held,        \* rel_send: the encapsulated packets of its defined slots
    erased,      \* rel_send: slots behind the head whose erased_ is set
    recvHead,    \* rel_recv.window_.head_id_
    recvSlots,   \* rel_recv: the messages of its defined slots, by id
    xmitAcks,    \* xmit_acks
    pidSent,     \* ta_pid_send.pid_.id
    pidSeen,     \* ta_pid_recv: the IDs its history marks
    pidHigh,     \* ta_pid_recv.id_high
    pidFloor,    \* ta_pid_recv.id_floor
    net,         \* packets in flight
    sent,        \* history: the messages given a sequence number, in order
    delivered,   \* history: the messages passed up, in order
    silences     \* history: how often pidFloor was raised

sendVars == <<rawQueue, sslQueue, sendHead, sendNext, held, erased, sent>>
recvVars == <<started, recvHead, recvSlots, delivered>>
pidVars  == <<pidSeen, pidHigh, pidFloor, silences>>
vars     == <<sendVars, recvVars, pidVars, invalidated, xmitAcks, pidSent, net>>

-----------------------------------------------------------------------------

Other(p) == IF p = Client THEN Server ELSE Client

Message == [raw : BOOLEAN, data : Payload]

\* A control packet carries a message; a standalone ACK (ack = TRUE) none.
Packet == [src : Peer, ack : {FALSE}, id : Nat, msg : Message,
           acks : Seq(Nat), pid : Nat]
          \cup [src : Peer, ack : {TRUE}, acks : Seq(Nat), pid : Nat]

Least(a, b) == IF a <= b THEN a ELSE b

AcksUpTo(p) == UNION {0 .. p.acks[i] : i \in 1 .. Len(p.acks)}
AcksOf(p) == {p.acks[i] : i \in 1 .. Len(p.acks)}

\* Chunk n of an acknowledgement queue: what the n-th prepend() takes of it.
Chunk(q, n) == SubSeq(q, (n - 1) * MaxAckList + 1, Least(n * MaxAckList, Len(q)))

\* How many packets it takes to carry the queue q.
Chunks(q) == (Len(q) + MaxAckList - 1) \div MaxAckList

InRecvWindow(e, id) == recvHead[e] <= id /\ id < recvHead[e] + Span

PidOkInOrder(e, p) == PacketIds => p.pid > pidHigh[e]

\* test_add(pid, t, FALSE), for IDs fewer than 2048 apart.
PidOk(e, p) == PacketIds => p.pid > pidFloor[e] /\ p.pid \notin pidSeen[e]

\* The receiver has the message with this id, delivered or waiting in a slot.
Got(e, id) == id < recvHead[e] \/ id \in DOMAIN recvSlots[e]

-----------------------------------------------------------------------------
(***************************************************************************)
(* Steps shared by several handlers.                                       *)
(***************************************************************************)

\* up_sequenced(): pass up every message next in sequence.  A ciphertext
\* message waits in its slot, acknowledged, until the handshake has started.
UpSequenced(e, slots, ssl) ==
    LET head == recvHead[e]
        Ready(i) == i \in DOMAIN slots /\ (slots[i].raw \/ ssl)
    IN  \E next \in head .. head + Span :
          /\ \A i \in head .. next - 1 : Ready(i)
          /\ ~Ready(next)
          /\ recvHead' = [recvHead EXCEPT ![e] = next]
          /\ recvSlots' = [recvSlots EXCEPT ![e] =
                             [i \in DOMAIN slots \ (head .. next - 1) |-> slots[i]]]
          /\ delivered' = [delivered EXCEPT ![e] =
                             @ \o [i \in 1 .. next - head |-> slots[head + i - 1]]]

\* ReliableAck::ack() and MessageWindow::rm_by_id(): erase the acknowledged
\* slots and move the head past every erased one.
Acknowledge(e, ids) ==
    LET head == sendHead[e]
        gone == erased[e] \cup {i \in ids : head <= i /\ i < head + Span}
    IN  \E next \in head .. head + Span :
          /\ \A i \in head .. next - 1 : i \in gone
          /\ next \notin gone
          /\ sendHead' = [sendHead EXCEPT ![e] = next]
          /\ erased' = [erased EXCEPT ![e] = {i \in gone : next < i}]
          /\ held' = [held EXCEPT ![e] = {p \in @ : p.id \notin ids}]

\* test_add(pid, t, TRUE)
Remember(e, p) ==
    /\ pidSeen' = [pidSeen EXCEPT ![e] = IF PacketIds THEN @ \cup {p.pid} ELSE @]
    /\ pidHigh' = [pidHigh EXCEPT ![e] = IF p.pid > @ THEN p.pid ELSE @]

QueueAck(e, id) ==
    /\ Len(xmitAcks[e]) < MaxPending
    /\ xmitAcks' = [xmitAcks EXCEPT ![e] = Append(@, id)]

\* A packet arrives.  The network keeps a copy, to deliver again or to lose.
Arrives(e, p) ==
    /\ ~invalidated[e]
    /\ p.src = Other(e)
    /\ UNCHANGED net

-----------------------------------------------------------------------------
(***************************************************************************)
(* The operations of a stack.                                              *)
(***************************************************************************)

RawSend(e, d) ==
    /\ ~invalidated[e]
    /\ Len(rawQueue[e]) + Len(sslQueue[e]) + Len(sent[e]) < MaxQueued[e]
    /\ rawQueue' = [rawQueue EXCEPT ![e] = Append(@, [raw |-> TRUE, data |-> d])]
    /\ UNCHANGED <<sslQueue, sendHead, sendNext, held, erased, sent, recvVars,
                   pidVars, invalidated, xmitAcks, pidSent, net>>

AppSend(e, d) ==
    /\ ~invalidated[e]
    /\ Len(rawQueue[e]) + Len(sslQueue[e]) + Len(sent[e]) < MaxQueued[e]
    /\ sslQueue' = [sslQueue EXCEPT ![e] = Append(@, [raw |-> FALSE, data |-> d])]
    /\ UNCHANGED <<rawQueue, sendHead, sendNext, held, erased, sent, recvVars,
                   pidVars, invalidated, xmitAcks, pidSent, net>>

StartHandshakeOnly(e) ==
    /\ ~invalidated[e]
    /\ ~started[e]
    /\ started' = [started EXCEPT ![e] = TRUE]
    /\ UNCHANGED <<recvHead, recvSlots, delivered, sendVars, pidVars, invalidated,
                   xmitAcks, pidSent, net>>
StartHandshake(e) ==
    /\ ~invalidated[e]
    /\ ~started[e]
    /\ started' = [started EXCEPT ![e] = TRUE]
    /\ UpSequenced(e, recvSlots[e], TRUE)
    /\ UNCHANGED <<sendVars, pidVars, invalidated, xmitAcks, pidSent, net>>

\* The order in which flush() sends: raw messages, then the TLS ciphertext.
FlushQueue(e) == rawQueue[e] \o (IF started[e] THEN sslQueue[e] ELSE <<>>)

\* How often rel_send.ready() holds: the span counts from the oldest message
\* not acknowledged, not from how many there are.
RoomByCount(e) == Span - Cardinality(held[e])
Room(e) == sendHead[e] + Span - sendNext[e]

\* Number and packet ID of the i-th packet of a flush.
FlushIdStuck(e, i) == sendNext[e]
FlushIdFromHead(e, i) == sendHead[e] + i - 1
FlushId(e, i) == sendNext[e] + i - 1
FlushPidStuck(e, i) == IF PacketIds THEN pidSent[e] + 1 ELSE 0
FlushPid(e, i) == IF PacketIds THEN pidSent[e] + i ELSE 0

\* flush() and send_pending_acks(): number, encapsulate and send what the send
\* window has room for; each packet takes the next chunk of the pending
\* acknowledgements, and standalone ACKs take the chunks left over.
Flush(e) ==
    LET queue  == FlushQueue(e)
        raws   == Len(rawQueue[e])
        n      == Least(Len(queue), Room(e))
        chunks == Chunks(xmitAcks[e])
        Carrier(i) == [src |-> e, ack |-> FALSE, id |-> FlushId(e, i), msg |-> queue[i],
                       acks |-> Chunk(xmitAcks[e], i), pid |-> FlushPid(e, i)]
        AckOnly(i) == [src |-> e, ack |-> TRUE,
                       acks |-> Chunk(xmitAcks[e], i), pid |-> FlushPid(e, i)]
        carriers == {Carrier(i) : i \in 1 .. n}
        total    == IF n < chunks THEN chunks ELSE n
    IN  /\ ~invalidated[e]
        /\ PacketIds => pidSent[e] + total <= MaxPid
        /\ sendNext' = [sendNext EXCEPT ![e] = @ + n]
        /\ sent' = [sent EXCEPT ![e] = @ \o SubSeq(queue, 1, n)]
        /\ rawQueue' = [rawQueue EXCEPT ![e] = SubSeq(@, n + 1, raws)]
        /\ sslQueue' = [sslQueue EXCEPT ![e] =
                          IF n <= raws THEN @ ELSE SubSeq(@, n - raws + 1, Len(@))]
        /\ held' = [held EXCEPT ![e] = @ \cup carriers]
        /\ net' = net \cup carriers \cup {AckOnly(i) : i \in n + 1 .. chunks}
        /\ xmitAcks' = [xmitAcks EXCEPT ![e] = <<>>]
        /\ pidSent' = [pidSent EXCEPT ![e] = IF PacketIds THEN @ + total ELSE @]
        /\ UNCHANGED <<sendHead, erased, recvVars, pidVars, invalidated>>

\* retransmit(): resend the due packets as they were first encapsulated, with
\* their old packet IDs and acknowledgements.
Retransmit(e) ==
    /\ ~invalidated[e]
    /\ \E due \in SUBSET held[e] \ {{}} : net' = net \cup due
    /\ UNCHANGED <<sendVars, recvVars, pidVars, invalidated, xmitAcks, pidSent>>

Invalidate(e) ==
    /\ e \in Fallible
    /\ ~invalidated[e]
    /\ invalidated' = [invalidated EXCEPT ![e] = TRUE]
    /\ UNCHANGED <<sendVars, recvVars, pidVars, xmitAcks, pidSent, net>>

-----------------------------------------------------------------------------
(***************************************************************************)
(* net_recv(): one action for each outcome of decapsulate_post_process.    *)
(***************************************************************************)

RecvAck(e, p) ==
    /\ Arrives(e, p)
    /\ p.ack
    /\ PidOk(e, p)
    /\ Acknowledge(e, AcksOf(p))
    /\ Remember(e, p)
    /\ UNCHANGED <<rawQueue, sslQueue, sendNext, sent, recvVars, pidFloor, silences,
                   invalidated, xmitAcks, pidSent>>

\* In the window: store the message, overwriting a copy, and pass up what it
\* completes.
RecvInWindow(e, p) ==
    /\ Arrives(e, p)
    /\ ~p.ack
    /\ PidOk(e, p)
    /\ InRecvWindow(e, p.id)
    /\ Acknowledge(e, AcksOf(p))
    /\ Remember(e, p)
    /\ QueueAck(e, p.id)
    /\ LET slots == [i \in DOMAIN recvSlots[e] \cup {p.id} |->
                       IF i = p.id THEN p.msg ELSE recvSlots[e][i]]
       IN  UpSequenced(e, slots, started[e])
    /\ UNCHANGED <<rawQueue, sslQueue, sendNext, sent, started, pidFloor, silences,
                   invalidated, pidSent>>

RecvOutsideAckNone(e, p) ==
    /\ Arrives(e, p)
    /\ ~p.ack
    /\ PidOk(e, p)
    /\ ~InRecvWindow(e, p.id)
    /\ Acknowledge(e, AcksOf(p))
    /\ UNCHANGED <<rawQueue, sslQueue, sendNext, sent, recvVars, pidVars, xmitAcks,
                   invalidated, pidSent>>

\* Outside the window: a message already delivered is acknowledged again, one
\* beyond the window is dropped; neither packet ID is remembered.
RecvOutside(e, p) ==
    /\ Arrives(e, p)
    /\ ~p.ack
    /\ PidOk(e, p)
    /\ ~InRecvWindow(e, p.id)
    /\ Acknowledge(e, AcksOf(p))
    /\ IF p.id < recvHead[e] THEN QueueAck(e, p.id) ELSE UNCHANGED xmitAcks
    /\ UNCHANGED <<rawQueue, sslQueue, sendNext, sent, recvVars, pidVars,
                   invalidated, pidSent>>

\* Rejected by the packet-ID check: its acknowledgements are skipped, and a
\* message is acknowledged without being stored.
RecvReplayed(e, p) ==
    /\ Arrives(e, p)
    /\ ~PidOk(e, p)
    /\ IF p.ack THEN UNCHANGED xmitAcks ELSE QueueAck(e, p.id)
    /\ UNCHANGED <<sendVars, recvVars, pidVars, invalidated, pidSent>>

NetRecv(e, p) ==
    \/ RecvAck(e, p)
    \/ RecvInWindow(e, p)
    \/ RecvOutside(e, p)
    \/ RecvReplayed(e, p)

-----------------------------------------------------------------------------
(***************************************************************************)
(* The environment.                                                        *)
(***************************************************************************)

\* A stack whose acknowledgement queue is at its bound is about to be flushed,
\* and nothing is lost in between.
Lose(p) ==
    /\ Lossy
    /\ Len(xmitAcks[Other(p.src)]) < MaxPending
    /\ net' = net \ {p}
    /\ UNCHANGED <<sendVars, recvVars, pidVars, invalidated, xmitAcks, pidSent>>

\* No packet was checked for PKTID_RECV_EXPIRE seconds: the next test_add first
\* raises the floor to the highest ID seen.
Silence(e) ==
    /\ PacketIds
    /\ silences[e] < MaxSilence[e]
    /\ silences' = [silences EXCEPT ![e] = @ + 1]
    /\ pidFloor' = [pidFloor EXCEPT ![e] = pidHigh[e]]
    /\ UNCHANGED <<sendVars, recvVars, pidSeen, pidHigh, invalidated, xmitAcks,
                   pidSent, net>>

-----------------------------------------------------------------------------

Init ==
    /\ started = [e \in Peer |-> FALSE]
    /\ invalidated = [e \in Peer |-> FALSE]
    /\ rawQueue = [e \in Peer |-> <<>>]
    /\ sslQueue = [e \in Peer |-> <<>>]
    /\ sendHead = [e \in Peer |-> 0]
    /\ sendNext = [e \in Peer |-> 0]
    /\ held = [e \in Peer |-> {}]
    /\ erased = [e \in Peer |-> {}]
    /\ recvHead = [e \in Peer |-> 0]
    /\ recvSlots = [e \in Peer |-> <<>>]
    /\ xmitAcks = [e \in Peer |-> <<>>]
    /\ pidSent = [e \in Peer |-> 0]
    /\ pidSeen = [e \in Peer |-> {}]
    /\ pidHigh = [e \in Peer |-> 0]
    /\ pidFloor = [e \in Peer |-> 0]
    /\ net = {}
    /\ sent = [e \in Peer |-> <<>>]
    /\ delivered = [e \in Peer |-> <<>>]
    /\ silences = [e \in Peer |-> 0]

PeerStep(e) ==
    \/ \E d \in Payload : RawSend(e, d) \/ AppSend(e, d)
    \/ StartHandshake(e)
    \/ Flush(e)
    \/ Retransmit(e)
    \/ Invalidate(e)
    \/ Silence(e)
    \/ \E p \in net : NetRecv(e, p)

Next ==
    \/ \E e \in Peer : PeerStep(e)
    \/ \E p \in net : Lose(p)

Spec == Init /\ [][Next]_vars

\* The network loses packets but not every copy of the same message, nor every
\* packet that acknowledges it; a stack resends each message it holds, and its
\* parent flushes it after a call.
Fairness ==
    \A e \in Peer :
      /\ WF_vars(StartHandshake(e))
      /\ WF_vars(Flush(e))
      /\ \A id \in 0 .. MaxQueued[e] - 1 :
           WF_vars(/\ ~invalidated[e]
                   /\ \E due \in SUBSET held[e] :
                        (\E p \in due : p.id = id) /\ net' = net \cup due
                   /\ Retransmit(e))
      /\ \A id \in 0 .. MaxQueued[Other(e)] - 1 :
           SF_vars(\E p \in net : ~p.ack /\ p.id = id /\ NetRecv(e, p))
      /\ \A id \in 0 .. MaxQueued[e] - 1 :
           SF_vars(\E p \in net : id \in AcksOf(p) /\ NetRecv(e, p))

FairSpec == Spec /\ Fairness

-----------------------------------------------------------------------------
(***************************************************************************)
(* Properties.                                                             *)
(***************************************************************************)

\* Type invariant of the stack: every variable of relsend, relrecv, relack and
\* packet_id holds a value of its C++ type, windows included.
TypeOK ==
    /\ started \in [Peer -> BOOLEAN]
    /\ invalidated \in [Peer -> BOOLEAN]
    /\ rawQueue \in [Peer -> Seq(Message)]
    /\ sslQueue \in [Peer -> Seq(Message)]
    /\ sendHead \in [Peer -> Nat]
    /\ sendNext \in [Peer -> Nat]
    /\ \A e \in Peer : sendNext[e] <= sendHead[e] + Span
    /\ held \in [Peer -> SUBSET Packet]
    /\ erased \in [Peer -> SUBSET Nat]
    /\ recvHead \in [Peer -> Nat]
    /\ DOMAIN recvSlots = Peer
    /\ \A e \in Peer : /\ DOMAIN recvSlots[e] \subseteq Nat
                       /\ \A i \in DOMAIN recvSlots[e] : recvSlots[e][i] \in Message
    /\ xmitAcks \in [Peer -> Seq(Nat)]
    /\ pidSent \in [Peer -> Nat]
    /\ pidSeen \in [Peer -> SUBSET Nat]
    /\ pidHigh \in [Peer -> Nat]
    /\ pidFloor \in [Peer -> Nat]
    /\ net \subseteq Packet
    /\ sent \in [Peer -> Seq(Message)]
    /\ delivered \in [Peer -> Seq(Message)]
    /\ silences \in [Peer -> Nat]

\* Whatever the network loses, copies and reorders, what up_sequenced() has
\* passed up is a prefix of what the other peer numbered: nothing is lost,
\* repeated or out of order.
InOrderExactlyOnce ==
    \A e \in Peer :
      /\ Len(delivered[e]) <= Len(sent[Other(e)])
      /\ delivered[e] = SubSeq(sent[Other(e)], 1, Len(delivered[e]))

\* ReliableSend forgets a message (so that it will never be retransmitted)
\* only once the other peer has it: acknowledgements are "for messages received
\* from peer".
AckedIsReceived ==
    \A e \in Peer : \A id \in 0 .. sendNext[e] - 1 :
      (\A p \in held[e] : p.id # id) => Got(Other(e), id)

\* A message that the packet-ID check has remembered is one the receiver has:
\* ta_pid_recv may only reject a message that is not needed any more.
RejectedIsReceived ==
    \A p \in net : ~p.ack /\ ~PidOk(Other(p.src), p) => Got(Other(p.src), p.id)

\* No floor of a packet-ID window has been raised so far by 30 s without a packet.
Quiet == \A e \in Peer : silences[e] = 0

\* Until a silence of 30 s, and whichever peer fails in between, what a stack
\* has forgotten the other has ...
QuietAcked == Quiet => AckedIsReceived

\* ... and what the packet-ID check turns away is not needed.
QuietRejected == Quiet => RejectedIsReceived

\* Every message handed to a stack whose peer has not failed is passed up by
\* the other peer, in spite of loss, when both have started their handshake.
EventuallyDelivered ==
    \A e \in Peer : \A id \in 0 .. MaxQueued[e] - 1 :
      (id < Len(rawQueue[e]) + Len(sslQueue[e]) + Len(sent[e]))
        ~> (id < Len(delivered[Other(e)]) \/ \E f \in Peer : invalidated[f])

\* And the sender learns it: n_unacked() returns to 0, which is what
\* post_ack_action() waits for before the next state of the handshake.
EventuallyAcked ==
    \A e \in Peer :
      held[e] # {} ~> (held[e] = {} \/ \E f \in Peer : invalidated[f])

-----------------------------------------------------------------------------
(***************************************************************************)
(* The inductive invariants behind InOrderExactlyOnce and AckedIsReceived. *)
(***************************************************************************)

\* Every packet that may still arrive: in flight, or held to be resent.
Wire == net \cup UNION {held[e] : e \in Peer}

\* Sequence numbers keep their meaning: wherever a message is (on the wire, in
\* a slot, passed up) it is the one its sender gave that number.
Numbering ==
    /\ TypeOK
    /\ \A e \in Peer :
         /\ Len(sent[e]) = sendNext[e]
         /\ Len(delivered[e]) = recvHead[e]
         /\ recvHead[e] <= sendNext[Other(e)]
         /\ \A i \in 1 .. recvHead[e] : delivered[e][i] = sent[Other(e)][i]
         /\ \A i \in DOMAIN recvSlots[e] : /\ i < sendNext[Other(e)]
                                           /\ recvSlots[e][i] = sent[Other(e)][i + 1]
         /\ \A p \in held[e] : p.src = e /\ ~p.ack
    /\ \A p \in Wire : ~p.ack => /\ p.id < sendNext[p.src]
                                 /\ p.msg = sent[p.src][p.id + 1]

\* An acknowledgement, wherever it is, is for a message its sender has; and so
\* is a packet ID marked as seen, which belongs to one packet only.
Evidence ==
    /\ \A e \in Peer :
         /\ \A i \in 1 .. Len(xmitAcks[e]) : Got(e, xmitAcks[e][i])
         /\ \A id \in 0 .. sendNext[e] - 1 :
              (\E p \in held[e] : p.id = id) \/ Got(Other(e), id)
         /\ pidFloor[e] = 0
         /\ PacketIds => \A k \in pidSeen[e] : k <= pidSent[Other(e)]
    /\ \A p \in Wire : \A a \in AcksOf(p) : Got(p.src, a)
    /\ PacketIds =>
         /\ \A p \in Wire : 1 <= p.pid /\ p.pid <= pidSent[p.src]
         /\ \A p, q \in Wire : p.src = q.src /\ p.pid = q.pid => p = q
         /\ \A p \in Wire : ~p.ack /\ p.pid \in pidSeen[Other(p.src)]
                              => Got(Other(p.src), p.id)

\* The invariant behind QuietAcked and QuietRejected.
QuietEvidence == Quiet => Evidence

-----------------------------------------------------------------------------
(***************************************************************************)
(* The stack implements ReliableLink.                                      *)
(***************************************************************************)

\* Ids below the head of the receive window, or in one of its slots.
received == [e \in Peer |-> (0 .. recvHead[e] - 1) \cup DOMAIN recvSlots[e]]

\* Ids given out by ReliableSend::send() whose slot is gone or erased.
acked == [e \in Peer |->
            {i \in 0 .. sendNext[e] - 1 : i < sendHead[e] \/ i \in erased[e]}]

Link == INSTANCE ReliableLink
            WITH started <- started, sent <- sent, delivered <- delivered,
                 received <- received, acked <- acked

\* Until a silence of 30 s, ProtoStack implements a reliable link.
LinkSpec == Link!Init /\ [][Quiet' => Link!Next]_(Link!vars)

=============================================================================
