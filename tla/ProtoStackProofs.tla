-------------------------- MODULE ProtoStackProofs --------------------------
(* Machine-checked theorems about ProtoStack. *)
EXTENDS ProtoStack, SequenceTheorems, TLAPS

LEMMA OtherPeer ==
    \A e \in Peer : /\ Other(e) \in Peer
                    /\ Other(e) # e
                    /\ Other(Other(e)) = e
                    /\ \A f \in Peer : f = e \/ f = Other(e)
  BY PeerAssumption DEF Peer, Other

LEMMA FunctionIsSeq ==
    ASSUME NEW S, NEW n \in Nat, NEW f \in [1 .. n -> S]
    PROVE  f \in Seq(S) /\ Len(f) = n
<1>1. f \in Seq(S)
  BY SeqDef
<1>2. DOMAIN f = 1 .. n
  OBVIOUS
<1>3. DOMAIN f = 1 .. Len(f) /\ Len(f) \in Nat
  BY <1>1
<1> QED BY <1>1, <1>2, <1>3

\* A chunk of an acknowledgement queue holds only acknowledgements of it.
LEMMA ChunkType ==
    ASSUME NEW q \in Seq(Nat), NEW n \in Nat \ {0}
    PROVE  /\ Chunk(q, n) \in Seq(Nat)
           /\ \A j \in 1 .. Len(Chunk(q, n)) : \E k \in 1 .. Len(q) : Chunk(q, n)[j] = q[k]
<1> DEFINE lo == (n - 1) * MaxAckList + 1
           hi == Least(n * MaxAckList, Len(q))
<1>1. lo \in Nat /\ hi \in Nat /\ lo >= 1 /\ hi <= Len(q)
  <2>1. (n - 1) * MaxAckList \in Nat /\ n * MaxAckList \in Nat
    BY AckAssumption
  <2> QED BY <2>1 DEF Least
<1> HIDE DEF lo, hi
<1>2. Chunk(q, n) = SubSeq(q, lo, hi)
  BY DEF Chunk, lo, hi
<1>3. /\ SubSeq(q, lo, hi) \in Seq(Nat)
      /\ Len(SubSeq(q, lo, hi)) = IF lo <= hi THEN hi - lo + 1 ELSE 0
      /\ \A j \in 1 .. Len(SubSeq(q, lo, hi)) : SubSeq(q, lo, hi)[j] = q[lo + j - 1]
  BY <1>1
<1>4. ASSUME NEW j \in 1 .. Len(SubSeq(q, lo, hi))
      PROVE  lo + j - 1 \in 1 .. Len(q)
  BY <1>1, <1>3
<1> QED BY <1>2, <1>3, <1>4

\* Passing messages up moves the receive head of e to next.
MovedTo(e, slots, next) ==
    /\ recvHead[e] <= next
    /\ \A i \in recvHead[e] .. next - 1 : i \in DOMAIN slots
    /\ recvHead' = [recvHead EXCEPT ![e] = next]
    /\ recvSlots' = [recvSlots EXCEPT ![e] =
                       [i \in DOMAIN slots \ (recvHead[e] .. next - 1) |-> slots[i]]]
    /\ Len(delivered'[e]) = Len(delivered[e]) + (next - recvHead[e])
    /\ delivered'[e] \in Seq(Message)
    /\ delivered' = [delivered EXCEPT ![e] = delivered'[e]]
    /\ \A i \in 1 .. Len(delivered[e]) : delivered'[e][i] = delivered[e][i]
    /\ \A i \in 1 .. next - recvHead[e] :
         delivered'[e][Len(delivered[e]) + i] = slots[recvHead[e] + i - 1]

\* What passing messages up does to the receive side of e.
LEMMA UpSequencedFacts ==
    ASSUME TypeOK, NEW e \in Peer, NEW slots, NEW ssl,
           DOMAIN slots \subseteq Nat, \A i \in DOMAIN slots : slots[i] \in Message,
           UpSequenced(e, slots, ssl)
    PROVE  \E next \in Nat : MovedTo(e, slots, next)
<1>1. PICK next \in recvHead[e] .. recvHead[e] + Span :
        /\ \A i \in recvHead[e] .. next - 1 : i \in DOMAIN slots
        /\ recvHead' = [recvHead EXCEPT ![e] = next]
        /\ recvSlots' = [recvSlots EXCEPT ![e] =
                           [i \in DOMAIN slots \ (recvHead[e] .. next - 1) |-> slots[i]]]
        /\ delivered' = [delivered EXCEPT ![e] =
                           @ \o [i \in 1 .. next - recvHead[e] |-> slots[recvHead[e] + i - 1]]]
  BY DEF UpSequenced
<1>2. recvHead[e] \in Nat /\ next \in Nat /\ recvHead[e] <= next
  BY <1>1, SpanAssumption DEF TypeOK
<1> DEFINE n == next - recvHead[e]
           run == [i \in 1 .. n |-> slots[recvHead[e] + i - 1]]
<1>3. n \in Nat
  BY <1>2
<1>4. run \in Seq(Message) /\ Len(run) = n
  <2>1. \A i \in 1 .. n : recvHead[e] + i - 1 \in recvHead[e] .. next - 1
    BY <1>2
  <2>2. run \in [1 .. n -> Message]
    BY <2>1, <1>1
  <2> HIDE DEF run, n
  <2> QED BY <2>2, <1>3, FunctionIsSeq
<1>5. delivered'[e] = delivered[e] \o run /\ delivered[e] \in Seq(Message)
  BY <1>1 DEF TypeOK
<1>6. /\ Len(delivered'[e]) = Len(delivered[e]) + n
      /\ delivered'[e] \in Seq(Message)
      /\ \A i \in 1 .. Len(delivered[e]) : delivered'[e][i] = delivered[e][i]
      /\ \A i \in 1 .. n : delivered'[e][Len(delivered[e]) + i] = run[i]
  <2> HIDE DEF run, n
  <2>1. /\ delivered[e] \o run \in Seq(Message)
        /\ Len(delivered[e] \o run) = Len(delivered[e]) + Len(run)
        /\ \A i \in 1 .. Len(delivered[e]) + Len(run) : (delivered[e] \o run)[i] =
             IF i <= Len(delivered[e]) THEN delivered[e][i] ELSE run[i - Len(delivered[e])]
    BY <1>4, <1>5, ConcatProperties
  <2>2. Len(delivered[e]) \in Nat
    BY <1>5
  <2>3. \A i \in 1 .. n : /\ Len(delivered[e]) + i \in 1 .. Len(delivered[e]) + n
                          /\ ~(Len(delivered[e]) + i <= Len(delivered[e]))
                          /\ (Len(delivered[e]) + i) - Len(delivered[e]) = i
    BY <2>2, <1>3
  <2>4. \A i \in 1 .. n : (delivered[e] \o run)[Len(delivered[e]) + i] = run[i]
    BY <2>1, <2>3, <1>4
  <2>5. \A i \in 1 .. Len(delivered[e]) : (delivered[e] \o run)[i] = delivered[e][i]
    BY <2>1, <2>2, <1>3, <1>4
  <2> QED BY <2>1, <2>4, <2>5, <1>4, <1>5
<1>7. delivered' = [delivered EXCEPT ![e] = delivered'[e]]
  BY <1>1, <1>5
<1>8. MovedTo(e, slots, next)
  BY <1>1, <1>2, <1>6, <1>7 DEF MovedTo
<1> QED BY <1>2, <1>8

\* Acknowledgements only take packets out of the send window and move its head
\* forward.
LEMMA AcknowledgeFacts ==
    ASSUME TypeOK, NEW e \in Peer, NEW ids \in SUBSET Nat, Acknowledge(e, ids)
    PROVE  /\ sendHead' \in [Peer -> Nat]
           /\ \A f \in Peer : sendHead[f] <= sendHead'[f]
           /\ erased' \in [Peer -> SUBSET Nat]
           /\ held' = [held EXCEPT ![e] = {p \in held[e] : p.id \notin ids}]
           /\ held' \in [Peer -> SUBSET Packet]
<1>1. PICK next \in sendHead[e] .. sendHead[e] + Span :
        /\ sendHead' = [sendHead EXCEPT ![e] = next]
        /\ erased' = [erased EXCEPT ![e] =
             {i \in erased[e] \cup {j \in ids : sendHead[e] <= j /\ j < sendHead[e] + Span} :
                next < i}]
        /\ held' = [held EXCEPT ![e] = {p \in held[e] : p.id \notin ids}]
  BY DEF Acknowledge, TypeOK
<1>2. next \in Nat /\ sendHead[e] <= next
  BY <1>1, SpanAssumption DEF TypeOK
<1>3. sendHead' \in [Peer -> Nat] /\ \A f \in Peer : sendHead[f] <= sendHead'[f]
  <2>1. sendHead \in [Peer -> Nat]
    BY DEF TypeOK
  <2>2. \A f \in Peer : sendHead'[f] = IF f = e THEN next ELSE sendHead[f]
    BY <1>1, <2>1
  <2>3. DOMAIN sendHead' = Peer /\ sendHead' = [f \in Peer |-> sendHead'[f]]
    BY <1>1, <2>1
  <2> QED BY <1>2, <2>1, <2>2, <2>3
<1>4. erased' \in [Peer -> SUBSET Nat]
  BY <1>1, <1>2 DEF TypeOK
<1>5. held' \in [Peer -> SUBSET Packet]
  BY <1>1 DEF TypeOK
<1> QED BY <1>1, <1>3, <1>4, <1>5

LEMMA AcksOfType ==
    ASSUME NEW p \in Packet
    PROVE  AcksOf(p) \in SUBSET Nat
<1>1. p.acks \in Seq(Nat)
  BY DEF Packet
<1> QED BY <1>1 DEF AcksOf

\* The packets a flush puts on the wire.
FlushCount(e) == Least(Len(FlushQueue(e)), Room(e))
FlushCarrier(e, i) ==
    [src |-> e, ack |-> FALSE, id |-> FlushId(e, i), msg |-> FlushQueue(e)[i],
     acks |-> Chunk(xmitAcks[e], i), pid |-> FlushPid(e, i)]
FlushAckOnly(e, i) ==
    [src |-> e, ack |-> TRUE, acks |-> Chunk(xmitAcks[e], i), pid |-> FlushPid(e, i)]
FlushCarriers(e) == {FlushCarrier(e, i) : i \in 1 .. FlushCount(e)}
FlushAckOnlys(e) ==
    {FlushAckOnly(e, i) : i \in FlushCount(e) + 1 .. Chunks(xmitAcks[e])}
FlushTotal(e) == IF FlushCount(e) < Chunks(xmitAcks[e])
                 THEN Chunks(xmitAcks[e]) ELSE FlushCount(e)

LEMMA FlushDefined ==
    ASSUME NEW e \in Peer, Flush(e)
    PROVE  /\ sendNext' = [sendNext EXCEPT ![e] = @ + FlushCount(e)]
           /\ sent' = [sent EXCEPT ![e] = @ \o SubSeq(FlushQueue(e), 1, FlushCount(e))]
           /\ rawQueue' = [rawQueue EXCEPT ![e] =
                             SubSeq(@, FlushCount(e) + 1, Len(rawQueue[e]))]
           /\ sslQueue' = [sslQueue EXCEPT ![e] =
                             IF FlushCount(e) <= Len(rawQueue[e]) THEN @
                             ELSE SubSeq(@, FlushCount(e) - Len(rawQueue[e]) + 1, Len(@))]
           /\ held' = [held EXCEPT ![e] = @ \cup FlushCarriers(e)]
           /\ net' = net \cup FlushCarriers(e) \cup FlushAckOnlys(e)
           /\ xmitAcks' = [xmitAcks EXCEPT ![e] = <<>>]
           /\ pidSent' = [pidSent EXCEPT ![e] =
                            IF PacketIds THEN @ + FlushTotal(e) ELSE @]
           /\ UNCHANGED <<sendHead, erased, recvVars, pidVars, invalidated>>
  BY DEF Flush, FlushCount, FlushCarrier, FlushAckOnly,
         FlushCarriers, FlushAckOnlys, FlushTotal

LEMMA FlushTypes ==
    ASSUME TypeOK, NEW e \in Peer
    PROVE  /\ FlushQueue(e) \in Seq(Message)
           /\ FlushCount(e) \in Nat
           /\ FlushCount(e) <= Len(FlushQueue(e))
           /\ FlushCount(e) <= sendHead[e] + Span - sendNext[e]
           /\ Chunks(xmitAcks[e]) \in Nat
           /\ FlushTotal(e) \in Nat
           /\ FlushCount(e) <= FlushTotal(e)
           /\ Chunks(xmitAcks[e]) <= FlushTotal(e)
<1>1. FlushQueue(e) \in Seq(Message)
  <2>1. rawQueue[e] \in Seq(Message) /\ sslQueue[e] \in Seq(Message)
    BY DEF TypeOK
  <2> QED BY <2>1 DEF FlushQueue
<1>2. /\ FlushCount(e) \in Nat
      /\ FlushCount(e) <= Len(FlushQueue(e))
      /\ FlushCount(e) <= sendHead[e] + Span - sendNext[e]
  <2>1. /\ sendHead[e] \in Nat /\ sendNext[e] \in Nat
        /\ sendNext[e] <= sendHead[e] + Span
    BY DEF TypeOK
  <2>2. Len(FlushQueue(e)) \in Nat
    BY <1>1
  <2> QED BY <2>1, <2>2, SpanAssumption DEF FlushCount, Room, Least
<1>3. Chunks(xmitAcks[e]) \in Nat
  <2>1. Len(xmitAcks[e]) \in Nat
    BY DEF TypeOK
  <2>2. \A a \in Nat, b \in Nat \ {0} : (a + b - 1) \div b \in Nat
    OBVIOUS
  <2> QED BY <2>1, <2>2, AckAssumption DEF Chunks
<1> QED BY <1>1, <1>2, <1>3 DEF FlushTotal

LEMMA FlushPackets ==
    ASSUME TypeOK, NEW e \in Peer
    PROVE  /\ FlushCarriers(e) \subseteq Packet
           /\ FlushAckOnlys(e) \subseteq Packet
           /\ \A p \in FlushCarriers(e) \cup FlushAckOnlys(e) :
                /\ p.src = e
                /\ \A a \in AcksOf(p) : \E k \in 1 .. Len(xmitAcks[e]) : a = xmitAcks[e][k]
           /\ \A p \in FlushCarriers(e) :
                /\ ~p.ack
                /\ p.id \in sendNext[e] .. sendNext[e] + FlushCount(e) - 1
                /\ p.msg = FlushQueue(e)[p.id - sendNext[e] + 1]
           /\ \A id \in sendNext[e] .. sendNext[e] + FlushCount(e) - 1 :
                \E p \in FlushCarriers(e) : p.id = id
           /\ \A p \in FlushAckOnlys(e) : p.ack
           /\ PacketIds =>
                /\ \A p \in FlushCarriers(e) \cup FlushAckOnlys(e) :
                     pidSent[e] < p.pid /\ p.pid <= pidSent[e] + FlushTotal(e)
                /\ \A p, q \in FlushCarriers(e) \cup FlushAckOnlys(e) :
                     p.pid = q.pid => p = q
<1>0. /\ sendNext[e] \in Nat /\ pidSent[e] \in Nat /\ xmitAcks[e] \in Seq(Nat)
      /\ FlushQueue(e) \in Seq(Message) /\ FlushCount(e) \in Nat
      /\ Chunks(xmitAcks[e]) \in Nat /\ FlushTotal(e) \in Nat
      /\ FlushCount(e) <= Len(FlushQueue(e))
      /\ FlushCount(e) <= FlushTotal(e) /\ Chunks(xmitAcks[e]) <= FlushTotal(e)
  BY FlushTypes DEF TypeOK
<1>1. ASSUME NEW i \in 1 .. FlushTotal(e)
      PROVE  /\ FlushPid(e, i) \in Nat
             /\ Chunk(xmitAcks[e], i) \in Seq(Nat)
             /\ \A j \in 1 .. Len(Chunk(xmitAcks[e], i)) :
                  \E k \in 1 .. Len(xmitAcks[e]) : Chunk(xmitAcks[e], i)[j] = xmitAcks[e][k]
             /\ PacketIds => FlushPid(e, i) = pidSent[e] + i
  <2>1. i \in Nat \ {0} /\ pidSent[e] + i \in Nat
    BY <1>0
  <2>2. /\ Chunk(xmitAcks[e], i) \in Seq(Nat)
        /\ \A j \in 1 .. Len(Chunk(xmitAcks[e], i)) :
             \E k \in 1 .. Len(xmitAcks[e]) : Chunk(xmitAcks[e], i)[j] = xmitAcks[e][k]
    BY <1>0, <2>1, ChunkType
  <2> QED BY <2>1, <2>2 DEF FlushPid
<1>2. ASSUME NEW i \in 1 .. FlushCount(e)
      PROVE  /\ i \in 1 .. FlushTotal(e)
             /\ FlushCarrier(e, i) \in Packet
             /\ FlushCarrier(e, i).src = e
             /\ FlushCarrier(e, i).ack = FALSE
             /\ FlushCarrier(e, i).id = sendNext[e] + i - 1
             /\ FlushCarrier(e, i).msg = FlushQueue(e)[i]
             /\ FlushCarrier(e, i).acks = Chunk(xmitAcks[e], i)
             /\ FlushCarrier(e, i).pid = FlushPid(e, i)
  <2>1. i \in 1 .. FlushTotal(e) /\ sendNext[e] + i - 1 \in Nat
    BY <1>0
  <2>2. FlushQueue(e)[i] \in Message
    BY <1>0
  <2> QED BY <1>1, <2>1, <2>2 DEF FlushCarrier, FlushId, Packet
<1>3. ASSUME NEW i \in FlushCount(e) + 1 .. Chunks(xmitAcks[e])
      PROVE  /\ i \in 1 .. FlushTotal(e)
             /\ FlushAckOnly(e, i) \in Packet
             /\ FlushAckOnly(e, i).src = e
             /\ FlushAckOnly(e, i).ack = TRUE
             /\ FlushAckOnly(e, i).acks = Chunk(xmitAcks[e], i)
             /\ FlushAckOnly(e, i).pid = FlushPid(e, i)
  <2>1. i \in 1 .. FlushTotal(e)
    BY <1>0
  <2> QED BY <1>1, <2>1 DEF FlushAckOnly, Packet
<1>4. FlushCarriers(e) \subseteq Packet /\ FlushAckOnlys(e) \subseteq Packet
  BY <1>2, <1>3 DEF FlushCarriers, FlushAckOnlys
<1>5. ASSUME NEW p \in FlushCarriers(e) \cup FlushAckOnlys(e)
      PROVE  \E i \in 1 .. FlushTotal(e) :
               /\ p.src = e /\ p.acks = Chunk(xmitAcks[e], i) /\ p.pid = FlushPid(e, i)
               /\ \/ i <= FlushCount(e) /\ p = FlushCarrier(e, i)
                  \/ i > FlushCount(e) /\ p = FlushAckOnly(e, i)
  <2>1. CASE p \in FlushCarriers(e)
    <3>1. PICK i \in 1 .. FlushCount(e) : p = FlushCarrier(e, i)
      BY <2>1 DEF FlushCarriers
    <3>2. i <= FlushCount(e) /\ i \in 1 .. FlushTotal(e)
      BY <1>0
    <3>3. p.src = e /\ p.acks = Chunk(xmitAcks[e], i) /\ p.pid = FlushPid(e, i)
      BY <1>2, <3>1
    <3> QED BY <3>1, <3>2, <3>3
  <2>2. CASE p \in FlushAckOnlys(e)
    <3>1. PICK i \in FlushCount(e) + 1 .. Chunks(xmitAcks[e]) : p = FlushAckOnly(e, i)
      BY <2>2 DEF FlushAckOnlys
    <3>2. i > FlushCount(e)
      BY <1>0
    <3> QED BY <1>3, <3>1, <3>2
  <2> QED BY <2>1, <2>2
<1>6. ASSUME NEW p \in FlushCarriers(e) \cup FlushAckOnlys(e)
      PROVE  /\ p.src = e
             /\ \A a \in AcksOf(p) : \E k \in 1 .. Len(xmitAcks[e]) : a = xmitAcks[e][k]
  <2>1. PICK i \in 1 .. FlushTotal(e) : p.src = e /\ p.acks = Chunk(xmitAcks[e], i)
    BY <1>5
  <2>2. \A j \in 1 .. Len(Chunk(xmitAcks[e], i)) :
          \E k \in 1 .. Len(xmitAcks[e]) : Chunk(xmitAcks[e], i)[j] = xmitAcks[e][k]
    BY <1>1, <2>1
  <2> QED BY <2>1, <2>2 DEF AcksOf
<1>7. ASSUME NEW p \in FlushCarriers(e)
      PROVE  /\ ~p.ack
             /\ p.id \in sendNext[e] .. sendNext[e] + FlushCount(e) - 1
             /\ p.msg = FlushQueue(e)[p.id - sendNext[e] + 1]
  <2>1. PICK i \in 1 .. FlushCount(e) : p = FlushCarrier(e, i)
    BY DEF FlushCarriers
  <2>2. i = (sendNext[e] + i - 1) - sendNext[e] + 1
    BY <1>0
  <2>3. sendNext[e] + i - 1 \in sendNext[e] .. sendNext[e] + FlushCount(e) - 1
    BY <1>0
  <2> QED BY <2>1, <2>2, <2>3, <1>2
<1>8. ASSUME NEW id \in sendNext[e] .. sendNext[e] + FlushCount(e) - 1
      PROVE  \E p \in FlushCarriers(e) : p.id = id
  <2>1. id - sendNext[e] + 1 \in 1 .. FlushCount(e)
    BY <1>0
  <2>2. sendNext[e] + (id - sendNext[e] + 1) - 1 = id
    BY <1>0
  <2> QED BY <2>1, <2>2, <1>2 DEF FlushCarriers
<1>9. ASSUME NEW p \in FlushAckOnlys(e)
      PROVE  p.ack
  BY <1>3 DEF FlushAckOnlys
<1>10. ASSUME PacketIds
       PROVE  /\ \A p \in FlushCarriers(e) \cup FlushAckOnlys(e) :
                   pidSent[e] < p.pid /\ p.pid <= pidSent[e] + FlushTotal(e)
              /\ \A p, q \in FlushCarriers(e) \cup FlushAckOnlys(e) :
                   p.pid = q.pid => p = q
  <2>1. ASSUME NEW p \in FlushCarriers(e) \cup FlushAckOnlys(e)
        PROVE  \E i \in 1 .. FlushTotal(e) :
                 /\ p.pid = pidSent[e] + i
                 /\ \/ i <= FlushCount(e) /\ p = FlushCarrier(e, i)
                    \/ i > FlushCount(e) /\ p = FlushAckOnly(e, i)
    BY <1>1, <1>5, <1>10
  <2>2. ASSUME NEW p \in FlushCarriers(e) \cup FlushAckOnlys(e),
               NEW q \in FlushCarriers(e) \cup FlushAckOnlys(e), p.pid = q.pid
        PROVE  p = q
    <3>1. PICK i \in 1 .. FlushTotal(e) :
            /\ p.pid = pidSent[e] + i
            /\ \/ i <= FlushCount(e) /\ p = FlushCarrier(e, i)
               \/ i > FlushCount(e) /\ p = FlushAckOnly(e, i)
      BY <2>1
    <3>2. PICK j \in 1 .. FlushTotal(e) :
            /\ q.pid = pidSent[e] + j
            /\ \/ j <= FlushCount(e) /\ q = FlushCarrier(e, j)
               \/ j > FlushCount(e) /\ q = FlushAckOnly(e, j)
      BY <2>1
    <3>3. i = j
      BY <3>1, <3>2, <2>2, <1>0
    <3> QED BY <3>1, <3>2, <3>3, <1>0
  <2> QED BY <2>1, <2>2, <1>0
<1> QED BY <1>4, <1>6, <1>7, <1>8, <1>9, <1>10

-----------------------------------------------------------------------------

LEMMA TypeInit == Init => TypeOK
  BY OtherPeer, SpanAssumption DEF Init, TypeOK, Peer

LEMMA TypeStep == TypeOK /\ [Next]_vars => TypeOK'
<1> SUFFICES ASSUME TypeOK, [Next]_vars PROVE TypeOK'
  OBVIOUS
<1> USE SpanAssumption
<1>1. ASSUME NEW e \in Peer, NEW d \in Payload, RawSend(e, d) PROVE TypeOK'
  <2>1. [raw |-> TRUE, data |-> d] \in Message
    BY DEF Message
  <2>2. rawQueue' \in [Peer -> Seq(Message)]
    BY <1>1, <2>1 DEF RawSend, TypeOK
  <2> QED BY <1>1, <2>2 DEF RawSend, TypeOK, recvVars, pidVars
<1>2. ASSUME NEW e \in Peer, NEW d \in Payload, AppSend(e, d) PROVE TypeOK'
  <2>1. [raw |-> FALSE, data |-> d] \in Message
    BY DEF Message
  <2>2. sslQueue' \in [Peer -> Seq(Message)]
    BY <1>2, <2>1 DEF AppSend, TypeOK
  <2> QED BY <1>2, <2>2 DEF AppSend, TypeOK, recvVars, pidVars
<1>3. ASSUME NEW e \in Peer, NEW slots, NEW ssl,
             DOMAIN slots \subseteq Nat, \A i \in DOMAIN slots : slots[i] \in Message,
             UpSequenced(e, slots, ssl)
      PROVE  /\ recvHead' \in [Peer -> Nat]
             /\ DOMAIN recvSlots' = Peer
             /\ \A f \in Peer : /\ DOMAIN recvSlots'[f] \subseteq Nat
                                /\ \A i \in DOMAIN recvSlots'[f] : recvSlots'[f][i] \in Message
             /\ delivered' \in [Peer -> Seq(Message)]
  <2>1. PICK next \in Nat : MovedTo(e, slots, next)
    BY <1>3, UpSequencedFacts
  <2>2. recvHead' \in [Peer -> Nat]
    BY <2>1 DEF TypeOK, MovedTo
  <2>3. delivered' \in [Peer -> Seq(Message)]
    BY <2>1 DEF TypeOK, MovedTo
  <2>4. DOMAIN recvSlots' = Peer
    BY <2>1 DEF TypeOK, MovedTo
  <2>5. ASSUME NEW f \in Peer
        PROVE  /\ DOMAIN recvSlots'[f] \subseteq Nat
               /\ \A i \in DOMAIN recvSlots'[f] : recvSlots'[f][i] \in Message
    BY <2>1, <1>3 DEF TypeOK, MovedTo
  <2> QED BY <2>2, <2>3, <2>4, <2>5
<1>4. ASSUME NEW e \in Peer, StartHandshake(e) PROVE TypeOK'
  <2>1. /\ DOMAIN recvSlots[e] \subseteq Nat
        /\ \A i \in DOMAIN recvSlots[e] : recvSlots[e][i] \in Message
        /\ UpSequenced(e, recvSlots[e], TRUE)
    BY <1>4 DEF StartHandshake, TypeOK
  <2>2. started' \in [Peer -> BOOLEAN]
    BY <1>4 DEF StartHandshake, TypeOK
  <2> QED BY <1>3, <1>4, <2>1, <2>2 DEF StartHandshake, TypeOK, sendVars, pidVars
<1>5. ASSUME NEW e \in Peer, Flush(e) PROVE TypeOK'
  <2> DEFINE n == FlushCount(e)
             q == FlushQueue(e)
  <2>1. /\ sendNext' = [sendNext EXCEPT ![e] = @ + n]
        /\ sent' = [sent EXCEPT ![e] = @ \o SubSeq(q, 1, n)]
        /\ rawQueue' = [rawQueue EXCEPT ![e] = SubSeq(@, n + 1, Len(rawQueue[e]))]
        /\ sslQueue' = [sslQueue EXCEPT ![e] =
                          IF n <= Len(rawQueue[e]) THEN @
                          ELSE SubSeq(@, n - Len(rawQueue[e]) + 1, Len(@))]
        /\ held' = [held EXCEPT ![e] = @ \cup FlushCarriers(e)]
        /\ net' = net \cup FlushCarriers(e) \cup FlushAckOnlys(e)
        /\ xmitAcks' = [xmitAcks EXCEPT ![e] = <<>>]
        /\ pidSent' = [pidSent EXCEPT ![e] = IF PacketIds THEN @ + FlushTotal(e) ELSE @]
        /\ UNCHANGED <<sendHead, erased, recvVars, pidVars, invalidated>>
    BY <1>5, FlushDefined
  <2>2. /\ n \in Nat /\ q \in Seq(Message) /\ n <= Len(q)
        /\ n <= sendHead[e] + Span - sendNext[e] /\ FlushTotal(e) \in Nat
    BY FlushTypes
  <2> HIDE DEF n, q
  <2>3. /\ sendNext' \in [Peer -> Nat]
        /\ \A f \in Peer : sendNext'[f] <= sendHead'[f] + Span
    <3>1. /\ sendNext \in [Peer -> Nat] /\ sendHead \in [Peer -> Nat]
          /\ \A f \in Peer : sendNext[f] <= sendHead[f] + Span
      BY DEF TypeOK
    <3>2. \A f \in Peer : sendNext'[f] = IF f = e THEN sendNext[e] + n ELSE sendNext[f]
      BY <2>1, <3>1
    <3>3. sendNext[e] + n <= sendHead[e] + Span
      BY <2>2, <3>1
    <3>4. sendNext' = [f \in Peer |-> sendNext'[f]]
      BY <2>1, <3>1
    <3> QED BY <2>1, <2>2, <3>1, <3>2, <3>3, <3>4
  <2>4. sent' \in [Peer -> Seq(Message)]
    <3>1. SubSeq(q, 1, n) \in Seq(Message)
      BY <2>2
    <3>2. sent \in [Peer -> Seq(Message)]
      BY DEF TypeOK
    <3>3. sent[e] \o SubSeq(q, 1, n) \in Seq(Message)
      BY <3>1, <3>2
    <3> QED BY <2>1, <3>2, <3>3
  <2>5. rawQueue' \in [Peer -> Seq(Message)]
    <3>1. rawQueue \in [Peer -> Seq(Message)]
      BY DEF TypeOK
    <3>2. rawQueue[e] \in Seq(Message) /\ n + 1 \in Nat \ {0}
      BY <2>2, <3>1
    <3>3. SubSeq(rawQueue[e], n + 1, Len(rawQueue[e])) \in Seq(Message)
      BY <3>2
    <3> QED BY <2>1, <3>1, <3>3
  <2>6. sslQueue' \in [Peer -> Seq(Message)]
    <3>1. rawQueue[e] \in Seq(Message) /\ sslQueue[e] \in Seq(Message)
      BY DEF TypeOK
    <3>2. ASSUME ~(n <= Len(rawQueue[e]))
          PROVE  SubSeq(sslQueue[e], n - Len(rawQueue[e]) + 1, Len(sslQueue[e])) \in Seq(Message)
      <4>1. n - Len(rawQueue[e]) + 1 \in Nat \ {0}
        BY <2>2, <3>1, <3>2
      <4> QED BY <3>1, <4>1
    <3> QED BY <2>1, <3>1, <3>2 DEF TypeOK
  <2>7. held' \in [Peer -> SUBSET Packet] /\ net' \subseteq Packet
    BY <2>1, FlushPackets DEF TypeOK
  <2>8. xmitAcks' \in [Peer -> Seq(Nat)]
    BY <2>1 DEF TypeOK
  <2>9. pidSent' \in [Peer -> Nat]
    <3>1. pidSent \in [Peer -> Nat]
      BY DEF TypeOK
    <3>2. (IF PacketIds THEN pidSent[e] + FlushTotal(e) ELSE pidSent[e]) \in Nat
      BY <2>2, <3>1
    <3> QED BY <2>1, <3>1, <3>2
  <2> QED
    BY <2>1, <2>3, <2>4, <2>5, <2>6, <2>7, <2>8, <2>9 DEF TypeOK, recvVars, pidVars
<1>6. ASSUME NEW e \in Peer, Retransmit(e) PROVE TypeOK'
  BY <1>6 DEF Retransmit, TypeOK, sendVars, recvVars, pidVars
<1>7. ASSUME NEW e \in Peer, Invalidate(e) PROVE TypeOK'
  BY <1>7 DEF Invalidate, TypeOK, sendVars, recvVars, pidVars
<1>8. ASSUME NEW e \in Peer, Silence(e) PROVE TypeOK'
  <2>1. pidFloor' \in [Peer -> Nat] /\ silences' \in [Peer -> Nat]
    BY <1>8 DEF Silence, TypeOK
  <2> QED BY <1>8, <2>1 DEF Silence, TypeOK, sendVars, recvVars
<1>9. ASSUME NEW e \in Peer, NEW p \in net, Remember(e, p)
      PROVE  pidSeen' \in [Peer -> SUBSET Nat] /\ pidHigh' \in [Peer -> Nat]
  <2>1. p.pid \in Nat
    BY DEF TypeOK, Packet
  <2> QED BY <1>9, <2>1 DEF Remember, TypeOK
<1>10. ASSUME NEW e \in Peer, NEW id \in Nat, QueueAck(e, id)
       PROVE  xmitAcks' \in [Peer -> Seq(Nat)]
  BY <1>10 DEF QueueAck, TypeOK
<1>11. ASSUME NEW e \in Peer, NEW p \in net, Acknowledge(e, AcksOf(p)), UNCHANGED sendNext
       PROVE  /\ sendHead' \in [Peer -> Nat]
              /\ erased' \in [Peer -> SUBSET Nat]
              /\ held' \in [Peer -> SUBSET Packet]
              /\ \A f \in Peer : sendNext'[f] <= sendHead'[f] + Span
  <2>1. AcksOf(p) \in SUBSET Nat
    BY AcksOfType DEF TypeOK
  <2>2. /\ sendHead' \in [Peer -> Nat]
        /\ \A f \in Peer : sendHead[f] <= sendHead'[f]
        /\ erased' \in [Peer -> SUBSET Nat]
        /\ held' \in [Peer -> SUBSET Packet]
    BY <1>11, <2>1, AcknowledgeFacts
  <2>3. /\ sendNext \in [Peer -> Nat] /\ sendHead \in [Peer -> Nat]
        /\ \A f \in Peer : sendNext[f] <= sendHead[f] + Span
    BY DEF TypeOK
  <2> QED BY <1>11, <2>2, <2>3
<1>12. ASSUME NEW e \in Peer, NEW p \in net, RecvAck(e, p) PROVE TypeOK'
  BY <1>9, <1>11, <1>12 DEF RecvAck, Arrives, TypeOK, recvVars
<1>13. ASSUME NEW e \in Peer, NEW p \in net, RecvInWindow(e, p) PROVE TypeOK'
  <2> DEFINE slots == [i \in DOMAIN recvSlots[e] \cup {p.id} |->
                         IF i = p.id THEN p.msg ELSE recvSlots[e][i]]
  <2>1. p.id \in Nat /\ p.msg \in Message
    BY <1>13 DEF RecvInWindow, TypeOK, Packet
  <2>2. DOMAIN slots \subseteq Nat /\ \A i \in DOMAIN slots : slots[i] \in Message
    BY <2>1 DEF TypeOK
  <2>3. UpSequenced(e, slots, started[e])
    BY <1>13 DEF RecvInWindow
  <2> HIDE DEF slots
  <2>4. /\ recvHead' \in [Peer -> Nat]
        /\ DOMAIN recvSlots' = Peer
        /\ \A f \in Peer : /\ DOMAIN recvSlots'[f] \subseteq Nat
                           /\ \A i \in DOMAIN recvSlots'[f] : recvSlots'[f][i] \in Message
        /\ delivered' \in [Peer -> Seq(Message)]
    BY <1>3, <2>2, <2>3
  <2>5. xmitAcks' \in [Peer -> Seq(Nat)]
    BY <1>10, <1>13, <2>1 DEF RecvInWindow
  <2> QED BY <1>9, <1>11, <1>13, <2>4, <2>5 DEF RecvInWindow, Arrives, TypeOK
<1>14. ASSUME NEW e \in Peer, NEW p \in net, RecvOutside(e, p) PROVE TypeOK'
  <2>1. p.id \in Nat
    BY <1>14 DEF RecvOutside, TypeOK, Packet
  <2>2. xmitAcks' \in [Peer -> Seq(Nat)]
    BY <1>10, <1>14, <2>1 DEF RecvOutside, TypeOK
  <2> QED BY <1>11, <1>14, <2>2 DEF RecvOutside, Arrives, TypeOK, recvVars, pidVars
<1>15. ASSUME NEW e \in Peer, NEW p \in net, RecvReplayed(e, p) PROVE TypeOK'
  <2>1. p.ack \/ p.id \in Nat
    BY DEF TypeOK, Packet
  <2>2. xmitAcks' \in [Peer -> Seq(Nat)]
    BY <1>10, <1>15, <2>1 DEF RecvReplayed, TypeOK
  <2> QED BY <1>15, <2>2 DEF RecvReplayed, Arrives, TypeOK, sendVars, recvVars, pidVars
<1>16. ASSUME NEW p \in net, Lose(p) PROVE TypeOK'
  BY <1>16 DEF Lose, TypeOK, sendVars, recvVars, pidVars
<1>17. CASE UNCHANGED vars
  BY <1>17 DEF vars, sendVars, recvVars, pidVars, TypeOK
<1> QED
  BY <1>1, <1>2, <1>4, <1>5, <1>6, <1>7, <1>8, <1>12, <1>13, <1>14, <1>15, <1>16, <1>17
  DEF Next, PeerStep, NetRecv

\* Every variable of the stack keeps its type, and the send window never holds
\* more than Span messages, for every window size, queue bound and network.
THEOREM TypeCorrect == Spec => []TypeOK
<1> QED BY TypeInit, TypeStep, PTL DEF Spec

-----------------------------------------------------------------------------

\* The three parts of Numbering.
RecvNumbered ==
    \A e \in Peer :
      /\ Len(delivered[e]) = recvHead[e]
      /\ recvHead[e] <= sendNext[Other(e)]
      /\ \A i \in 1 .. recvHead[e] : delivered[e][i] = sent[Other(e)][i]
      /\ \A i \in DOMAIN recvSlots[e] : /\ i < sendNext[Other(e)]
                                        /\ recvSlots[e][i] = sent[Other(e)][i + 1]
SendNumbered ==
    \A e \in Peer : /\ Len(sent[e]) = sendNext[e]
                    /\ \A p \in held[e] : p.src = e /\ ~p.ack
WireNumbered ==
    \A p \in Wire : ~p.ack => p.id < sendNext[p.src] /\ p.msg = sent[p.src][p.id + 1]

LEMMA NumberingParts ==
    Numbering <=> TypeOK /\ RecvNumbered /\ SendNumbered /\ WireNumbered
  BY DEF Numbering, RecvNumbered, SendNumbered, WireNumbered

LEMMA NumberingPartsNext ==
    Numbering' <=> TypeOK' /\ RecvNumbered' /\ SendNumbered' /\ WireNumbered'
  BY DEF Numbering, RecvNumbered, SendNumbered, WireNumbered

LEMMA NumberingInit == Init => Numbering
<1> SUFFICES ASSUME Init PROVE Numbering
  OBVIOUS
<1>1. TypeOK
  BY TypeInit
<1>2. RecvNumbered
  BY OtherPeer DEF Init, RecvNumbered
<1>3. SendNumbered
  BY DEF Init, SendNumbered
<1>4. WireNumbered
  BY DEF Init, WireNumbered, Wire
<1> QED BY <1>1, <1>2, <1>3, <1>4, NumberingParts

\* Steps that send nothing new keep the send side numbered.
LEMMA NothingNew ==
    ASSUME Numbering, UNCHANGED <<sent, sendNext>>, Wire' \subseteq Wire,
           \A e \in Peer : held'[e] \subseteq held[e]
    PROVE  SendNumbered' /\ WireNumbered'
  BY NumberingParts DEF SendNumbered, WireNumbered

\* Passing up messages that carry the right numbers keeps the receive side
\* numbered.
LEMMA PassingUp ==
    ASSUME Numbering, UNCHANGED <<sent, sendNext>>, NEW e \in Peer, NEW slots, NEW ssl,
           DOMAIN slots \subseteq Nat,
           \A i \in DOMAIN slots : slots[i] \in Message,
           \A i \in DOMAIN slots : /\ i < sendNext[Other(e)]
                                   /\ slots[i] = sent[Other(e)][i + 1],
           UpSequenced(e, slots, ssl)
    PROVE  RecvNumbered'
<1>1. TypeOK /\ RecvNumbered
  BY NumberingParts
<1>m. PICK next \in Nat : MovedTo(e, slots, next)
  BY <1>1, UpSequencedFacts
<1>2. /\ next \in Nat
      /\ recvHead[e] <= next
      /\ \A i \in recvHead[e] .. next - 1 : i \in DOMAIN slots
      /\ recvHead' = [recvHead EXCEPT ![e] = next]
      /\ recvSlots' = [recvSlots EXCEPT ![e] =
                         [i \in DOMAIN slots \ (recvHead[e] .. next - 1) |-> slots[i]]]
      /\ Len(delivered'[e]) = Len(delivered[e]) + (next - recvHead[e])
      /\ delivered'[e] \in Seq(Message)
      /\ delivered' = [delivered EXCEPT ![e] = delivered'[e]]
      /\ \A i \in 1 .. Len(delivered[e]) : delivered'[e][i] = delivered[e][i]
      /\ \A i \in 1 .. next - recvHead[e] :
           delivered'[e][Len(delivered[e]) + i] = slots[recvHead[e] + i - 1]
  BY <1>m DEF MovedTo
<1>3. /\ recvHead \in [Peer -> Nat] /\ sendNext \in [Peer -> Nat]
      /\ DOMAIN recvSlots = Peer /\ DOMAIN delivered = Peer
      /\ Other(e) \in Peer
  BY <1>1, OtherPeer DEF TypeOK
<1>4. ASSUME NEW f \in Peer, f # e
      PROVE  recvHead'[f] = recvHead[f] /\ recvSlots'[f] = recvSlots[f]
             /\ delivered'[f] = delivered[f]
  BY <1>2, <1>3, <1>4
<1>5. /\ recvHead'[e] = next
      /\ recvSlots'[e] = [i \in DOMAIN slots \ (recvHead[e] .. next - 1) |-> slots[i]]
      /\ Len(delivered[e]) = recvHead[e]
  BY <1>1, <1>2, <1>3 DEF RecvNumbered
<1>6. Len(delivered'[e]) = next
  BY <1>2, <1>3, <1>5
<1>7. next <= sendNext[Other(e)]
  <2>1. CASE next = recvHead[e]
    BY <1>1, <2>1 DEF RecvNumbered
  <2>2. CASE next # recvHead[e]
    <3>1. next - 1 \in recvHead[e] .. next - 1
      BY <1>2, <1>3, <2>2
    <3>2. next - 1 < sendNext[Other(e)]
      BY <1>2, <3>1
    <3> QED BY <1>3, <3>2
  <2> QED BY <2>1, <2>2
<1>8. ASSUME NEW i \in 1 .. next
      PROVE  delivered'[e][i] = sent[Other(e)][i]
  <2>1. CASE i <= recvHead[e]
    <3>1. i \in 1 .. recvHead[e]
      BY <1>3, <2>1
    <3> QED BY <1>1, <1>2, <1>5, <3>1 DEF RecvNumbered
  <2>2. CASE ~(i <= recvHead[e])
    <3> DEFINE k == i - recvHead[e]
    <3>1. /\ k \in 1 .. next - recvHead[e]
          /\ recvHead[e] + k = i
          /\ recvHead[e] + k - 1 \in recvHead[e] .. next - 1
          /\ (recvHead[e] + k - 1) + 1 = i
      BY <1>3, <2>2
    <3> HIDE DEF k
    <3>2. delivered'[e][recvHead[e] + k] = slots[recvHead[e] + k - 1]
      BY <1>2, <1>5, <3>1
    <3>3. slots[recvHead[e] + k - 1] = sent[Other(e)][(recvHead[e] + k - 1) + 1]
      BY <1>2, <3>1
    <3> QED BY <3>1, <3>2, <3>3
  <2> QED BY <2>1, <2>2
<1>9. ASSUME NEW i \in DOMAIN recvSlots'[e]
      PROVE  i < sendNext[Other(e)] /\ recvSlots'[e][i] = sent[Other(e)][i + 1]
  BY <1>5
<1>10. \A f \in Peer : f # e =>
         /\ Len(delivered'[f]) = recvHead'[f]
         /\ recvHead'[f] <= sendNext[Other(f)]
         /\ \A i \in 1 .. recvHead'[f] : delivered'[f][i] = sent[Other(f)][i]
         /\ \A i \in DOMAIN recvSlots'[f] : /\ i < sendNext[Other(f)]
                                            /\ recvSlots'[f][i] = sent[Other(f)][i + 1]
  BY <1>1, <1>4 DEF RecvNumbered
<1>11. /\ Len(delivered'[e]) = recvHead'[e]
       /\ recvHead'[e] <= sendNext[Other(e)]
       /\ \A i \in 1 .. recvHead'[e] : delivered'[e][i] = sent[Other(e)][i]
       /\ \A i \in DOMAIN recvSlots'[e] : /\ i < sendNext[Other(e)]
                                          /\ recvSlots'[e][i] = sent[Other(e)][i + 1]
  BY <1>5, <1>6, <1>7, <1>8, <1>9
<1> QED BY <1>10, <1>11 DEF RecvNumbered

\* A flush numbers new messages and puts each on the wire with its number.
LEMMA FlushNumbering ==
    ASSUME Numbering, NEW e \in Peer, Flush(e)
    PROVE  RecvNumbered' /\ SendNumbered' /\ WireNumbered'
<1> DEFINE n == FlushCount(e)
           q == FlushQueue(e)
<1>1. TypeOK /\ RecvNumbered /\ SendNumbered /\ WireNumbered
  BY NumberingParts
<1>2. /\ sendNext' = [sendNext EXCEPT ![e] = @ + n]
      /\ sent' = [sent EXCEPT ![e] = @ \o SubSeq(q, 1, n)]
      /\ held' = [held EXCEPT ![e] = @ \cup FlushCarriers(e)]
      /\ net' = net \cup FlushCarriers(e) \cup FlushAckOnlys(e)
      /\ UNCHANGED <<recvHead, recvSlots, delivered>>
  BY FlushDefined DEF recvVars
<1>3. n \in Nat /\ q \in Seq(Message) /\ n <= Len(q)
  BY <1>1, FlushTypes
<1>4. /\ \A p \in FlushCarriers(e) :
           /\ p.src = e /\ ~p.ack
           /\ p.id \in sendNext[e] .. sendNext[e] + n - 1
           /\ p.msg = q[p.id - sendNext[e] + 1]
      /\ \A p \in FlushAckOnlys(e) : p.ack
  BY <1>1, FlushPackets
<1> HIDE DEF n, q
<1>5. /\ sent \in [Peer -> Seq(Message)] /\ sendNext \in [Peer -> Nat]
      /\ DOMAIN held = Peer
      /\ Len(sent[e]) = sendNext[e]
  BY <1>1 DEF TypeOK, SendNumbered
<1>6. /\ SubSeq(q, 1, n) \in Seq(Message)
      /\ Len(SubSeq(q, 1, n)) = n
      /\ \A i \in 1 .. n : SubSeq(q, 1, n)[i] = q[i]
  BY <1>3
<1>7. /\ Len(sent'[e]) = sendNext[e] + n
      /\ \A i \in 1 .. sendNext[e] : sent'[e][i] = sent[e][i]
      /\ \A i \in 1 .. n : sent'[e][sendNext[e] + i] = q[i]
  <2>1. sent'[e] = sent[e] \o SubSeq(q, 1, n)
    BY <1>2, <1>5
  <2>2. /\ Len(sent'[e]) = sendNext[e] + n
        /\ \A i \in 1 .. sendNext[e] + n : sent'[e][i] =
             IF i <= sendNext[e] THEN sent[e][i] ELSE SubSeq(q, 1, n)[i - sendNext[e]]
    BY <1>5, <1>6, <2>1, ConcatProperties
  <2>3. \A i \in 1 .. sendNext[e] : i \in 1 .. sendNext[e] + n /\ i <= sendNext[e]
    BY <1>3, <1>5
  <2>4. \A i \in 1 .. n : /\ sendNext[e] + i \in 1 .. sendNext[e] + n
                          /\ ~(sendNext[e] + i <= sendNext[e])
                          /\ (sendNext[e] + i) - sendNext[e] = i
    BY <1>3, <1>5
  <2>5. \A i \in 1 .. n : sent'[e][sendNext[e] + i] = q[i]
    BY <1>6, <2>2, <2>4
  <2> QED BY <2>2, <2>3, <2>5
<1>8. /\ sendNext'[e] = sendNext[e] + n
      /\ \A f \in Peer : f # e => sendNext'[f] = sendNext[f] /\ sent'[f] = sent[f]
                                  /\ held'[f] = held[f]
      /\ held'[e] = held[e] \cup FlushCarriers(e)
  BY <1>2, <1>5
<1>9. \A f \in Peer : /\ sendNext[f] <= sendNext'[f]
                      /\ \A i \in 1 .. sendNext[f] : sent'[f][i] = sent[f][i]
  BY <1>3, <1>5, <1>7, <1>8
<1>0. \A f \in Peer : sendNext'[f] \in Nat
  <2>1. sendNext[e] + n \in Nat
    BY <1>3, <1>5
  <2>2. \A f \in Peer : f # e => sendNext[f] \in Nat
    BY <1>5
  <2> QED BY <1>8, <2>1, <2>2
<1>10. RecvNumbered'
  <2> SUFFICES ASSUME NEW f \in Peer
               PROVE  /\ Len(delivered[f]) = recvHead[f]
                      /\ recvHead[f] <= sendNext'[Other(f)]
                      /\ \A i \in 1 .. recvHead[f] : delivered[f][i] = sent'[Other(f)][i]
                      /\ \A i \in DOMAIN recvSlots[f] :
                           /\ i < sendNext'[Other(f)]
                           /\ recvSlots[f][i] = sent'[Other(f)][i + 1]
    BY <1>2 DEF RecvNumbered
  <2>1. /\ Len(delivered[f]) = recvHead[f]
        /\ recvHead[f] <= sendNext[Other(f)]
        /\ \A i \in 1 .. recvHead[f] : delivered[f][i] = sent[Other(f)][i]
        /\ \A i \in DOMAIN recvSlots[f] : /\ i < sendNext[Other(f)]
                                          /\ recvSlots[f][i] = sent[Other(f)][i + 1]
    BY <1>1 DEF RecvNumbered
  <2>2. /\ Other(f) \in Peer /\ recvHead[f] \in Nat
        /\ sendNext[Other(f)] \in Nat /\ sendNext'[Other(f)] \in Nat
        /\ DOMAIN recvSlots[f] \subseteq Nat
    BY <1>0, <1>1, <1>5, OtherPeer DEF TypeOK
  <2>3. \A i \in 1 .. recvHead[f] : i \in 1 .. sendNext[Other(f)]
    BY <2>1, <2>2
  <2>4. \A i \in DOMAIN recvSlots[f] : i + 1 \in 1 .. sendNext[Other(f)]
    BY <2>1, <2>2
  <2> QED BY <1>9, <2>1, <2>2, <2>3, <2>4
<1>11. SendNumbered'
  BY <1>1, <1>4, <1>7, <1>8 DEF SendNumbered
<1>12. WireNumbered'
  <2> SUFFICES ASSUME NEW p \in Wire', ~p.ack
               PROVE  p.id < sendNext'[p.src] /\ p.msg = sent'[p.src][p.id + 1]
    BY DEF WireNumbered
  <2>1. p \in Wire \/ p \in FlushCarriers(e) \/ p \in FlushAckOnlys(e)
    BY <1>2, <1>8 DEF Wire
  <2>2. CASE p \in Wire
    <3>1. p \in Packet
      BY <1>1, <2>2 DEF Wire, TypeOK
    <3>2. p.src \in Peer /\ p.id \in Nat
      BY <3>1 DEF Packet
    <3>3. p.id < sendNext[p.src] /\ p.msg = sent[p.src][p.id + 1]
      BY <1>1, <2>2 DEF WireNumbered
    <3>4. p.id + 1 \in 1 .. sendNext[p.src] /\ sendNext[p.src] \in Nat
      BY <1>5, <3>2, <3>3
    <3>5. sendNext'[p.src] \in Nat
      BY <1>0, <3>2
    <3> QED BY <1>9, <3>2, <3>3, <3>4, <3>5
  <2>3. CASE p \in FlushCarriers(e)
    <3> DEFINE i == p.id - sendNext[e] + 1
    <3>0. p.id \in sendNext[e] .. sendNext[e] + n - 1 /\ sendNext[e] \in Nat
      BY <1>4, <1>5, <2>3
    <3>1. /\ i \in 1 .. n /\ sendNext[e] + i = p.id + 1
          /\ p.id < sendNext[e] + n
      BY <1>3, <3>0
    <3>2. p.src = e /\ p.msg = q[i]
      BY <1>4, <2>3
    <3> HIDE DEF i
    <3> QED BY <1>7, <1>8, <3>1, <3>2
  <2> QED BY <1>4, <2>1, <2>2, <2>3
<1> QED BY <1>10, <1>11, <1>12

\* Taking acknowledgements off the wire leaves fewer packets to be resent.
LEMMA AcknowledgeWire ==
    ASSUME TypeOK, NEW e \in Peer, NEW p \in net, Acknowledge(e, AcksOf(p)), UNCHANGED net
    PROVE  Wire' \subseteq Wire /\ \A f \in Peer : held'[f] \subseteq held[f]
<1>1. AcksOf(p) \in SUBSET Nat
  BY AcksOfType DEF TypeOK
<1>2. held' = [held EXCEPT ![e] = {q \in held[e] : q.id \notin AcksOf(p)}]
  BY <1>1, AcknowledgeFacts
<1>3. \A f \in Peer : held'[f] \subseteq held[f]
  BY <1>2 DEF TypeOK
<1> QED BY <1>3 DEF Wire

LEMMA NumberingStep == Numbering /\ [Next]_vars => Numbering'
<1> SUFFICES ASSUME Numbering, [Next]_vars PROVE Numbering'
  OBVIOUS
<1>1. TypeOK /\ RecvNumbered /\ SendNumbered /\ WireNumbered
  BY NumberingParts
<1>2. TypeOK'
  BY <1>1, TypeStep
<1> SUFFICES RecvNumbered' /\ SendNumbered' /\ WireNumbered'
  BY <1>2, NumberingPartsNext
<1> DEFINE Goal == RecvNumbered' /\ SendNumbered' /\ WireNumbered'
<1>3. ASSUME UNCHANGED <<sent, sendNext, recvHead, recvSlots, delivered>>
      PROVE  RecvNumbered'
  BY <1>1, <1>3 DEF RecvNumbered
<1>4. ASSUME UNCHANGED <<held, net>>
      PROVE  Wire' \subseteq Wire /\ \A e \in Peer : held'[e] \subseteq held[e]
  BY <1>4 DEF Wire
<1>5. ASSUME NEW e \in Peer, NEW d \in Payload, RawSend(e, d) \/ AppSend(e, d) PROVE Goal
  BY <1>3, <1>4, <1>5, NothingNew DEF RawSend, AppSend, recvVars
<1>6. ASSUME NEW e \in Peer, StartHandshake(e) PROVE Goal
  <2>1. /\ UNCHANGED <<sent, sendNext, held, net>>
        /\ UpSequenced(e, recvSlots[e], TRUE)
    BY <1>6 DEF StartHandshake, sendVars
  <2>2. /\ DOMAIN recvSlots[e] \subseteq Nat
        /\ \A i \in DOMAIN recvSlots[e] : recvSlots[e][i] \in Message
    BY <1>1 DEF TypeOK
  <2>3. \A i \in DOMAIN recvSlots[e] : /\ i < sendNext[Other(e)]
                                       /\ recvSlots[e][i] = sent[Other(e)][i + 1]
    BY <1>1 DEF RecvNumbered
  <2>4. RecvNumbered'
    BY <2>1, <2>2, <2>3, PassingUp
  <2> QED BY <1>4, <2>1, <2>4, NothingNew
<1>7. ASSUME NEW e \in Peer, Flush(e) PROVE Goal
  BY <1>7, FlushNumbering
<1>8. ASSUME NEW e \in Peer, Retransmit(e) PROVE Goal
  <2>1. PICK due \in SUBSET held[e] : net' = net \cup due
    BY <1>8 DEF Retransmit
  <2>2. UNCHANGED <<sent, sendNext, held, recvHead, recvSlots, delivered>>
    BY <1>8 DEF Retransmit, sendVars, recvVars
  <2>3. Wire' \subseteq Wire
    BY <2>1, <2>2 DEF Wire
  <2> QED BY <1>3, <2>2, <2>3, NothingNew
<1>9. ASSUME NEW e \in Peer, Invalidate(e) \/ Silence(e) PROVE Goal
  BY <1>3, <1>4, <1>9, NothingNew DEF Invalidate, Silence, sendVars, recvVars
<1>10. ASSUME NEW e \in Peer, NEW p \in net,
              RecvAck(e, p) \/ RecvOutside(e, p) PROVE Goal
  <2>1. /\ UNCHANGED <<sent, sendNext, net, recvHead, recvSlots, delivered>>
        /\ Acknowledge(e, AcksOf(p))
    BY <1>10 DEF RecvAck, RecvOutside, Arrives, recvVars
  <2>2. Wire' \subseteq Wire /\ \A f \in Peer : held'[f] \subseteq held[f]
    BY <1>1, <2>1, AcknowledgeWire
  <2> QED BY <1>3, <2>1, <2>2, NothingNew
<1>11. ASSUME NEW e \in Peer, NEW p \in net, RecvInWindow(e, p) PROVE Goal
  <2> DEFINE slots == [i \in DOMAIN recvSlots[e] \cup {p.id} |->
                         IF i = p.id THEN p.msg ELSE recvSlots[e][i]]
  <2>1. /\ UNCHANGED <<sent, sendNext, net>>
        /\ Acknowledge(e, AcksOf(p))
        /\ UpSequenced(e, slots, started[e])
        /\ ~p.ack /\ p.src = Other(e)
    BY <1>11 DEF RecvInWindow, Arrives
  <2>2. p.id \in Nat /\ p.msg \in Message
    BY <1>1, <2>1 DEF TypeOK, Packet
  <2>3. p.id < sendNext[Other(e)] /\ p.msg = sent[Other(e)][p.id + 1]
    BY <1>1, <2>1 DEF WireNumbered, Wire
  <2>4. DOMAIN slots \subseteq Nat /\ \A i \in DOMAIN slots : slots[i] \in Message
    BY <1>1, <2>2 DEF TypeOK
  <2>5. \A i \in DOMAIN slots : /\ i < sendNext[Other(e)]
                                /\ slots[i] = sent[Other(e)][i + 1]
    BY <1>1, <2>3 DEF RecvNumbered
  <2> HIDE DEF slots
  <2>6. RecvNumbered'
    BY <2>1, <2>4, <2>5, PassingUp
  <2>7. Wire' \subseteq Wire /\ \A f \in Peer : held'[f] \subseteq held[f]
    BY <1>1, <2>1, AcknowledgeWire
  <2> QED BY <2>1, <2>6, <2>7, NothingNew
<1>12. ASSUME NEW e \in Peer, NEW p \in net, RecvReplayed(e, p) PROVE Goal
  BY <1>3, <1>4, <1>12, NothingNew DEF RecvReplayed, Arrives, sendVars, recvVars
<1>13. ASSUME NEW p \in net, Lose(p) PROVE Goal
  <2>1. UNCHANGED <<sent, sendNext, held, recvHead, recvSlots, delivered>>
    BY <1>13 DEF Lose, sendVars, recvVars
  <2>2. Wire' \subseteq Wire
    BY <1>13, <2>1 DEF Lose, Wire
  <2> QED BY <1>3, <2>1, <2>2, NothingNew
<1>14. CASE UNCHANGED vars
  BY <1>3, <1>4, <1>14, NothingNew DEF vars, sendVars, recvVars
<1> QED
  BY <1>5, <1>6, <1>7, <1>8, <1>9, <1>10, <1>11, <1>12, <1>13, <1>14
  DEF Next, PeerStep, NetRecv

LEMMA NumberingOrders == Numbering => InOrderExactlyOnce
<1> SUFFICES ASSUME Numbering, NEW e \in Peer
             PROVE  /\ Len(delivered[e]) <= Len(sent[Other(e)])
                    /\ delivered[e] = SubSeq(sent[Other(e)], 1, Len(delivered[e]))
  BY DEF InOrderExactlyOnce
<1> DEFINE from == sent[Other(e)]
           n    == Len(delivered[e])
<1>1. TypeOK /\ RecvNumbered /\ SendNumbered
  BY NumberingParts
<1>a. Other(e) \in Peer
  BY OtherPeer
<1>b. /\ delivered[e] \in Seq(Message) /\ from \in Seq(Message)
      /\ recvHead[e] \in Nat
  BY <1>1, <1>a DEF TypeOK
<1>c. /\ n = recvHead[e] /\ recvHead[e] <= sendNext[Other(e)]
      /\ \A i \in 1 .. recvHead[e] : delivered[e][i] = from[i]
  BY <1>1 DEF RecvNumbered
<1>d. Len(from) = sendNext[Other(e)]
  BY <1>1, <1>a DEF SendNumbered
<1> HIDE DEF from, n
<1>2. /\ delivered[e] \in Seq(Message) /\ from \in Seq(Message)
      /\ n <= Len(from) /\ n \in Nat
      /\ \A i \in 1 .. n : delivered[e][i] = from[i]
  BY <1>b, <1>c, <1>d
<1>3. /\ SubSeq(from, 1, n) \in Seq(Message)
      /\ Len(SubSeq(from, 1, n)) = n
      /\ \A i \in 1 .. n : SubSeq(from, 1, n)[i] = from[i]
  BY <1>2
<1>4. delivered[e] = SubSeq(from, 1, n)
  BY <1>2, <1>3, SeqEqual DEF n
<1> QED BY <1>2, <1>4 DEF from, n

\* Whatever the network does, and after any silence, a stack passes up a prefix
\* of what the other numbered, for every window size and bound.
THEOREM InOrder == Spec => []InOrderExactlyOnce
<1>1. Spec => []Numbering
  BY NumberingInit, NumberingStep, PTL DEF Spec
<1> QED BY <1>1, NumberingOrders, PTL

-----------------------------------------------------------------------------

\* The parts of Evidence.
AcksEvident ==
    \A e \in Peer : \A i \in 1 .. Len(xmitAcks[e]) : Got(e, xmitAcks[e][i])
HeldEvident ==
    \A e \in Peer : \A id \in 0 .. sendNext[e] - 1 :
      (\E p \in held[e] : p.id = id) \/ Got(Other(e), id)
WireEvident == \A p \in Wire : \A a \in AcksOf(p) : Got(p.src, a)
SeenEvident ==
    /\ \A e \in Peer : /\ pidFloor[e] = 0
                       /\ PacketIds => \A k \in pidSeen[e] : k <= pidSent[Other(e)]
    /\ PacketIds =>
         /\ \A p \in Wire : 1 <= p.pid /\ p.pid <= pidSent[p.src]
         /\ \A p, q \in Wire : p.src = q.src /\ p.pid = q.pid => p = q
         /\ \A p \in Wire : ~p.ack /\ p.pid \in pidSeen[Other(p.src)]
                              => Got(Other(p.src), p.id)

LEMMA EvidenceParts ==
    Evidence <=> AcksEvident /\ HeldEvident /\ WireEvident /\ SeenEvident
  BY DEF Evidence, AcksEvident, HeldEvident, WireEvident, SeenEvident

LEMMA EvidencePartsNext ==
    Evidence' <=> AcksEvident' /\ HeldEvident' /\ WireEvident' /\ SeenEvident'
  BY DEF Evidence, AcksEvident, HeldEvident, WireEvident, SeenEvident

LEMMA EvidenceInit == Init => Evidence
<1> SUFFICES ASSUME Init PROVE Evidence
  OBVIOUS
<1>1. AcksEvident
  BY DEF Init, AcksEvident
<1>2. HeldEvident
  BY DEF Init, HeldEvident
<1>3. Wire = {}
  BY DEF Init, Wire
<1>4. WireEvident
  BY <1>3 DEF WireEvident
<1>5. SeenEvident
  BY <1>3 DEF SeenEvident, Init
<1> QED BY <1>1, <1>2, <1>4, <1>5, EvidenceParts

\* What has been got stays so.
Kept == \A f \in Peer : \A id \in Nat : Got(f, id) => Got(f, id)'

LEMMA WireType == TypeOK => \A p \in Wire : /\ p \in Packet
                                            /\ p.src \in Peer
                                            /\ ~p.ack => p.id \in Nat
                                            /\ p.pid \in Nat
                                            /\ AcksOf(p) \in SUBSET Nat
<1> SUFFICES ASSUME TypeOK, NEW p \in Wire
             PROVE  /\ p \in Packet
                    /\ p.src \in Peer
                    /\ ~p.ack => p.id \in Nat
                    /\ p.pid \in Nat
                    /\ AcksOf(p) \in SUBSET Nat
  OBVIOUS
<1>1. p \in Packet
  BY DEF Wire, TypeOK
<1> QED BY <1>1, AcksOfType DEF Packet

\* Passing messages up forgets none of them.
LEMMA MovedKeeps ==
    ASSUME TypeOK, NEW e \in Peer, NEW slots, NEW next \in Nat,
           DOMAIN recvSlots[e] \subseteq DOMAIN slots, MovedTo(e, slots, next)
    PROVE  /\ Kept
           /\ \A id \in DOMAIN slots \cap Nat : Got(e, id)'
<1>1. /\ recvHead \in [Peer -> Nat] /\ DOMAIN recvSlots = Peer
  BY DEF TypeOK
<1>2. /\ recvHead[e] <= next
      /\ recvHead' = [recvHead EXCEPT ![e] = next]
      /\ recvSlots' = [recvSlots EXCEPT ![e] =
                         [i \in DOMAIN slots \ (recvHead[e] .. next - 1) |-> slots[i]]]
  BY DEF MovedTo
<1>3. \A f \in Peer : f # e => recvHead'[f] = recvHead[f] /\ recvSlots'[f] = recvSlots[f]
  BY <1>1, <1>2
<1>4. /\ recvHead'[e] = next
      /\ DOMAIN recvSlots'[e] = DOMAIN slots \ (recvHead[e] .. next - 1)
  BY <1>1, <1>2
<1>5. ASSUME NEW id \in Nat, id < recvHead[e] \/ id \in DOMAIN slots
      PROVE  id < recvHead'[e] \/ id \in DOMAIN recvSlots'[e]
  <2>1. recvHead[e] \in Nat
    BY <1>1
  <2>2. CASE id < next
    BY <1>4, <2>2
  <2>3. CASE ~(id < next)
    <3>1. ~(id < recvHead[e]) /\ id \notin recvHead[e] .. next - 1
      BY <1>2, <2>1, <2>3
    <3> QED BY <1>4, <1>5, <3>1
  <2> QED BY <2>2, <2>3
<1> QED BY <1>3, <1>5 DEF Kept, Got

\* A step that numbers nothing keeps the evidence, when what it acknowledges,
\* forgets and remembers is something the other peer, or this one, has got.
LEMMA EvidenceKept ==
    ASSUME TypeOK, Evidence, Kept, Wire' \subseteq Wire,
           UNCHANGED <<sendNext, pidSent, pidFloor>>,
           AcksEvident',
           \A f \in Peer : \A p \in held[f] : p \in held'[f] \/ Got(Other(f), p.id),
           \A f \in Peer : \A k \in pidSeen'[f] :
              \/ k \in pidSeen[f]
              \/ \E p \in Wire : /\ p.src = Other(f) /\ p.pid = k
                                 /\ ~p.ack => Got(f, p.id)'
    PROVE  Evidence'
<1>1. AcksEvident /\ HeldEvident /\ WireEvident /\ SeenEvident
  BY EvidenceParts
<1>2. \A p \in Wire : /\ p.src \in Peer
                      /\ ~p.ack => p.id \in Nat
                      /\ AcksOf(p) \in SUBSET Nat
  BY WireType
<1>3. AcksEvident'
  BY DEF AcksEvident
<1>4. HeldEvident'
  <2> SUFFICES ASSUME NEW f \in Peer, NEW id \in 0 .. sendNext[f] - 1
               PROVE  (\E p \in held'[f] : p.id = id) \/ Got(Other(f), id)'
    BY DEF HeldEvident
  <2>1. id \in Nat /\ Other(f) \in Peer
    BY OtherPeer DEF TypeOK
  <2>2. (\E p \in held[f] : p.id = id) \/ Got(Other(f), id)
    BY <1>1 DEF HeldEvident
  <2>3. CASE Got(Other(f), id)
    BY <2>1, <2>3 DEF Kept
  <2>4. CASE \E p \in held[f] : p.id = id
    <3>1. PICK p \in held[f] : p.id = id
      BY <2>4
    <3>2. p \in held'[f] \/ Got(Other(f), id)
      BY <3>1
    <3> QED BY <2>1, <3>1, <3>2 DEF Kept
  <2> QED BY <2>2, <2>3, <2>4
<1>5. WireEvident'
  <2> SUFFICES ASSUME NEW p \in Wire, NEW a \in AcksOf(p)
               PROVE  Got(p.src, a)'
    BY DEF WireEvident
  <2>1. Got(p.src, a) /\ a \in Nat /\ p.src \in Peer
    BY <1>1, <1>2 DEF WireEvident
  <2> QED BY <2>1 DEF Kept
<1>6. SeenEvident'
  <2>1. \A f \in Peer : pidFloor'[f] = 0
    BY <1>1 DEF SeenEvident
  <2>2. ASSUME PacketIds, NEW f \in Peer, NEW k \in pidSeen'[f]
        PROVE  k <= pidSent'[Other(f)]
    BY <1>1, <2>2 DEF SeenEvident
  <2>3. ASSUME PacketIds, NEW p \in Wire
        PROVE  1 <= p.pid /\ p.pid <= pidSent'[p.src]
    BY <1>1, <2>3 DEF SeenEvident
  <2>4. ASSUME PacketIds, NEW p \in Wire, NEW q \in Wire, p.src = q.src, p.pid = q.pid
        PROVE  p = q
    BY <1>1, <2>4 DEF SeenEvident
  <2>5. ASSUME PacketIds, NEW p \in Wire, ~p.ack, p.pid \in pidSeen'[Other(p.src)]
        PROVE  Got(Other(p.src), p.id)'
    <3> DEFINE f == Other(p.src)
    <3>1. f \in Peer /\ p.id \in Nat /\ p.src = Other(f)
      BY <1>2, <2>5, OtherPeer
    <3> HIDE DEF f
    <3>2. CASE p.pid \in pidSeen[f]
      <4>1. Got(f, p.id)
        BY <1>1, <2>5, <3>2 DEF SeenEvident, f
      <4> QED BY <3>1, <4>1 DEF Kept, f
    <3>3. CASE p.pid \notin pidSeen[f]
      <4>1. PICK q \in Wire : q.src = Other(f) /\ q.pid = p.pid /\ (~q.ack => Got(f, q.id)')
        BY <2>5, <3>1, <3>3 DEF f
      <4>2. q = p
        BY <2>4, <2>5, <3>1, <4>1
      <4> QED BY <2>5, <4>1, <4>2 DEF f
    <3> QED BY <3>2, <3>3
  <2> QED BY <2>1, <2>2, <2>3, <2>4, <2>5 DEF SeenEvident
<1> QED BY <1>4, <1>5, <1>6, EvidencePartsNext

\* Queueing the acknowledgement of a message that is there keeps the queues.
LEMMA QueueEvident ==
    ASSUME TypeOK, Evidence, Kept, NEW e \in Peer, NEW id \in Nat,
           QueueAck(e, id), Got(e, id)'
    PROVE  AcksEvident'
<1>1. AcksEvident /\ xmitAcks \in [Peer -> Seq(Nat)]
  BY EvidenceParts DEF TypeOK
<1>2. xmitAcks' = [xmitAcks EXCEPT ![e] = Append(xmitAcks[e], id)]
  BY DEF QueueAck
<1> SUFFICES ASSUME NEW f \in Peer, NEW i \in 1 .. Len(xmitAcks'[f])
             PROVE  Got(f, xmitAcks[f][i])'
  BY DEF AcksEvident
<1>3. CASE f # e
  <2>1. xmitAcks'[f] = xmitAcks[f]
    BY <1>1, <1>2, <1>3
  <2>2. Got(f, xmitAcks[f][i]) /\ xmitAcks[f][i] \in Nat
    BY <1>1, <2>1 DEF AcksEvident
  <2>3. \A n \in Nat : Got(f, n) => Got(f, n)'
    BY DEF Kept
  <2> QED BY <2>1, <2>2, <2>3 DEF Got
<1>4. CASE f = e
  <2>1. xmitAcks'[e] = Append(xmitAcks[e], id) /\ xmitAcks[e] \in Seq(Nat)
    BY <1>1, <1>2
  <2>2. CASE i <= Len(xmitAcks[e])
    <3>1. i \in 1 .. Len(xmitAcks[e]) /\ xmitAcks'[e][i] = xmitAcks[e][i]
      BY <1>4, <2>1, <2>2
    <3>2. Got(e, xmitAcks[e][i]) /\ xmitAcks[e][i] \in Nat
      BY <1>1, <3>1 DEF AcksEvident
    <3>3. \A n \in Nat : Got(e, n) => Got(e, n)'
      BY DEF Kept
    <3> QED BY <1>4, <3>1, <3>2, <3>3 DEF Got
  <2>3. CASE ~(i <= Len(xmitAcks[e]))
    <3>1. xmitAcks'[e][i] = id
      BY <1>4, <2>1, <2>3
    <3> QED BY <1>4, <3>1 DEF Got
  <2> QED BY <2>2, <2>3
<1> QED BY <1>3, <1>4

\* Handling the acknowledgements of a packet p forgets only what the other got.
LEMMA AcknowledgedWasGot ==
    ASSUME TypeOK, Evidence, NEW e \in Peer, NEW p \in net, p.src = Other(e),
           Acknowledge(e, AcksOf(p))
    PROVE  \A f \in Peer : \A q \in held[f] : q \in held'[f] \/ Got(Other(f), q.id)
<1>1. AcksOf(p) \in SUBSET Nat
  BY AcksOfType DEF TypeOK
<1>2. held' = [held EXCEPT ![e] = {q \in held[e] : q.id \notin AcksOf(p)}]
  BY <1>1, AcknowledgeFacts
<1>3. \A a \in AcksOf(p) : Got(Other(e), a)
  BY EvidenceParts DEF WireEvident, Wire
<1> QED BY <1>2, <1>3 DEF TypeOK

LEMMA FlushEvidence ==
    ASSUME Numbering, Evidence, NEW e \in Peer, Flush(e)
    PROVE  Evidence'
<1> DEFINE new == FlushCarriers(e) \cup FlushAckOnlys(e)
<1>1. /\ TypeOK /\ SendNumbered /\ AcksEvident /\ HeldEvident /\ WireEvident /\ SeenEvident
  BY NumberingParts, EvidenceParts
<1>2. /\ sendNext' = [sendNext EXCEPT ![e] = @ + FlushCount(e)]
      /\ held' = [held EXCEPT ![e] = @ \cup FlushCarriers(e)]
      /\ net' = net \cup FlushCarriers(e) \cup FlushAckOnlys(e)
      /\ xmitAcks' = [xmitAcks EXCEPT ![e] = <<>>]
      /\ pidSent' = [pidSent EXCEPT ![e] = IF PacketIds THEN @ + FlushTotal(e) ELSE @]
      /\ UNCHANGED <<recvHead, recvSlots, pidSeen, pidFloor>>
  BY FlushDefined DEF recvVars, pidVars
<1>3. /\ \A p \in new :
           /\ p.src = e
           /\ \A a \in AcksOf(p) : \E k \in 1 .. Len(xmitAcks[e]) : a = xmitAcks[e][k]
      /\ \A id \in sendNext[e] .. sendNext[e] + FlushCount(e) - 1 :
           \E p \in FlushCarriers(e) : p.id = id
      /\ PacketIds =>
           /\ \A p \in new : pidSent[e] < p.pid /\ p.pid <= pidSent[e] + FlushTotal(e)
           /\ \A p, q \in new : p.pid = q.pid => p = q
      /\ new \subseteq Packet
  BY <1>1, FlushPackets
<1>4. FlushTotal(e) \in Nat /\ FlushCount(e) \in Nat
  BY <1>1, FlushTypes
<1> HIDE DEF new
<1>5. /\ pidSent \in [Peer -> Nat] /\ sendNext \in [Peer -> Nat] /\ DOMAIN held = Peer
      /\ DOMAIN xmitAcks = Peer
  BY <1>1 DEF TypeOK
<1>6. \A p \in Wire' : p \in Wire \/ p \in new
  BY <1>2, <1>5 DEF Wire, new
<1>7. \A f, id : Got(f, id)' <=> Got(f, id)
  BY <1>2 DEF Got
<1>8. AcksEvident'
  <2>1. \A f \in Peer : f # e => xmitAcks'[f] = xmitAcks[f]
    BY <1>2, <1>5
  <2>2. xmitAcks'[e] = <<>>
    BY <1>2, <1>5
  <2> QED BY <1>1, <1>2, <2>1, <2>2 DEF AcksEvident, Got
<1>9. HeldEvident'
  <2> SUFFICES ASSUME NEW f \in Peer, NEW id \in 0 .. sendNext'[f] - 1
               PROVE  (\E p \in held'[f] : p.id = id) \/ Got(Other(f), id)'
    BY DEF HeldEvident
  <2>1. held[f] \subseteq held'[f]
    BY <1>2, <1>5
  <2>2. CASE id \in 0 .. sendNext[f] - 1
    BY <1>1, <1>7, <2>1, <2>2 DEF HeldEvident
  <2>3. CASE id \notin 0 .. sendNext[f] - 1
    <3>1. f = e
      BY <1>2, <1>5, <2>3
    <3>2. sendNext'[e] = sendNext[e] + FlushCount(e)
      BY <1>2, <1>5
    <3>3. id \in sendNext[e] .. sendNext[e] + FlushCount(e) - 1
      BY <1>4, <1>5, <2>3, <3>1, <3>2
    <3>4. FlushCarriers(e) \subseteq held'[e]
      BY <1>2, <1>5
    <3> QED BY <1>3, <3>1, <3>3, <3>4
  <2> QED BY <2>2, <2>3
<1>10. WireEvident'
  <2>1. ASSUME NEW p \in new, NEW a \in AcksOf(p) PROVE Got(p.src, a)
    BY <1>1, <1>3 DEF AcksEvident
  <2> QED BY <1>1, <1>6, <1>7, <2>1 DEF WireEvident
<1>11. SeenEvident'
  <2>1. CASE ~PacketIds
    BY <1>1, <1>2, <2>1 DEF SeenEvident
  <2>2. CASE PacketIds
    <3>1. /\ \A f \in Peer : pidFloor[f] = 0 /\ \A k \in pidSeen[f] : k <= pidSent[Other(f)]
          /\ \A p \in Wire : 1 <= p.pid /\ p.pid <= pidSent[p.src]
          /\ \A p, q \in Wire : p.src = q.src /\ p.pid = q.pid => p = q
          /\ \A p \in Wire : ~p.ack /\ p.pid \in pidSeen[Other(p.src)]
                                => Got(Other(p.src), p.id)
      BY <1>1, <2>2 DEF SeenEvident
    <3>2. /\ \A f \in Peer : /\ pidSent'[f] \in Nat
                             /\ pidSent[f] <= pidSent'[f]
          /\ pidSent'[e] = pidSent[e] + FlushTotal(e)
      BY <1>2, <1>4, <1>5, <2>2
    <3>3. \A p \in new : /\ p.src = e /\ p.pid \in Nat
                         /\ pidSent[e] < p.pid /\ p.pid <= pidSent'[e]
                         /\ p.pid \notin pidSeen[Other(e)]
      <4>1. \A p \in new : p.pid \in Nat
        BY <1>3 DEF Packet
      <4>2. \A k \in pidSeen[Other(e)] : k \in Nat /\ k <= pidSent[e]
        BY <1>1, <3>1, OtherPeer DEF TypeOK
      <4> QED BY <1>3, <1>5, <2>2, <3>2, <4>1, <4>2
    <3>4. \A p \in Wire : p.src \in Peer /\ p.pid \in Nat
      BY <1>1, WireType
    <3>5. ASSUME NEW f \in Peer, NEW k \in pidSeen[f] PROVE k <= pidSent'[Other(f)]
      <4>1. k \in Nat /\ k <= pidSent[Other(f)] /\ Other(f) \in Peer
        BY <1>1, <3>1, OtherPeer DEF TypeOK
      <4> QED BY <1>5, <3>2, <4>1
    <3>6. ASSUME NEW p \in Wire' PROVE 1 <= p.pid /\ p.pid <= pidSent'[p.src]
      <4>1. CASE p \in Wire
        <5>1. /\ 1 <= p.pid /\ p.pid <= pidSent[p.src] /\ p.src \in Peer /\ p.pid \in Nat
              /\ pidSent[p.src] <= pidSent'[p.src]
              /\ pidSent[p.src] \in Nat /\ pidSent'[p.src] \in Nat
          BY <1>5, <3>1, <3>2, <3>4, <4>1
        <5> QED BY <5>1
      <4>2. CASE p \in new
        BY <1>5, <3>3, <4>2
      <4> QED BY <1>6, <4>1, <4>2
    <3>7. ASSUME NEW p \in Wire, NEW q \in new, p.src = q.src PROVE p.pid # q.pid
      <4>1. p.pid \in Nat /\ p.pid <= pidSent[e]
        BY <3>1, <3>3, <3>4, <3>7
      <4> QED BY <1>5, <3>3, <4>1
    <3>8. ASSUME NEW p \in Wire', NEW q \in Wire', p.src = q.src, p.pid = q.pid PROVE p = q
      BY <1>3, <1>6, <2>2, <3>1, <3>7, <3>8
    <3>9. ASSUME NEW p \in Wire', ~p.ack, p.pid \in pidSeen[Other(p.src)]
          PROVE  Got(Other(p.src), p.id)
      BY <1>6, <3>1, <3>3, <3>9
    <3> QED BY <1>2, <1>7, <3>1, <3>5, <3>6, <3>8, <3>9 DEF SeenEvident
  <2> QED BY <2>1, <2>2
<1> QED BY <1>8, <1>9, <1>10, <1>11, EvidencePartsNext

\* A floor once raised is never lowered.
LEMMA QuietBefore ==
    Numbering /\ [Next]_vars /\ Quiet' => Quiet
<1> SUFFICES ASSUME TypeOK, [Next]_vars, Quiet', NEW e \in Peer PROVE silences[e] = 0
  BY NumberingParts DEF Quiet
<1>1. silences[e] \in Nat /\ silences'[e] = 0
  BY DEF TypeOK, Quiet
<1>2. ASSUME NEW f \in Peer, Silence(f) PROVE silences' = [silences EXCEPT ![f] = @ + 1]
  BY <1>2 DEF Silence
<1>3. ASSUME NEW f \in Peer, Silence(f) PROVE silences[e] = 0
  BY <1>1, <1>2, <1>3 DEF TypeOK
<1>4. ASSUME UNCHANGED silences PROVE silences[e] = 0
  BY <1>1, <1>4
<1>5. ASSUME NEW f \in Peer, PeerStep(f), ~Silence(f) PROVE UNCHANGED silences
  BY <1>5 DEF PeerStep, RawSend, AppSend, StartHandshake, Flush, Retransmit, Invalidate,
              NetRecv, RecvAck, RecvInWindow, RecvOutside, RecvReplayed, Remember, pidVars
<1>6. ASSUME NEW p \in net, Lose(p) PROVE UNCHANGED silences
  BY <1>6 DEF Lose, pidVars
<1> QED BY <1>3, <1>4, <1>5, <1>6 DEF Next, vars, pidVars

LEMMA EvidenceStep ==
    Numbering /\ QuietEvidence /\ [Next]_vars => QuietEvidence'
<1> SUFFICES ASSUME Numbering, Evidence, [Next]_vars, Quiet' PROVE Evidence'
  <2>1. Numbering /\ [Next]_vars /\ Quiet' => Quiet
    BY QuietBefore
  <2> QED BY <2>1 DEF QuietEvidence
<1>1. TypeOK /\ AcksEvident /\ SeenEvident
  BY NumberingParts, EvidenceParts
<1> DEFINE NothingForgotten ==
             \A f \in Peer : \A p \in held[f] : p \in held'[f] \/ Got(Other(f), p.id)
           NothingSeen == pidSeen' = pidSeen
           Same == /\ UNCHANGED <<sendNext, pidSent, pidFloor>>
                   /\ Wire' \subseteq Wire
<1>2. ASSUME UNCHANGED <<recvHead, recvSlots>>
      PROVE  Kept /\ (UNCHANGED xmitAcks => AcksEvident')
  BY <1>1, <1>2 DEF Kept, Got, AcksEvident
<1>3. ASSUME UNCHANGED <<held, net>>
      PROVE  Wire' \subseteq Wire /\ NothingForgotten
  BY <1>3 DEF Wire
<1>4. ASSUME UNCHANGED <<sendNext, pidSent, pidFloor, pidSeen, recvHead, recvSlots, xmitAcks>>,
             Wire' \subseteq Wire, NothingForgotten
      PROVE  Evidence'
  BY <1>1, <1>2, <1>4, EvidenceKept
<1>5. ASSUME NEW e \in Peer, NEW d \in Payload, RawSend(e, d) \/ AppSend(e, d) PROVE Evidence'
  BY <1>3, <1>4, <1>5 DEF RawSend, AppSend, recvVars, pidVars
<1>6. ASSUME NEW e \in Peer, StartHandshake(e) PROVE Evidence'
  <2>1. /\ UNCHANGED <<sendNext, held, net, pidSeen, pidFloor, pidSent, xmitAcks>>
        /\ UpSequenced(e, recvSlots[e], TRUE)
    BY <1>6 DEF StartHandshake, sendVars, pidVars
  <2>2. /\ DOMAIN recvSlots[e] \subseteq Nat
        /\ \A i \in DOMAIN recvSlots[e] : recvSlots[e][i] \in Message
    BY <1>1 DEF TypeOK
  <2>3. PICK next \in Nat : MovedTo(e, recvSlots[e], next)
    BY <1>1, <2>1, <2>2, UpSequencedFacts
  <2>4. Kept
    BY <1>1, <2>3, MovedKeeps
  <2>5. \A f \in Peer : \A i \in 1 .. Len(xmitAcks[f]) : Got(f, xmitAcks[f][i])'
    <3> SUFFICES ASSUME NEW f \in Peer, NEW i \in 1 .. Len(xmitAcks[f])
                 PROVE  Got(f, xmitAcks[f][i])'
      OBVIOUS
    <3>m. xmitAcks[f] \in Seq(Nat)
      BY <1>1 DEF TypeOK
    <3>1. Got(f, xmitAcks[f][i]) /\ xmitAcks[f][i] \in Nat
      BY <1>1, <3>m DEF AcksEvident
    <3>2. \A n \in Nat : Got(f, n) => Got(f, n)'
      BY <2>4 DEF Kept
    <3> QED BY <2>1, <3>1, <3>2 DEF Got
  <2>6. AcksEvident'
    BY <2>1, <2>5 DEF AcksEvident
  <2> QED BY <1>1, <1>3, <2>1, <2>4, <2>6, EvidenceKept
<1>7. ASSUME NEW e \in Peer, Flush(e) PROVE Evidence'
  BY <1>7, FlushEvidence
<1>8. ASSUME NEW e \in Peer, Retransmit(e) PROVE Evidence'
  <2>1. PICK due \in SUBSET held[e] : net' = net \cup due
    BY <1>8 DEF Retransmit
  <2>2. UNCHANGED <<sendNext, held, pidSent, pidFloor, pidSeen, recvHead, recvSlots, xmitAcks>>
    BY <1>8 DEF Retransmit, sendVars, recvVars, pidVars
  <2>3. Wire' \subseteq Wire
    BY <2>1, <2>2 DEF Wire
  <2> QED BY <1>4, <2>2, <2>3
<1>9. ASSUME NEW e \in Peer, Invalidate(e) PROVE Evidence'
  BY <1>3, <1>4, <1>9 DEF Invalidate, sendVars, recvVars, pidVars
<1>10. ASSUME NEW e \in Peer, Silence(e) PROVE Evidence'
  <2>1. silences[e] \in Nat /\ silences'[e] = silences[e] + 1
    BY <1>1, <1>10 DEF Silence, TypeOK
  <2> QED BY <2>1 DEF Quiet
<1>11. ASSUME NEW e \in Peer, NEW p \in net, p.src = Other(e), Acknowledge(e, AcksOf(p)),
              UNCHANGED net
       PROVE  Wire' \subseteq Wire /\ NothingForgotten
  BY <1>1, <1>11, AcknowledgeWire, AcknowledgedWasGot
<1>12. ASSUME NEW e \in Peer, NEW p \in net, p.src = Other(e), Remember(e, p),
              ~p.ack => Got(e, p.id)'
       PROVE  \A f \in Peer : \A k \in pidSeen'[f] :
                \/ k \in pidSeen[f]
                \/ \E q \in Wire : /\ q.src = Other(f) /\ q.pid = k
                                   /\ ~q.ack => Got(f, q.id)'
  <2>1. p \in Wire
    BY DEF Wire
  <2>2. \A f \in Peer : \A k \in pidSeen'[f] : k \in pidSeen[f] \/ (f = e /\ k = p.pid)
    BY <1>1, <1>12 DEF Remember, TypeOK
  <2> QED BY <1>12, <2>1, <2>2
<1>13. ASSUME NEW e \in Peer, NEW p \in net, RecvAck(e, p) PROVE Evidence'
  <2>1. /\ UNCHANGED <<sendNext, pidSent, pidFloor, recvHead, recvSlots, xmitAcks, net>>
        /\ p.src = Other(e) /\ p.ack /\ Acknowledge(e, AcksOf(p)) /\ Remember(e, p)
    BY <1>13 DEF RecvAck, Arrives, recvVars
  <2>2. Wire' \subseteq Wire /\ NothingForgotten
    BY <1>11, <2>1
  <2>3. Kept /\ AcksEvident'
    BY <1>2, <2>1
  <2> QED BY <1>1, <1>12, <2>1, <2>2, <2>3, EvidenceKept
<1>14. ASSUME NEW e \in Peer, NEW p \in net, RecvInWindow(e, p) PROVE Evidence'
  <2> DEFINE slots == [i \in DOMAIN recvSlots[e] \cup {p.id} |->
                         IF i = p.id THEN p.msg ELSE recvSlots[e][i]]
  <2>1. /\ UNCHANGED <<sendNext, pidSent, pidFloor, net>>
        /\ p.src = Other(e) /\ ~p.ack /\ Acknowledge(e, AcksOf(p)) /\ Remember(e, p)
        /\ QueueAck(e, p.id)
        /\ UpSequenced(e, slots, started[e])
    BY <1>14 DEF RecvInWindow, Arrives
  <2>2. p.id \in Nat /\ p.msg \in Message
    BY <1>1, <2>1 DEF TypeOK, Packet
  <2>3. DOMAIN slots \subseteq Nat /\ \A i \in DOMAIN slots : slots[i] \in Message
    BY <1>1, <2>2 DEF TypeOK
  <2>4. p.id \in DOMAIN slots /\ DOMAIN recvSlots[e] \subseteq DOMAIN slots
    OBVIOUS
  <2> HIDE DEF slots
  <2>5. PICK next \in Nat : MovedTo(e, slots, next)
    BY <1>1, <2>1, <2>3, UpSequencedFacts
  <2>6. Kept /\ \A id \in DOMAIN slots \cap Nat : Got(e, id)'
    BY <1>1, <2>4, <2>5, MovedKeeps
  <2>7. Got(e, p.id)'
    BY <2>2, <2>4, <2>6
  <2>8. AcksEvident'
    BY <1>1, <2>1, <2>2, <2>6, <2>7, QueueEvident
  <2>9. Wire' \subseteq Wire /\ NothingForgotten
    BY <1>11, <2>1
  <2>10. \A f \in Peer : \A k \in pidSeen'[f] :
           \/ k \in pidSeen[f]
           \/ \E q \in Wire : /\ q.src = Other(f) /\ q.pid = k
                              /\ ~q.ack => Got(f, q.id)'
    BY <1>12, <2>1, <2>7
  <2> QED BY <1>1, <2>1, <2>6, <2>8, <2>9, <2>10, EvidenceKept
<1>15. ASSUME NEW e \in Peer, NEW p \in net, RecvOutside(e, p) PROVE Evidence'
  <2>1. /\ UNCHANGED <<sendNext, pidSent, pidFloor, pidSeen, recvHead, recvSlots, net>>
        /\ p.src = Other(e) /\ ~p.ack /\ Acknowledge(e, AcksOf(p))
        /\ IF p.id < recvHead[e] THEN QueueAck(e, p.id) ELSE UNCHANGED xmitAcks
    BY <1>15 DEF RecvOutside, Arrives, recvVars, pidVars
  <2>2. Wire' \subseteq Wire /\ NothingForgotten
    BY <1>11, <2>1
  <2>3. Kept /\ p.id \in Nat
    BY <1>1, <1>2, <2>1 DEF TypeOK, Packet
  <2>4. AcksEvident'
    <3>1. CASE p.id < recvHead[e]
      <4>1. Got(e, p.id)'
        BY <2>1, <3>1 DEF Got
      <4> QED BY <1>1, <2>1, <2>3, <3>1, <4>1, QueueEvident
    <3>2. CASE ~(p.id < recvHead[e])
      BY <1>2, <2>1, <3>2
    <3> QED BY <3>1, <3>2
  <2> QED BY <1>1, <2>1, <2>2, <2>3, <2>4, EvidenceKept
<1>16. ASSUME NEW e \in Peer, NEW p \in net, RecvReplayed(e, p) PROVE Evidence'
  <2>1. /\ UNCHANGED <<sendNext, held, pidSent, pidFloor, pidSeen, recvHead, recvSlots, net>>
        /\ p.src = Other(e) /\ ~PidOk(e, p)
        /\ IF p.ack THEN UNCHANGED xmitAcks ELSE QueueAck(e, p.id)
    BY <1>16 DEF RecvReplayed, Arrives, sendVars, recvVars, pidVars
  <2>2. Wire' \subseteq Wire /\ NothingForgotten
    BY <1>3, <2>1
  <2>3. Kept
    BY <1>2, <2>1
  <2>4. ASSUME ~p.ack PROVE Got(e, p.id)' /\ p.id \in Nat
    <3>1. p \in Wire /\ p.pid \in Nat /\ p.id \in Nat
      BY <1>1, <2>4, WireType DEF Wire
    <3>2. /\ PacketIds
          /\ ~(p.pid > pidFloor[e]) \/ p.pid \in pidSeen[e]
      BY <2>1 DEF PidOk
    <3>3. 1 <= p.pid /\ pidFloor[e] = 0
      BY <1>1, <3>1, <3>2 DEF SeenEvident
    <3>4. p.pid \in pidSeen[Other(p.src)] /\ Other(p.src) = e
      BY <2>1, <3>1, <3>2, <3>3, OtherPeer
    <3>5. Got(e, p.id)
      BY <1>1, <2>4, <3>1, <3>2, <3>4 DEF SeenEvident
    <3> QED BY <2>1, <3>1, <3>5 DEF Got
  <2>5. AcksEvident'
    <3>1. CASE p.ack
      BY <1>2, <2>1, <3>1
    <3>2. CASE ~p.ack
      BY <1>1, <2>1, <2>3, <2>4, <3>2, QueueEvident
    <3> QED BY <3>1, <3>2
  <2> QED BY <1>1, <2>1, <2>2, <2>3, <2>5, EvidenceKept
<1>17. ASSUME NEW p \in net, Lose(p) PROVE Evidence'
  <2>1. UNCHANGED <<sendNext, held, pidSent, pidFloor, pidSeen, recvHead, recvSlots, xmitAcks>>
    BY <1>17 DEF Lose, sendVars, recvVars, pidVars
  <2>2. Wire' \subseteq Wire
    BY <1>17, <2>1 DEF Lose, Wire
  <2> QED BY <1>4, <2>1, <2>2
<1>18. CASE UNCHANGED vars
  BY <1>3, <1>4, <1>18 DEF vars, sendVars, recvVars, pidVars
<1> QED
  BY <1>5, <1>6, <1>7, <1>8, <1>9, <1>10, <1>13, <1>14, <1>15, <1>16, <1>17, <1>18
  DEF Next, PeerStep, NetRecv

LEMMA EvidenceAlways == Spec => [](Numbering /\ QuietEvidence)
<1>1. Numbering /\ QuietEvidence /\ [Next]_vars => Numbering' /\ QuietEvidence'
  BY NumberingStep, EvidenceStep
<1>2. Init => QuietEvidence
  BY EvidenceInit DEF QuietEvidence
<1> QED BY <1>1, <1>2, NumberingInit, PTL DEF Spec

\* What is sent is numbered in the order it was given to the stack, what waits at
\* either end has the number its window says, and what is passed up are the next
\* numbers: for every window size, list length and bound.
THEOREM StackNumbering == Spec => []Numbering
  BY EvidenceAlways, PTL

\* Everything one peer knows of the other's progress is true, and no packet ID on
\* the wire is one that would be taken for a replay while its message is needed,
\* as long as no 30 s have passed without a packet.
THEOREM StackEvidence == Spec => []QuietEvidence
  BY EvidenceAlways, PTL

\* As long as no 30 s have passed without a packet, whatever the network does, a
\* stack has forgotten a message only if the other has it; for every window size,
\* length of acknowledgement list and bound, with packet IDs or without.
THEOREM AckedMeansReceived == Spec => []QuietAcked
<1>1. QuietEvidence => QuietAcked
  BY DEF QuietEvidence, QuietAcked, Evidence, AckedIsReceived
<1> QED BY <1>1, EvidenceAlways, PTL

\* Under the same condition, the packet-ID check never turns away a message the
\* receiver still needs: the acknowledgement it is given all the same is true.
THEOREM RejectedMeansReceived == Spec => []QuietRejected
<1>1. Numbering /\ QuietEvidence => QuietRejected
  <2> SUFFICES ASSUME Numbering, Evidence,
                      NEW p \in net, ~p.ack, ~PidOk(Other(p.src), p)
               PROVE  Got(Other(p.src), p.id)
    BY DEF QuietEvidence, QuietRejected, RejectedIsReceived
  <2>1. TypeOK /\ SeenEvident /\ p \in Wire
    BY NumberingParts, EvidenceParts DEF Wire
  <2>2. p.src \in Peer /\ Other(p.src) \in Peer /\ p.pid \in Nat
    BY <2>1, WireType, OtherPeer
  <2>3. PacketIds /\ (~(p.pid > pidFloor[Other(p.src)]) \/ p.pid \in pidSeen[Other(p.src)])
    BY DEF PidOk
  <2>4. 1 <= p.pid /\ pidFloor[Other(p.src)] = 0
    BY <2>1, <2>2, <2>3 DEF SeenEvident
  <2> QED BY <2>1, <2>2, <2>3, <2>4 DEF SeenEvident
<1> QED BY <1>1, EvidenceAlways, PTL

-----------------------------------------------------------------------------
(***************************************************************************)
(* Until a silence of 30 s, ProtoStack implements ReliableLink: every step *)
(* of a stack is one of the link or leaves it alone.  Beyond Numbering and *)
(* Evidence this takes two facts about what the stack has done already:    *)
(* what its send window has forgotten the other peer has, and it has       *)
(* passed up no ciphertext before its handshake.                           *)
(***************************************************************************)

\* What is behind the head of a send window, or erased, the other peer has.
ForgottenGot ==
    \A e \in Peer : \A i \in Nat :
      i < sendHead[e] \/ i \in erased[e] => Got(Other(e), i)

\* Before its handshake, a peer has passed up raw messages only.
CipherWaited ==
    \A e \in Peer : ~started[e] => \A i \in 1 .. recvHead[e] : sent[Other(e)][i].raw

LinkInv == Numbering /\ Evidence /\ ForgottenGot /\ CipherWaited
QuietLink == Quiet => ForgottenGot /\ CipherWaited

-----------------------------------------------------------------------------
(* The mapping.                                                            *)

\* A peer has received just what it has got.
LEMMA ReceivedIsGot ==
    ASSUME TypeOK, NEW e \in Peer
    PROVE  /\ received[e] \in SUBSET Nat
           /\ \A i \in Nat : i \in received[e] <=> Got(e, i)
  BY DEF received, Got, TypeOK

\* Messages acknowledged are messages numbered.
LEMMA AckedIsForgotten ==
    ASSUME TypeOK, NEW e \in Peer
    PROVE  /\ acked[e] \in SUBSET Nat
           /\ \A i \in Nat : i \in acked[e] <=>
                i < sendNext[e] /\ (i < sendHead[e] \/ i \in erased[e])
  BY DEF acked, TypeOK

\* What a peer has got was numbered.
LEMMA GotIsNumbered ==
    ASSUME Numbering, NEW e \in Peer, NEW i \in Nat, Got(e, i)
    PROVE  i < sendNext[Other(e)]
<1>1. TypeOK /\ RecvNumbered /\ Other(e) \in Peer
  BY NumberingParts, OtherPeer
<1>2. recvHead[e] \in Nat /\ sendNext[Other(e)] \in Nat
  BY <1>1 DEF TypeOK
<1> QED BY <1>1, <1>2 DEF RecvNumbered, Got

\* A step that leaves all of these alone leaves the link alone.
LEMMA LinkSame ==
    ASSUME UNCHANGED <<started, sent, sendHead, sendNext, erased, recvHead, recvSlots, delivered>>
    PROVE  UNCHANGED Link!vars
  BY DEF Link!vars, received, acked

\* And the facts about the past too.
LEMMA PastSame ==
    ASSUME ForgottenGot, CipherWaited,
           UNCHANGED <<started, sent, sendHead, erased, recvHead, recvSlots>>
    PROVE  ForgottenGot' /\ CipherWaited'
  BY DEF ForgottenGot, CipherWaited, Got

-----------------------------------------------------------------------------
(* Sending.                                                                *)

\* A flush appends to what was sent, and a longer sequence of messages
\* acknowledges no more of them.
LEMMA FlushLinks ==
    ASSUME LinkInv, NEW e \in Peer, Flush(e)
    PROVE  ForgottenGot' /\ CipherWaited' /\ Link!Send(e)
<1> DEFINE more == SubSeq(FlushQueue(e), 1, FlushCount(e))
<1>1. /\ TypeOK /\ RecvNumbered /\ SendNumbered
  BY NumberingParts DEF LinkInv
<1>2. /\ sendNext' = [sendNext EXCEPT ![e] = @ + FlushCount(e)]
      /\ sent' = [sent EXCEPT ![e] = @ \o more]
      /\ UNCHANGED <<sendHead, erased, started, recvHead, recvSlots, delivered>>
  BY FlushDefined DEF recvVars
<1>3. more \in Seq(Message) /\ FlushCount(e) \in Nat
  <2>1. FlushQueue(e) \in Seq(Message) /\ FlushCount(e) \in Nat
        /\ FlushCount(e) <= Len(FlushQueue(e))
    BY <1>1, FlushTypes
  <2> QED BY <2>1
<1> HIDE DEF more
<1>4. \A f \in Peer : sent[f] \in Seq(Message) /\ sendNext[f] \in Nat
  BY <1>1 DEF TypeOK
<1>5. \A f \in Peer : \A i \in 1 .. Len(sent[f]) : sent'[f][i] = sent[f][i]
  <2> SUFFICES ASSUME NEW f \in Peer, NEW i \in 1 .. Len(sent[f])
               PROVE  sent'[f][i] = sent[f][i]
    OBVIOUS
  <2>1. CASE f # e
    BY <1>1, <1>2, <2>1 DEF TypeOK
  <2>2. CASE f = e
    <3>1. sent'[e] = sent[e] \o more
      BY <1>1, <1>2 DEF TypeOK
    <3>2. i <= Len(sent[e]) /\ i \in 1 .. Len(sent[e]) + Len(more)
      BY <1>3, <1>4, <2>2
    <3> QED BY <1>3, <1>4, <2>2, <3>1, <3>2, ConcatProperties
  <2> QED BY <2>1, <2>2
<1>6. ForgottenGot'
  BY <1>2 DEF LinkInv, ForgottenGot, Got
<1>7. CipherWaited'
  <2> SUFFICES ASSUME NEW f \in Peer, ~started[f], NEW i \in 1 .. recvHead[f]
               PROVE  sent'[Other(f)][i].raw
    BY <1>2 DEF CipherWaited
  <2>1. Other(f) \in Peer
    BY OtherPeer
  <2>m. recvHead[f] \in Nat /\ recvHead[f] <= sendNext[Other(f)]
        /\ sendNext[Other(f)] = Len(sent[Other(f)])
    BY <1>1, <2>1 DEF RecvNumbered, SendNumbered, TypeOK
  <2>2. i \in 1 .. Len(sent[Other(f)])
    BY <1>4, <2>1, <2>m
  <2> QED BY <1>5, <2>1, <2>2 DEF LinkInv, CipherWaited
<1>8. UNCHANGED <<started, received, delivered>>
  BY <1>2 DEF received
<1>9. acked' = acked
  <2> SUFFICES ASSUME NEW f \in Peer, NEW i, i \in 0 .. sendNext'[f] - 1,
                      i < sendHead[f] \/ i \in erased[f]
               PROVE  i \in 0 .. sendNext[f] - 1
    <3>1. \A f \in Peer : 0 .. sendNext[f] - 1 \subseteq 0 .. sendNext'[f] - 1
      BY SMTT(30), <1>1, <1>2, <1>3, <1>4 DEF TypeOK
    <3> QED BY <1>2, <3>1 DEF acked
  <2>m. sendNext'[f] \in Nat
    BY <1>1, <1>2, <1>3 DEF TypeOK
  <2>1. Other(f) \in Peer /\ Other(Other(f)) = f /\ i \in Nat
    BY <2>m, OtherPeer
  <2>2. Got(Other(f), i)
    BY <2>1 DEF LinkInv, ForgottenGot
  <2> QED BY <1>4, <2>1, <2>2, GotIsNumbered DEF LinkInv
<1>10. SubSeq(sent'[e], 1, Len(sent[e])) = sent[e] /\ sent' = [sent EXCEPT ![e] = sent'[e]]
  <2>1. sent'[e] = sent[e] \o more /\ Len(sent[e]) \in Nat
    BY <1>1, <1>2 DEF TypeOK
  <2>2. Len(sent'[e]) = Len(sent[e]) + Len(more) /\ sent'[e] \in Seq(Message)
        /\ Len(more) \in Nat
    BY <1>3, <1>4, <2>1, ConcatProperties
  <2>3. /\ SubSeq(sent'[e], 1, Len(sent[e])) \in Seq(Message)
        /\ Len(SubSeq(sent'[e], 1, Len(sent[e]))) = Len(sent[e])
        /\ \A i \in 1 .. Len(sent[e]) : SubSeq(sent'[e], 1, Len(sent[e]))[i] = sent'[e][i]
    BY <2>1, <2>2
  <2>4. SubSeq(sent'[e], 1, Len(sent[e])) = sent[e]
    BY <1>4, <1>5, <2>3, SeqEqual
  <2> QED BY <1>2, <2>1, <2>4
<1> QED BY <1>6, <1>7, <1>8, <1>9, <1>10 DEF Link!Send

-----------------------------------------------------------------------------
(* Passing messages up.                                                    *)

\* up_sequenced() stops at the first message that is missing or has to wait.
LEMMA UpSequencedStops ==
    ASSUME TypeOK, NEW e \in Peer, NEW slots, NEW ssl \in BOOLEAN, UpSequenced(e, slots, ssl)
    PROVE  /\ recvHead'[e] \in Nat /\ recvHead[e] <= recvHead'[e]
           /\ \A i \in recvHead[e] .. recvHead'[e] - 1 :
                i \in DOMAIN slots /\ (slots[i].raw \/ ssl)
           /\ ~(recvHead'[e] \in DOMAIN slots /\ (slots[recvHead'[e]].raw \/ ssl))
<1>1. PICK next \in recvHead[e] .. recvHead[e] + Span :
        /\ \A i \in recvHead[e] .. next - 1 : i \in DOMAIN slots /\ (slots[i].raw \/ ssl)
        /\ ~(next \in DOMAIN slots /\ (slots[next].raw \/ ssl))
        /\ recvHead' = [recvHead EXCEPT ![e] = next]
  BY DEF UpSequenced
<1>2. recvHead \in [Peer -> Nat] /\ recvHead'[e] = next /\ Span \in Nat
  BY <1>1, SpanAssumption DEF TypeOK
<1> QED BY <1>1, <1>2

\* In the order of their numbers, and no further than it may.
LEMMA OrderedNext == Numbering' => InOrderExactlyOnce'
  BY NumberingOrders, PTL

\* Passing up from these slots, with the handshake started or not, starts from
\* messages that the other peer has numbered.
Passes(e, slots, ssl) ==
    /\ UNCHANGED <<sent, sendNext>>
    /\ started[e] => ssl
    /\ started' = [started EXCEPT ![e] = ssl]
    /\ DOMAIN slots \subseteq Nat
    /\ \A i \in DOMAIN slots : slots[i] \in Message
    /\ DOMAIN recvSlots[e] \subseteq DOMAIN slots
    /\ \A i \in DOMAIN slots : /\ i < sendNext[Other(e)]
                               /\ slots[i] = sent[Other(e)][i + 1]
    /\ UpSequenced(e, slots, ssl)

\* What the link then sees of it.
Passed(e, slots, ssl) ==
    /\ Kept /\ CipherWaited'
    /\ received' = [received EXCEPT ![e] = @ \cup DOMAIN slots]
    /\ Link!PassedUp(e, received'[e], ssl, delivered'[e])
    /\ delivered' = [delivered EXCEPT ![e] = delivered'[e]]

\* Whichever slots are defined, what is passed up is what the link allows.
LEMMA PassingLinks ==
    ASSUME LinkInv, Numbering', NEW e \in Peer, NEW slots, NEW ssl \in BOOLEAN,
           Passes(e, slots, ssl)
    PROVE  Passed(e, slots, ssl)
<1> USE DEF Passes
<1> DEFINE from == sent[Other(e)]
           n == recvHead'[e]
<1>1. /\ TypeOK /\ TypeOK' /\ RecvNumbered' /\ SendNumbered' /\ Other(e) \in Peer
      /\ InOrderExactlyOnce'
  BY NumberingParts, NumberingPartsNext, OtherPeer, OrderedNext DEF LinkInv
<1>2. PICK next \in Nat : MovedTo(e, slots, next)
  BY <1>1, UpSequencedFacts
<1>3. /\ recvHead[e] <= next /\ recvHead[e] \in Nat
      /\ recvHead' = [recvHead EXCEPT ![e] = next] /\ n = next
      /\ recvSlots' = [recvSlots EXCEPT ![e] =
                         [i \in DOMAIN slots \ (recvHead[e] .. next - 1) |-> slots[i]]]
      /\ delivered' = [delivered EXCEPT ![e] = delivered'[e]]
  BY <1>1, <1>2 DEF MovedTo, TypeOK
<1>4. Kept
  BY <1>1, <1>2, MovedKeeps
<1>5. /\ \A i \in recvHead[e] .. n - 1 : i \in DOMAIN slots /\ (slots[i].raw \/ ssl)
      /\ ~(n \in DOMAIN slots /\ (slots[n].raw \/ ssl))
  BY <1>1, UpSequencedStops
<1>6. received' = [received EXCEPT ![e] = @ \cup DOMAIN slots]
  <2>1. received'[e] = received[e] \cup DOMAIN slots
    <3>1. received[e] = (0 .. recvHead[e] - 1) \cup DOMAIN recvSlots[e]
      BY DEF received
    <3>2. received'[e] = (0 .. next - 1) \cup (DOMAIN slots \ (recvHead[e] .. next - 1))
      BY <1>1, <1>3 DEF received, TypeOK
    <3>3. recvHead[e] .. next - 1 \subseteq DOMAIN slots
      BY <1>3, <1>5
    <3>4. 0 .. next - 1 = (0 .. recvHead[e] - 1) \cup (recvHead[e] .. next - 1)
      BY <1>3
    <3> QED BY <3>1, <3>2, <3>3, <3>4
  <2>2. \A f \in Peer : f # e => received'[f] = received[f]
    BY <1>1, <1>3 DEF received, TypeOK
  <2>3. DOMAIN received' = Peer /\ DOMAIN received = Peer
        /\ received' = [f \in Peer |-> received'[f]]
    BY DEF received
  <2> HIDE DEF received
  <2> QED BY <2>1, <2>2, <2>3
<1>7. /\ Len(delivered'[e]) = n /\ n \in Nat /\ n <= Len(from) /\ from \in Seq(Message)
      /\ delivered'[e] = SubSeq(from, 1, n)
  <2>1. /\ Len(delivered'[e]) = n /\ n <= sendNext[Other(e)] /\ n \in Nat
    BY <1>1, <1>3 DEF RecvNumbered, TypeOK
  <2>2. Len(from) = sendNext[Other(e)] /\ from \in Seq(Message)
    BY <1>1 DEF SendNumbered, TypeOK
  <2>3. delivered'[e] = SubSeq(from, 1, Len(delivered'[e]))
    BY <1>1 DEF InOrderExactlyOnce
  <2> HIDE DEF from, n
  <2> QED BY <2>1, <2>2, <2>3
<1>8. \A i \in 0 .. n - 1 : from[i + 1].raw \/ ssl
  <2> SUFFICES ASSUME NEW i \in 0 .. n - 1 PROVE from[i + 1].raw \/ ssl
    OBVIOUS
  <2>1. CASE i < recvHead[e]
    <3>1. i + 1 \in 1 .. recvHead[e]
      BY <1>3, <1>7, <2>1
    <3> QED BY <3>1 DEF LinkInv, CipherWaited
  <2>2. CASE ~(i < recvHead[e])
    <3>1. i \in recvHead[e] .. n - 1
      BY <1>3, <1>7, <2>2
    <3> QED BY <1>5, <3>1
  <2> QED BY <2>1, <2>2
<1>9. \A i \in 0 .. n - 1 : i \in received'[e]
  <2>1. received'[e] = (0 .. n - 1) \cup DOMAIN recvSlots'[e]
    BY DEF received
  <2> QED BY <2>1
<1>10. ~(n \in received'[e] /\ (from[n + 1].raw \/ ssl))
  <2>1. n \notin DOMAIN slots => n \notin received'[e]
    <3>1. received'[e] = (0 .. n - 1) \cup DOMAIN recvSlots'[e]
      BY DEF received
    <3>2. DOMAIN recvSlots'[e] \subseteq DOMAIN slots
      BY <1>1, <1>3 DEF TypeOK
    <3>3. n \notin 0 .. n - 1
      BY <1>7
    <3> QED BY <3>1, <3>2, <3>3
  <2>2. n \in DOMAIN slots => slots[n] = from[n + 1]
    OBVIOUS
  <2> QED BY <1>5, <2>1, <2>2
<1>11. CipherWaited'
  <2> SUFFICES ASSUME NEW f \in Peer, ~started'[f], NEW i \in 1 .. recvHead'[f]
               PROVE  sent[Other(f)][i].raw
    BY DEF CipherWaited
  <2>1. CASE f = e
    <3>1. ~ssl
      BY <1>1, <2>1 DEF TypeOK
    <3>2. i - 1 \in 0 .. n - 1 /\ (i - 1) + 1 = i
      BY <1>7, <2>1
    <3> HIDE DEF from, n
    <3>3. from[(i - 1) + 1].raw \/ ssl
      BY <1>8, <3>2
    <3> QED BY <2>1, <3>1, <3>2, <3>3 DEF from
  <2>2. CASE f # e
    <3>1. ~started[f] /\ recvHead'[f] = recvHead[f]
      BY <1>1, <1>3, <2>2 DEF TypeOK
    <3> QED BY <3>1 DEF LinkInv, CipherWaited
  <2> QED BY <2>1, <2>2
<1>12. Link!PassedUp(e, received'[e], ssl, delivered'[e])
  <2> HIDE DEF n, from
  <2>1. Link!Other(e) = Other(e)
    BY DEF Link!Other, Other
  <2> QED BY <1>7, <1>8, <1>9, <1>10, <2>1 DEF Link!PassedUp, from
<1> QED BY <1>3, <1>4, <1>6, <1>11, <1>12 DEF Passed

\* start_handshake().
LEMMA StartLinks ==
    ASSUME LinkInv, Numbering', NEW e \in Peer, StartHandshake(e)
    PROVE  ForgottenGot' /\ CipherWaited' /\ Link!Start(e)
<1> DEFINE slots == recvSlots[e]
<1>1. /\ ~started[e] /\ started' = [started EXCEPT ![e] = TRUE]
      /\ UpSequenced(e, slots, TRUE)
      /\ UNCHANGED <<sent, sendHead, sendNext, erased>>
  BY DEF StartHandshake, sendVars
<1>2. TypeOK /\ RecvNumbered
  BY NumberingParts DEF LinkInv
<1>3. /\ DOMAIN slots \subseteq Nat /\ \A i \in DOMAIN slots : slots[i] \in Message
      /\ \A i \in DOMAIN slots : /\ i < sendNext[Other(e)]
                                 /\ slots[i] = sent[Other(e)][i + 1]
  BY <1>2 DEF TypeOK, RecvNumbered
<1>4. /\ Kept /\ CipherWaited'
      /\ received' = [received EXCEPT ![e] = @ \cup DOMAIN slots]
      /\ Link!PassedUp(e, received'[e], TRUE, delivered'[e])
      /\ delivered' = [delivered EXCEPT ![e] = delivered'[e]]
  <2>1. Passes(e, slots, TRUE)
    BY <1>1, <1>3 DEF Passes
  <2> HIDE DEF slots
  <2>2. Passed(e, slots, TRUE)
    BY <2>1, PassingLinks
  <2> QED BY <2>2 DEF Passed
<1>5. received' = received
  BY <1>4 DEF received
<1>6. acked' = acked
  BY <1>1 DEF acked
<1>7. ForgottenGot'
  BY <1>1, <1>4, OtherPeer DEF LinkInv, ForgottenGot, Kept, Got
<1>8. Link!PassedUp(e, received[e], TRUE, delivered'[e])
  BY <1>4, <1>5
<1> QED BY <1>1, <1>4, <1>5, <1>6, <1>7, <1>8 DEF Link!Start

-----------------------------------------------------------------------------
(* Receiving.                                                              *)

\* What an acknowledgement makes the send window forget the other peer has.
LEMMA AcknowledgeForgets ==
    ASSUME LinkInv, NEW e \in Peer, NEW p \in net, p.src = Other(e), Acknowledge(e, AcksOf(p))
    PROVE  /\ \A i \in Nat : i < sendHead'[e] \/ i \in erased'[e] => Got(Other(e), i)
           /\ \A i \in Nat : i < sendHead[e] \/ i \in erased[e]
                              => i < sendHead'[e] \/ i \in erased'[e]
           /\ \A f \in Peer : f # e => sendHead'[f] = sendHead[f] /\ erased'[f] = erased[f]
<1>1. TypeOK /\ WireEvident /\ p \in Wire
  BY NumberingParts, EvidenceParts DEF LinkInv, Wire
<1>2. AcksOf(p) \in SUBSET Nat /\ \A a \in AcksOf(p) : Got(Other(e), a)
  BY <1>1, WireType DEF WireEvident
<1> DEFINE gone == erased[e] \cup
                     {i \in AcksOf(p) : sendHead[e] <= i /\ i < sendHead[e] + Span}
<1>3. PICK next \in sendHead[e] .. sendHead[e] + Span :
        /\ \A i \in sendHead[e] .. next - 1 : i \in gone
        /\ next \notin gone
        /\ sendHead' = [sendHead EXCEPT ![e] = next]
        /\ erased' = [erased EXCEPT ![e] = {i \in gone : next < i}]
  BY DEF Acknowledge
<1>4. /\ sendHead[e] \in Nat /\ next \in Nat /\ sendHead[e] <= next
      /\ erased[e] \in SUBSET Nat /\ gone \in SUBSET Nat
      /\ sendHead'[e] = next /\ erased'[e] = {i \in gone : next < i}
      /\ \A f \in Peer : f # e => sendHead'[f] = sendHead[f] /\ erased'[f] = erased[f]
  BY <1>1, <1>2, <1>3, SpanAssumption DEF TypeOK
<1>5. \A i \in gone : Got(Other(e), i)
  BY <1>2, <1>4 DEF LinkInv, ForgottenGot
<1>6. \A i \in Nat : i < sendHead[e] => Got(Other(e), i)
  BY DEF LinkInv, ForgottenGot
<1>7. \A i \in erased[e] : i \in gone
  OBVIOUS
<1> HIDE DEF gone
<1>8. \A i \in Nat : i < next => i < sendHead[e] \/ i \in gone
  BY <1>3, <1>4
<1>9. \A i \in gone : i < next \/ next < i
  BY <1>3, <1>4
<1> QED BY <1>4, <1>5, <1>6, <1>7, <1>8, <1>9

\* The abstract peer learns only of messages that arrived.
LEMMA AcknowledgeLinks ==
    ASSUME LinkInv, NEW e \in Peer, NEW p \in net, p.src = Other(e), Acknowledge(e, AcksOf(p)),
           Kept, UNCHANGED sendNext
    PROVE  /\ ForgottenGot'
           /\ acked[e] \subseteq acked'[e]
           /\ acked'[e] \subseteq received[Other(e)]
           /\ acked' = [acked EXCEPT ![e] = acked'[e]]
<1>1. /\ TypeOK /\ Other(e) \in Peer
      /\ \A i \in Nat : i < sendHead'[e] \/ i \in erased'[e] => Got(Other(e), i)
      /\ \A i \in Nat : i < sendHead[e] \/ i \in erased[e]
                         => i < sendHead'[e] \/ i \in erased'[e]
      /\ \A f \in Peer : f # e => sendHead'[f] = sendHead[f] /\ erased'[f] = erased[f]
  BY AcknowledgeForgets, NumberingParts, OtherPeer DEF LinkInv
<1>2. sendNext[e] \in Nat
  BY <1>1 DEF TypeOK
<1>3. ForgottenGot'
  <2> SUFFICES ASSUME NEW f \in Peer, NEW i \in Nat, i < sendHead'[f] \/ i \in erased'[f]
               PROVE  Got(Other(f), i)'
    BY DEF ForgottenGot
  <2>1. Got(Other(f), i)
    BY <1>1 DEF LinkInv, ForgottenGot
  <2>2. Other(f) \in Peer
    BY OtherPeer
  <2>3. \A g \in Peer : Got(g, i) => i < recvHead'[g] \/ i \in DOMAIN recvSlots'[g]
    BY DEF Kept, Got
  <2> QED BY <2>1, <2>2, <2>3 DEF Got
<1>4. acked[e] \subseteq acked'[e]
  BY <1>1, <1>2 DEF acked
<1>5. acked'[e] \subseteq received[Other(e)]
  BY <1>1, <1>2, ReceivedIsGot DEF acked
<1>6. acked' = [acked EXCEPT ![e] = acked'[e]]
  <2>1. \A f \in Peer : f # e => acked'[f] = acked[f]
    BY <1>1 DEF acked
  <2>2. DOMAIN acked = Peer /\ acked' = [f \in Peer |-> acked'[f]]
    BY DEF acked
  <2> HIDE DEF acked
  <2> QED BY <2>1, <2>2
<1> QED BY <1>3, <1>4, <1>5, <1>6

\* A packet that brings no message it has room for.
LEMMA AckLinks ==
    ASSUME LinkInv, NEW e \in Peer, NEW p \in net, RecvAck(e, p) \/ RecvOutside(e, p)
    PROVE  ForgottenGot' /\ CipherWaited' /\ Link!Receive(e)
<1>1. /\ p.src = Other(e) /\ Acknowledge(e, AcksOf(p))
      /\ UNCHANGED <<started, sent, sendNext, recvHead, recvSlots, delivered>>
  BY DEF RecvAck, RecvOutside, Arrives, recvVars
<1>2. Kept
  BY <1>1 DEF Kept, Got
<1>3. UNCHANGED <<received, delivered, started, sent>>
  BY <1>1 DEF received
<1>4. CipherWaited'
  BY <1>1 DEF CipherWaited, LinkInv
<1>5. Link!Other(e) = Other(e)
  BY DEF Link!Other, Other
<1> QED BY <1>1, <1>2, <1>3, <1>4, <1>5, AcknowledgeLinks DEF Link!Receive

\* A message that it stores, and what that completes.
LEMMA MessageLinks ==
    ASSUME LinkInv, Numbering', NEW e \in Peer, NEW p \in net, RecvInWindow(e, p)
    PROVE  ForgottenGot' /\ CipherWaited' /\ Link!Receive(e)
<1> DEFINE slots == [i \in DOMAIN recvSlots[e] \cup {p.id} |->
                       IF i = p.id THEN p.msg ELSE recvSlots[e][i]]
<1>1. /\ p.src = Other(e) /\ ~p.ack /\ Acknowledge(e, AcksOf(p))
      /\ UpSequenced(e, slots, started[e])
      /\ UNCHANGED <<started, sent, sendNext>>
  BY DEF RecvInWindow, Arrives
<1>2. TypeOK /\ RecvNumbered /\ WireNumbered /\ SendNumbered /\ p \in Wire
  BY NumberingParts DEF LinkInv, Wire
<1>3. p.id \in Nat /\ p.msg \in Message /\ started[e] \in BOOLEAN
  BY <1>1, <1>2 DEF TypeOK, Packet
<1>4. p.id < sendNext[Other(e)] /\ p.msg = sent[Other(e)][p.id + 1]
  BY <1>1, <1>2 DEF WireNumbered
<1>5. DOMAIN slots \subseteq Nat /\ \A i \in DOMAIN slots : slots[i] \in Message
  BY <1>2, <1>3 DEF TypeOK
<1>6. \A i \in DOMAIN slots : /\ i < sendNext[Other(e)]
                              /\ slots[i] = sent[Other(e)][i + 1]
  BY <1>2, <1>4 DEF RecvNumbered
<1>7. DOMAIN slots = DOMAIN recvSlots[e] \cup {p.id}
  OBVIOUS
<1>8. started' = [started EXCEPT ![e] = started[e]]
  BY <1>1, <1>2 DEF TypeOK
<1> HIDE DEF slots
<1>9. /\ Kept /\ CipherWaited'
      /\ received' = [received EXCEPT ![e] = @ \cup DOMAIN slots]
      /\ Link!PassedUp(e, received'[e], started[e], delivered'[e])
      /\ delivered' = [delivered EXCEPT ![e] = delivered'[e]]
  <2>1. PICK ssl \in BOOLEAN : ssl = started[e]
    BY <1>3
  <2>2. UpSequenced(e, slots, ssl) /\ started' = [started EXCEPT ![e] = ssl]
        /\ (started[e] => ssl) /\ UNCHANGED <<sent, sendNext>>
    BY <1>1, <1>8, <2>1
  <2>3. DOMAIN recvSlots[e] \subseteq DOMAIN slots
    BY <1>7
  <2>4. /\ Kept /\ CipherWaited'
        /\ received' = [received EXCEPT ![e] = @ \cup DOMAIN slots]
        /\ Link!PassedUp(e, received'[e], ssl, delivered'[e])
        /\ delivered' = [delivered EXCEPT ![e] = delivered'[e]]
    <3>1. Passes(e, slots, ssl)
      BY <1>5, <1>6, <2>2, <2>3 DEF Passes
    <3>2. Passed(e, slots, ssl)
      BY <2>1, <3>1, PassingLinks
    <3> QED BY <3>2 DEF Passed
  <2> QED BY <2>1, <2>4
<1>10. received' = [received EXCEPT ![e] = @ \cup {p.id}]
  BY <1>7, <1>9 DEF received
<1>11. p.id \in 0 .. Len(sent[Other(e)]) - 1
  <2>1. Other(e) \in Peer
    BY OtherPeer
  <2>2. Len(sent[Other(e)]) = sendNext[Other(e)] /\ sendNext[Other(e)] \in Nat
    BY <1>2, <2>1 DEF SendNumbered, TypeOK
  <2> QED BY <1>3, <1>4, <2>2
<1>12. Link!Other(e) = Other(e)
  BY DEF Link!Other, Other
<1>13. /\ ForgottenGot'
       /\ acked[e] \subseteq acked'[e]
       /\ acked'[e] \subseteq received[Other(e)]
       /\ acked' = [acked EXCEPT ![e] = acked'[e]]
  BY <1>1, <1>9, AcknowledgeLinks
<1> QED BY <1>1, <1>9, <1>10, <1>11, <1>12, <1>13 DEF Link!Receive

-----------------------------------------------------------------------------
(* The theorem.                                                            *)

\* Every step is a step of the link, or leaves it alone.
LEMMA StepLinks ==
    ASSUME LinkInv, Numbering', [Next]_vars
    PROVE  ForgottenGot' /\ CipherWaited' /\ [Link!Next]_(Link!vars)
<1> DEFINE Goal == ForgottenGot' /\ CipherWaited' /\ [Link!Next]_(Link!vars)
<1>1. ASSUME UNCHANGED <<sendVars, recvVars>> PROVE Goal
  BY <1>1, LinkSame, PastSame DEF sendVars, recvVars, LinkInv
<1>2. ASSUME UNCHANGED <<started, sent, sendHead, sendNext, erased, recvHead, recvSlots, delivered>>
      PROVE  Goal
  BY <1>2, LinkSame, PastSame DEF LinkInv
<1>3. ASSUME NEW e \in Peer, Link!Send(e) \/ Link!Start(e) \/ Link!Receive(e)
      PROVE  [Link!Next]_(Link!vars)
  BY <1>3 DEF Link!Next, Link!Peer, Peer
<1>4. ASSUME NEW e \in Peer, NEW d \in Payload, RawSend(e, d) \/ AppSend(e, d) PROVE Goal
  BY <1>2, <1>4 DEF RawSend, AppSend, recvVars
<1>5. ASSUME NEW e \in Peer, StartHandshake(e) PROVE Goal
  BY <1>3, <1>5, StartLinks
<1>6. ASSUME NEW e \in Peer, Flush(e) PROVE Goal
  BY <1>3, <1>6, FlushLinks
<1>7. ASSUME NEW e \in Peer, Retransmit(e) \/ Invalidate(e) \/ Silence(e) PROVE Goal
  BY <1>1, <1>7 DEF Retransmit, Invalidate, Silence
<1>8. ASSUME NEW e \in Peer, NEW p \in net, RecvAck(e, p) \/ RecvOutside(e, p) PROVE Goal
  BY <1>3, <1>8, AckLinks
<1>9. ASSUME NEW e \in Peer, NEW p \in net, RecvInWindow(e, p) PROVE Goal
  BY <1>3, <1>9, MessageLinks
<1>10. ASSUME NEW e \in Peer, NEW p \in net, RecvReplayed(e, p) PROVE Goal
  BY <1>1, <1>10 DEF RecvReplayed
<1>11. ASSUME NEW p \in net, Lose(p) PROVE Goal
  BY <1>1, <1>11 DEF Lose
<1>12. CASE UNCHANGED vars
  BY <1>1, <1>12 DEF vars
<1> QED BY <1>4, <1>5, <1>6, <1>7, <1>8, <1>9, <1>10, <1>11, <1>12
        DEF Next, PeerStep, NetRecv

\* A stack that has done nothing has forgotten nothing.
LEMMA InitLinks == Init => QuietLink /\ Link!Init
<1> SUFFICES ASSUME Init PROVE QuietLink /\ Link!Init
  OBVIOUS
<1>1. QuietLink
  BY DEF Init, QuietLink, ForgottenGot, CipherWaited
<1>2. received = [e \in Peer |-> {}] /\ acked = [e \in Peer |-> {}]
  BY DEF Init, received, acked
<1> QED BY <1>1, <1>2 DEF Init, Link!Init, Link!Peer, Peer

\* Until a silence of 30 s, two stacks over a network that loses, repeats and
\* reorders are a reliable link: for every window, every length of an
\* acknowledgement list, with packet IDs or without, and if peers fail.
THEOREM ImplementsLink == Spec => LinkSpec
<1> DEFINE A == Quiet' => Link!Next
<1>1. Numbering /\ Numbering' /\ QuietEvidence /\ QuietLink /\ [Next]_vars
        => QuietLink' /\ [A]_(Link!vars)
  <2> SUFFICES ASSUME Numbering, Numbering', QuietEvidence, QuietLink, [Next]_vars, Quiet'
               PROVE  ForgottenGot' /\ CipherWaited' /\ [Link!Next]_(Link!vars)
    BY DEF QuietLink
  <2>1. LinkInv
    BY QuietBefore DEF QuietEvidence, QuietLink, LinkInv
  <2> QED BY <2>1, StepLinks
<1>2. Spec => [](Numbering /\ QuietEvidence) /\ Init /\ [][Next]_vars
  BY EvidenceAlways DEF Spec
<1> QED BY <1>1, <1>2, InitLinks, PTL DEF LinkSpec

=============================================================================
