------------------------- MODULE ReplayWindowProofs -------------------------
(***************************************************************************)
(* What the packet IDs and the replay window promise, for a ring of any    *)
(* size, IDs of any width, and a clock that runs for any time.  The sender *)
(* never uses an ID again because what it has sent is Below its counter;   *)
(* the receiver is right because its ring of bits is a Picture of the      *)
(* packets accepted, which is all that a verdict depends on.               *)
(***************************************************************************)
EXTENDS ReplayWindow, TLAPS

\* Packet q was sent before the counter got to its present value.
Below(q) ==
    /\ q.id > 0
    /\ longForm => q.time < sendPid.time \/ (q.time = sendPid.time /\ q.id <= sendPid.id)
    /\ ~longForm => q.time = 0 /\ (wrapped \/ q.id <= sendPid.id)

Sender ==
    /\ sendPid.time <= clock
    /\ wrapped => ~longForm
    /\ \A q \in net : Below(q)
    /\ reused = {}

\* The bit of every ID covered is set just if its packet was accepted.
Picture ==
    \A d \in 0 .. extent - 1 :
      history[Index(base, d)] <=> [time |-> timeHigh, id |-> idHigh - d] \in accepted

\* Nothing newer than the highest ID was accepted.
Newest ==
    \A p \in accepted : /\ p.time <= timeHigh
                        /\ p.time = timeHigh => p.id <= idHigh
                        /\ p.id > 0

\* The ring covers all IDs of its time, or the last Window of them.
Covers == extent = (IF idHigh < Window THEN idHigh ELSE Window)

Receiver == Picture /\ Newest /\ Covers /\ idFloor <= idHigh /\ twice = {}

Inv == TypeOK /\ Sender /\ Receiver

-----------------------------------------------------------------------------
(* Counting around the ring.                                               *)

\* Window, IDs and times are numbers.
LEMMA Numbers ==
    /\ Window \in Nat /\ Window > 1 /\ MaxId \in Nat /\ MaxId > 0 /\ MaxClock \in Nat
  BY WindowAssumption, IdAssumption, ClockAssumption

\* An index steps around the ring at most once.
LEMMA IndexUp ==
    ASSUME NEW b \in 0 .. Window - 1, NEW i \in 0 .. Window - 1
    PROVE  Index(b, i) = IF b + i < Window THEN b + i ELSE b + i - Window
<1> DEFINE x == b + i
<1>1. x \in 0 .. 2 * Window - 1
  BY Numbers
<1> HIDE DEF x
<1>2. x < Window => x % Window = x
  BY <1>1, Numbers
<1>3. x >= Window => x % Window = x - Window
  BY <1>1, Numbers
<1> QED BY <1>1, <1>2, <1>3, Numbers DEF Index, x

\* And backwards.
LEMMA IndexDown ==
    ASSUME NEW b \in 0 .. Window - 1, NEW i \in 0 .. Window - 1
    PROVE  Index(b, -i) = IF i <= b THEN b - i ELSE b - i + Window
<1> DEFINE x == b - i
<1>1. x \in -Window .. Window - 1 /\ b + (-i) = x /\ x # -Window
  BY Numbers
<1> HIDE DEF x
<1>2. x >= 0 => x % Window = x
  BY <1>1, Numbers
<1>3. x < 0 => x % Window = x + Window
  BY <1>1, Numbers
<1>4. Index(b, -i) = x % Window
  BY <1>1 DEF Index
<1> QED BY <1>1, <1>2, <1>3, <1>4, Numbers DEF x

\* Two places in the ring are two bits.
LEMMA IndexApart ==
    ASSUME NEW b \in 0 .. Window - 1, NEW i \in 0 .. Window - 1, NEW j \in 0 .. Window - 1
    PROVE  /\ Index(b, i) \in 0 .. Window - 1
           /\ Index(b, i) = Index(b, j) => i = j
  BY IndexUp, Numbers

\* The base that moved down by delta sees every old bit delta further up.
LEMMA IndexMoved ==
    ASSUME NEW b \in 0 .. Window - 1, NEW delta \in 1 .. Window - 1,
           NEW i \in delta .. Window - 1
    PROVE  /\ Base(b, delta) \in 0 .. Window - 1
           /\ Index(Base(b, delta), i) = Index(b, i - delta)
<1>1. Base(b, delta) = IF delta <= b THEN b - delta ELSE b - delta + Window
  BY IndexDown, Numbers DEF Base
<1>2. Base(b, delta) \in 0 .. Window - 1
  BY <1>1, Numbers
<1> QED BY <1>1, <1>2, IndexUp, Numbers

-----------------------------------------------------------------------------
(* The sender.                                                             *)

\* next(): the counter goes up by one, or back to one with a later time.
LEMMA NextPidIs ==
    ASSUME NEW now \in 1 .. MaxClock, sendPid \in PacketID
    PROVE  /\ NextPid(now) \in PacketID
           /\ NextPid(now).id = IF sendPid.id = MaxId THEN 1 ELSE sendPid.id + 1
           /\ NextPid(now).time = IF sendPid.time = 0 \/ sendPid.id = MaxId THEN now
                                  ELSE sendPid.time
<1> DEFINE n == sendPid.id
<1>1. n \in 0 .. MaxId /\ sendPid.time \in 0 .. MaxClock
  BY DEF PacketID
<1>2. (n + 1) % (MaxId + 1) = IF n = MaxId THEN 0 ELSE n + 1
  BY <1>1, Numbers
<1> QED BY <1>1, <1>2, Numbers DEF NextPid, PacketID

\* What is sent is new.
LEMMA SendStep ==
    ASSUME Inv, Send
    PROVE  Inv'
<1>p. PICK pid : pid = NextPid(clock)
  OBVIOUS
<1>q. PICK q : q = OnWire(pid)
  OBVIOUS
<1>1. /\ clock \in 1 .. MaxClock /\ sendPid \in PacketID /\ sendPid.id \in 0 .. MaxId
      /\ sendPid.time \in 0 .. MaxClock /\ longForm \in BOOLEAN /\ net \subseteq PacketID
  BY DEF Inv, TypeOK, PacketID
<1>2. /\ pid \in PacketID
      /\ pid.id = IF sendPid.id = MaxId THEN 1 ELSE sendPid.id + 1
      /\ pid.time = IF sendPid.time = 0 \/ sendPid.id = MaxId THEN clock ELSE sendPid.time
  BY <1>1, <1>p, NextPidIs
<1>3. /\ ~wrapped /\ (sendPid.id = MaxId => longForm /\ sendPid.time < clock)
      /\ sendPid' = pid /\ net' = net \cup {q} /\ reused' = reused \cup ({q} \cap net)
      /\ UNCHANGED <<longForm, clock, wrapped, ring, idFloor, accepted, twice>>
  BY <1>p, <1>q DEF Send
<1>4. /\ q \in PacketID /\ q.id = pid.id
      /\ q.time = IF longForm THEN pid.time ELSE 0
  BY <1>q, <1>2, Numbers DEF OnWire, PacketID
<1>5. \A r \in net : r.id \in 0 .. MaxId /\ r.time \in 0 .. MaxClock /\ Below(r)
  BY <1>1 DEF Inv, Sender, PacketID
<1>6. q \notin net
  <2> SUFFICES ASSUME q \in net PROVE FALSE
    OBVIOUS
  <2> QED BY <1>1, <1>2, <1>3, <1>4, <1>5, Numbers DEF Below, Inv, Sender
<1>7. Sender'
  <2>1. pid.time <= clock
    BY <1>1, <1>2 DEF Inv, Sender
  <2>2. pid.id \in 1 .. MaxId /\ pid.time \in 0 .. MaxClock
    BY <1>1, <1>2, Numbers
  <2>3. Below(q)'
    BY <1>3, <1>4, <2>2 DEF Below
  <2>4. ASSUME NEW r \in net PROVE Below(r)'
    BY <1>1, <1>2, <1>3, <1>5, <2>4, <2>1, <2>2, Numbers DEF Below, Inv, Sender
  <2> QED BY <1>3, <1>6, <2>1, <2>3, <2>4 DEF Inv, Sender
<1>8. TypeOK'
  BY <1>2, <1>3, <1>4, <1>6 DEF Inv, TypeOK, ring
<1>9. Receiver'
  BY <1>3 DEF Inv, Receiver, Picture, Newest, Covers, ring
<1> QED BY <1>7, <1>8, <1>9 DEF Inv

\* The session ends at the wraparound.
LEMMA SendWrapsStep ==
    ASSUME Inv, SendWraps
    PROVE  Inv'
<1>1. /\ wrapped' /\ ~longForm /\ sendPid' = [sendPid EXCEPT !.id = 0]
      /\ UNCHANGED <<longForm, clock, net, reused, ring, idFloor, accepted, twice>>
  BY DEF SendWraps
<1>2. sendPid' \in PacketID /\ sendPid'.time = sendPid.time
  BY <1>1, Numbers DEF Inv, TypeOK, PacketID
<1>3. Sender'
  BY <1>1, <1>2 DEF Inv, Sender, Below
<1>4. TypeOK'
  BY <1>1, <1>2 DEF Inv, TypeOK, ring, SendWraps
<1>5. Receiver'
  BY <1>1 DEF Inv, Receiver, Picture, Newest, Covers, ring
<1> QED BY <1>3, <1>4, <1>5 DEF Inv

\* Time passes.
LEMMA TickStep ==
    ASSUME Inv, Tick
    PROVE  Inv'
<1>1. /\ clock < MaxClock /\ clock' = clock + 1
      /\ UNCHANGED <<longForm, sendPid, wrapped, net, reused, ring, idFloor, accepted, twice>>
  BY DEF Tick
<1>2. TypeOK'
  BY <1>1, Numbers DEF Inv, TypeOK, ring
<1>3. Sender'
  BY <1>1, Numbers DEF Inv, Sender, Below, TypeOK, PacketID
<1>4. Receiver'
  BY <1>1 DEF Inv, Receiver, Picture, Newest, Covers, ring
<1> QED BY <1>2, <1>3, <1>4 DEF Inv

-----------------------------------------------------------------------------
(* The receiver.                                                           *)

\* What a packet must be to be accepted.
Acceptable(p, floor) ==
    \/ p.time > timeHigh
    \/ p.time = timeHigh /\ p.id > idHigh
    \/ p.time = timeHigh /\ p.id > idHigh - Window /\ p.id > floor /\ p \notin accepted

\* A packet sent has an ID from 1 on.
LEMMA Sent ==
    ASSUME Inv, NEW p \in net
    PROVE  /\ p \in PacketID /\ p.id \in 1 .. MaxId /\ p.time \in 0 .. MaxClock
           /\ p = [time |-> p.time, id |-> p.id]
  BY Numbers DEF Inv, TypeOK, Sender, Below, PacketID

\* The ring's bit of a packet.
LEMMA BitMeans ==
    ASSUME Inv, NEW p \in net, p.time = timeHigh, idHigh - p.id \in 0 .. extent - 1
    PROVE  history[Index(base, idHigh - p.id)] <=> p \in accepted
<1> DEFINE d == idHigh - p.id
<1>1. p = [time |-> timeHigh, id |-> idHigh - d]
  BY Sent DEF Inv, TypeOK
<1> HIDE DEF d
<1>2. d \in 0 .. extent - 1
  BY DEF d
<1>3. history[Index(base, d)] <=> p \in accepted
  BY <1>1, <1>2 DEF Inv, Receiver, Picture
<1> QED BY <1>3 DEF d

\* The verdict depends on what was accepted only.
LEMMA VerdictMeans ==
    ASSUME Inv, NEW p \in net, NEW floor \in 0 .. MaxId
    PROVE  Verdict(p, floor) = "SUCCESS" <=> Acceptable(p, floor)
<1> DEFINE delta == idHigh - p.id
<1>1. /\ p.id \in 1 .. MaxId /\ p.time \in 0 .. MaxClock
      /\ idHigh \in 0 .. MaxId /\ timeHigh \in 0 .. MaxClock /\ extent \in 0 .. Window
  BY Sent DEF Inv, TypeOK
<1>2. CASE p.time # timeHigh
  BY <1>1, <1>2, Numbers DEF Verdict, Acceptable
<1>3. CASE p.time = timeHigh /\ p.id > idHigh
  BY <1>1, <1>3, Numbers DEF Verdict, Acceptable
<1>4. CASE p.time = timeHigh /\ p.id <= idHigh
  <2>1. delta \in Nat /\ ~(delta < 0) /\ (delta >= extent <=> p.id <= idHigh - Window)
    BY <1>1, <1>4, Numbers DEF Inv, Receiver, Covers
  <2>2. Verdict(p, floor) =
          IF delta >= extent THEN "PKTID_BACKTRACK"
          ELSE IF p.id <= floor THEN "PKTID_EXPIRE"
          ELSE IF history[Index(base, delta)] THEN "PKTID_REPLAY"
          ELSE "SUCCESS"
    BY <1>1, <1>4, <2>1, Numbers DEF Verdict
  <2>3. delta < extent => (history[Index(base, delta)] <=> p \in accepted)
    BY <1>1, <1>4, <2>1, BitMeans, Numbers
  <2> HIDE DEF delta
  <2>4. delta >= extent \/ delta < extent
    BY <1>1, <2>1, Numbers
  <2> QED BY <1>1, <1>4, <2>1, <2>2, <2>3, <2>4, Numbers DEF Acceptable
<1> QED BY <1>1, <1>2, <1>3, <1>4, Numbers

\* A call that records nothing.
LEMMA TestOnlyStep ==
    ASSUME Inv, NEW p, NEW late \in BOOLEAN, TestOnly(p, late)
    PROVE  Inv'
<1>1. idFloor' \in 0 .. idHigh /\ UNCHANGED <<sendVars, ring, accepted, twice>>
  BY Numbers DEF TestOnly, Floor, Inv, TypeOK, Receiver
<1>2. TypeOK'
  BY <1>1, Numbers DEF Inv, TypeOK, sendVars, ring
<1>3. Sender'
  BY <1>1 DEF Inv, Sender, Below, sendVars
<1>4. Receiver'
  BY <1>1, Numbers DEF Inv, TypeOK, Receiver, Picture, Newest, Covers, ring
<1> QED BY <1>2, <1>3, <1>4 DEF Inv

\* Moving the window up leaves the ring's variables in their ranges.
LEMMA AdvanceTypes ==
    ASSUME NEW b \in 0 .. Window - 1, NEW e \in 0 .. Window, NEW delta \in Nat \ {0},
           history \in [0 .. Window - 1 -> BOOLEAN]
    PROVE  /\ Base(b, delta) \in 0 .. Window - 1
           /\ Extent(e, delta) = (IF e + delta < Window THEN e + delta ELSE Window)
           /\ Extent(e, delta) \in 1 .. Window
           /\ History(b, delta) \in [0 .. Window - 1 -> BOOLEAN]
<1>1. Base(b, delta) \in 0 .. Window - 1
  BY IndexMoved, Numbers DEF Base
<1>2. Extent(e, delta) = (IF e + delta < Window THEN e + delta ELSE Window)
      /\ Extent(e, delta) \in 1 .. Window
  BY Numbers DEF Extent
<1>3. History(b, delta) \in [0 .. Window - 1 -> BOOLEAN]
  BY DEF History
<1> QED BY <1>1, <1>2, <1>3

\* Its bits: the new packet's is set, those passed over are clear, the others
\* stay the old ones, delta places further up.
LEMMA AdvanceBits ==
    ASSUME NEW b \in 0 .. Window - 1, NEW delta \in Nat \ {0}, NEW d \in 0 .. Window - 1,
           history \in [0 .. Window - 1 -> BOOLEAN]
    PROVE  LET bit == History(b, delta)[Index(Base(b, delta), d)]
           IN  /\ d = 0 => bit
               /\ d \in 1 .. delta - 1 => ~bit
               /\ d >= delta => (bit <=> history[Index(b, d - delta)])
<1> DEFINE c == Base(b, delta)
           i == Index(c, d)
           passed == {Index(c, j) : j \in 1 .. delta - 1}
<1>1. c \in 0 .. Window - 1
  BY AdvanceTypes, Numbers, 0 \in 0 .. Window
<1>2. i \in 0 .. Window - 1 /\ Index(c, 0) = c /\ 0 \in 0 .. Window - 1
  <2> HIDE DEF c
  <2>1. 0 \in 0 .. Window - 1
    BY Numbers
  <2>2. Index(c, 0) = c
    BY <1>1, <2>1, IndexUp, Numbers
  <2>3. i \in 0 .. Window - 1
    BY <1>1, IndexApart
  <2> QED BY <2>1, <2>2, <2>3
<1>3. i = c <=> d = 0
  BY <1>1, <1>2, IndexApart
<1>4. History(b, delta)[i] <=> i = c \/ (delta < Window /\ history[i] /\ i \notin passed)
  BY <1>2 DEF History
<1>5. d \in 1 .. delta - 1 => i \in passed
  OBVIOUS
<1>6. ASSUME d >= delta, delta < Window
      PROVE  i \notin passed /\ i = Index(b, d - delta)
  <2>1. \A j \in 1 .. delta - 1 : j \in 0 .. Window - 1 /\ j # d
    BY <1>6, Numbers
  <2>2. i \notin passed
    BY <1>1, <2>1, IndexApart
  <2>3. i = Index(b, d - delta)
    BY <1>6, IndexMoved, Numbers
  <2> QED BY <2>2, <2>3
<1>7. d >= delta => delta < Window /\ d # 0
  BY Numbers
<1> HIDE DEF i, c, passed
<1> QED BY <1>3, <1>4, <1>5, <1>6, <1>7, Numbers DEF i, c

\* A packet recorded is accepted for the first time.
LEMMA Recorded ==
    ASSUME Inv, NEW p \in net, NEW late \in BOOLEAN, Accept(p, late)
    PROVE  /\ p \notin accepted /\ twice' = {} /\ accepted' = accepted \cup {p}
           /\ UNCHANGED sendVars
           /\ Acceptable(p, Floor(late)) /\ Floor(late) \in 0 .. idHigh
<1>1. Floor(late) \in 0 .. idHigh /\ Floor(late) \in 0 .. MaxId
  BY Numbers DEF Floor, Inv, TypeOK, Receiver
<1>2. Acceptable(p, Floor(late))
  BY <1>1, VerdictMeans DEF Accept
<1>3. p \notin accepted
  BY <1>2, Sent, Numbers DEF Acceptable, Inv, TypeOK, Receiver, Newest
<1> QED BY <1>1, <1>2, <1>3 DEF Accept, Inv, Receiver

\* What remains to be seen of a packet recorded is the ring.
LEMMA AcceptKeeps ==
    ASSUME Inv, NEW p \in net, NEW late \in BOOLEAN, Accept(p, late),
           base' \in 0 .. Window - 1, extent' \in 0 .. Window,
           history' \in [0 .. Window - 1 -> BOOLEAN],
           idHigh' \in 0 .. MaxId, timeHigh' \in 0 .. MaxClock, idFloor' \in 0 .. idHigh',
           Picture', Newest', Covers'
    PROVE  Inv'
<1>1. accepted' = accepted \cup {p} /\ twice' = {} /\ UNCHANGED sendVars
  BY Recorded
<1>2. TypeOK'
  BY <1>1, Numbers DEF Inv, TypeOK, sendVars
<1>3. Sender'
  BY <1>1 DEF Inv, Sender, Below, sendVars
<1>4. Receiver'
  BY <1>1, Numbers DEF Receiver
<1> QED BY <1>2, <1>3, <1>4 DEF Inv

\* A higher ID of the same time moves the window up.
LEMMA RecordAheadStep ==
    ASSUME Inv, NEW p \in net, NEW late \in BOOLEAN, Accept(p, late), RecordAhead(p, late)
    PROVE  Inv'
<1>p. PICK delta : delta = p.id - idHigh
  OBVIOUS
<1>1. /\ p \in PacketID /\ p.id \in 1 .. MaxId /\ p.time \in 0 .. MaxClock
      /\ p = [time |-> p.time, id |-> p.id]
      /\ base \in 0 .. Window - 1 /\ extent \in 0 .. Window
      /\ history \in [0 .. Window - 1 -> BOOLEAN]
      /\ idHigh \in 0 .. MaxId /\ timeHigh \in 0 .. MaxClock
  BY Sent DEF Inv, TypeOK
<1>2. /\ p.time = timeHigh /\ p.id > idHigh /\ delta \in Nat \ {0}
      /\ base' = Base(base, delta) /\ extent' = Extent(extent, delta)
      /\ history' = History(base, delta) /\ idHigh' = p.id /\ timeHigh' = timeHigh
      /\ idFloor' = Floor(late)
  BY <1>1, <1>p, Numbers DEF RecordAhead, Advance
<1>3. /\ base' \in 0 .. Window - 1 /\ extent' \in 0 .. Window
      /\ extent' = (IF extent + delta < Window THEN extent + delta ELSE Window)
      /\ history' \in [0 .. Window - 1 -> BOOLEAN]
  BY <1>1, <1>2, AdvanceTypes, Numbers
<1>4. /\ accepted' = accepted \cup {p} /\ p \notin accepted /\ Floor(late) \in 0 .. idHigh
  BY Recorded
<1>5. Newest'
  BY <1>1, <1>2, <1>4, Numbers DEF Newest, Inv, Receiver, TypeOK, PacketID
<1>6. Covers'
  BY <1>1, <1>2, <1>3, <1>p, Numbers DEF Covers, Inv, Receiver
<1>7. Picture'
  <2> SUFFICES ASSUME NEW d \in 0 .. extent' - 1
               PROVE  history'[Index(base', d)] <=>
                        [time |-> timeHigh, id |-> p.id - d] \in accepted'
    BY <1>2 DEF Picture
  <2> DEFINE q == [time |-> timeHigh, id |-> p.id - d]
             bit == history'[Index(base', d)]
  <2>1. d \in 0 .. Window - 1
    BY <1>3, Numbers
  <2>2. /\ d = 0 => bit
        /\ d \in 1 .. delta - 1 => ~bit
        /\ d >= delta => (bit <=> history[Index(base, d - delta)])
    BY <1>1, <1>2, <2>1, AdvanceBits
  <2>3. q.id = p.id - d /\ q.time = timeHigh
    OBVIOUS
  <2>4. q = p <=> d = 0
    BY <1>1, <1>2, <2>1, <2>3, Numbers
  <2>5. ASSUME d \in 1 .. delta - 1 PROVE q \notin accepted
    BY <1>1, <1>p, <2>3, <2>5, Numbers DEF Newest, Inv, Receiver
  <2>6. ASSUME d >= delta PROVE history[Index(base, d - delta)] <=> q \in accepted
    <3>1. d - delta \in 0 .. extent - 1
      BY SMTT(30), <1>1, <1>2, <1>3, <2>1, <2>6, Numbers
    <3>2. idHigh - (d - delta) = p.id - d
      BY <1>1, <1>p, <2>1, Numbers
    <3> QED BY <3>1, <3>2 DEF Picture, Inv, Receiver
  <2>7. d = 0 \/ d \in 1 .. delta - 1 \/ d >= delta
    BY <1>2, <2>1, Numbers
  <2> HIDE DEF q, bit
  <2>8. bit <=> q \in accepted'
    BY <1>2, <1>4, <2>2, <2>4, <2>5, <2>6, <2>7
  <2> QED BY <2>8 DEF q, bit
<1>8. idFloor' \in 0 .. idHigh'
  BY <1>1, <1>2, <1>4, Numbers
<1> QED BY <1>1, <1>2, <1>3, <1>5, <1>6, <1>7, <1>8, AcceptKeeps, Numbers

\* A later time starts an empty window.
LEMMA RecordAfterStep ==
    ASSUME Inv, NEW p \in net, NEW late \in BOOLEAN, Accept(p, late), RecordAfter(p)
    PROVE  Inv'
<1>1. /\ p \in PacketID /\ p.id \in 1 .. MaxId /\ p.time \in 0 .. MaxClock
      /\ p = [time |-> p.time, id |-> p.id]
      /\ history \in [0 .. Window - 1 -> BOOLEAN] /\ timeHigh \in 0 .. MaxClock
      /\ 0 \in 0 .. Window - 1 /\ 0 \in 0 .. Window /\ p.id \in Nat \ {0}
  BY Sent, Numbers DEF Inv, TypeOK
<1>2. /\ timeHigh < p.time /\ timeHigh' = p.time /\ idFloor' = 0 /\ idHigh' = p.id
      /\ base' = Base(0, p.id) /\ extent' = Extent(0, p.id) /\ history' = History(0, p.id)
  BY DEF RecordAfter, Advance
<1>3. /\ base' \in 0 .. Window - 1 /\ extent' \in 0 .. Window
      /\ extent' = (IF p.id < Window THEN p.id ELSE Window)
      /\ history' \in [0 .. Window - 1 -> BOOLEAN]
  BY <1>1, <1>2, AdvanceTypes, Numbers
<1>4. /\ accepted' = accepted \cup {p} /\ p \notin accepted
  BY Recorded
<1>5. Newest'
  BY <1>1, <1>2, <1>4, Numbers DEF Newest, Inv, Receiver, TypeOK, PacketID
<1>6. Covers'
  BY <1>2, <1>3 DEF Covers
<1>7. Picture'
  <2> SUFFICES ASSUME NEW d \in 0 .. extent' - 1
               PROVE  history'[Index(base', d)] <=>
                        [time |-> p.time, id |-> p.id - d] \in accepted'
    BY <1>2 DEF Picture
  <2> DEFINE q == [time |-> p.time, id |-> p.id - d]
             bit == history'[Index(base', d)]
  <2>1. d \in 0 .. Window - 1 /\ (d = 0 \/ d \in 1 .. p.id - 1)
    BY <1>1, <1>3, Numbers
  <2>2. /\ d = 0 => bit
        /\ d \in 1 .. p.id - 1 => ~bit
    BY <1>1, <1>2, <2>1, AdvanceBits
  <2>3. q.id = p.id - d /\ q.time = p.time
    OBVIOUS
  <2>4. q = p <=> d = 0
    BY <1>1, <2>1, <2>3, Numbers
  <2>5. q \notin accepted
    BY <1>1, <1>2, <2>3, Numbers DEF Newest, Inv, Receiver, TypeOK, PacketID
  <2> HIDE DEF q, bit
  <2>6. bit <=> q \in accepted'
    BY <1>4, <2>1, <2>2, <2>4, <2>5
  <2> QED BY <2>6 DEF q, bit
<1>8. idFloor' \in 0 .. idHigh'
  BY <1>1, <1>2, Numbers
<1> QED BY <1>1, <1>2, <1>3, <1>5, <1>6, <1>7, <1>8, AcceptKeeps, Numbers

\* A lower ID sets its own bit and no other.
LEMMA RecordBehindStep ==
    ASSUME Inv, NEW p \in net, NEW late \in BOOLEAN, Accept(p, late), RecordBehind(p, late)
    PROVE  Inv'
<1>p. PICK e : e = idHigh - p.id
  OBVIOUS
<1>1. /\ p \in PacketID /\ p.id \in 1 .. MaxId /\ p.time \in 0 .. MaxClock
      /\ p = [time |-> p.time, id |-> p.id]
      /\ base \in 0 .. Window - 1 /\ extent \in 0 .. Window
      /\ history \in [0 .. Window - 1 -> BOOLEAN]
      /\ idHigh \in 0 .. MaxId /\ timeHigh \in 0 .. MaxClock
  BY Sent DEF Inv, TypeOK
<1>2. /\ p.time = timeHigh /\ p.id <= idHigh /\ idFloor' = Floor(late)
      /\ history' = [history EXCEPT ![Index(base, e)] = TRUE]
      /\ UNCHANGED <<base, extent, idHigh, timeHigh>>
  BY <1>p DEF RecordBehind
<1>3. /\ accepted' = accepted \cup {p} /\ Acceptable(p, Floor(late))
      /\ Floor(late) \in 0 .. idHigh
  BY Recorded
<1>4. e \in 0 .. extent - 1
  <2>1. p.id > idHigh - Window
    BY <1>1, <1>2, <1>3, Numbers DEF Acceptable
  <2> QED BY <1>1, <1>2, <1>p, <2>1, Numbers DEF Covers, Inv, Receiver
<1>5. history' \in [0 .. Window - 1 -> BOOLEAN]
  BY <1>1, <1>2
<1>6. Newest'
  BY <1>1, <1>2, <1>3, Numbers DEF Newest, Inv, Receiver
<1>7. Covers'
  BY <1>2 DEF Covers, Inv, Receiver
<1>8. Picture'
  <2> SUFFICES ASSUME NEW d \in 0 .. extent - 1
               PROVE  history'[Index(base, d)] <=>
                        [time |-> timeHigh, id |-> idHigh - d] \in accepted'
    BY <1>2 DEF Picture
  <2> DEFINE q == [time |-> timeHigh, id |-> idHigh - d]
  <2>1. d \in 0 .. Window - 1 /\ e \in 0 .. Window - 1
    BY <1>1, <1>4, Numbers
  <2>2. Index(base, d) \in 0 .. Window - 1 /\ (Index(base, d) = Index(base, e) <=> d = e)
    BY <1>1, <2>1, IndexApart
  <2>3. q.id = idHigh - d /\ q.time = timeHigh
    OBVIOUS
  <2>4. q = p <=> d = e
    BY <1>1, <1>2, <1>p, <2>1, <2>3, Numbers
  <2>5. history[Index(base, d)] <=> q \in accepted
    BY DEF Picture, Inv, Receiver
  <2> HIDE DEF q
  <2>6. history'[Index(base, d)] <=> q \in accepted'
    BY <1>1, <1>2, <1>3, <2>2, <2>4, <2>5
  <2> QED BY <2>6 DEF q
<1> QED BY <1>1, <1>2, <1>3, <1>5, <1>6, <1>7, <1>8, AcceptKeeps, Numbers

-----------------------------------------------------------------------------
(* The theorems.                                                           *)

\* Before the first packet nothing was sent, and the ring covers nothing.
LEMMA Start == Init => Inv
<1> SUFFICES ASSUME Init PROVE Inv
  OBVIOUS
<1>1. TypeOK
  <2>1. sendPid \in PacketID
    BY Numbers DEF Init, PacketID
  <2>2. history \in [0 .. Window - 1 -> BOOLEAN] /\ base \in 0 .. Window - 1
    BY Numbers DEF Init
  <2>3. clock \in 1 .. MaxClock
    BY ClockAssumption DEF Init
  <2>4. extent \in 0 .. Window /\ idHigh \in 0 .. MaxId /\ timeHigh \in 0 .. MaxClock
        /\ idFloor \in 0 .. MaxId
    BY Numbers DEF Init
  <2>5. /\ longForm \in BOOLEAN /\ wrapped \in BOOLEAN
        /\ net = {} /\ reused = {} /\ accepted = {} /\ twice = {}
    BY DEF Init
  <2> QED BY <2>1, <2>2, <2>3, <2>4, <2>5 DEF TypeOK
<1>2. Sender
  BY <1>1, Numbers DEF Init, Sender, TypeOK
<1>3. Receiver
  BY Numbers DEF Init, Receiver, Picture, Newest, Covers
<1> QED BY <1>1, <1>2, <1>3 DEF Inv

\* The invariant is inductive.
LEMMA Step == Inv /\ [Next]_vars => Inv'
<1> SUFFICES ASSUME Inv, [Next]_vars PROVE Inv'
  OBVIOUS
<1>1. ASSUME NEW p \in net, NEW late \in BOOLEAN, Accept(p, late) PROVE Inv'
  BY <1>1, RecordAfterStep, RecordAheadStep, RecordBehindStep DEF Accept
<1>2. ASSUME NEW p \in net, NEW late \in BOOLEAN, TestOnly(p, late) PROVE Inv'
  BY <1>2, TestOnlyStep
<1>3. CASE UNCHANGED vars
  BY <1>3 DEF vars, sendVars, ring, Inv, TypeOK, Sender, Below, Receiver, Picture, Newest, Covers
<1> QED BY <1>1, <1>2, <1>3, SendStep, SendWrapsStep, TickStep DEF Next

LEMMA Invariance == Spec => []Inv
  BY Start, Step, PTL DEF Spec

\* Counters and ring indices stay in the ranges of their types.
THEOREM Types == Spec => []TypeOK
<1>1. Inv => TypeOK
  BY DEF Inv
<1> QED BY <1>1, Invariance, PTL

\* The sender gives no two packets of a key the same ID, through wraparound.
THEOREM IdsAreFresh == Spec => []FreshIds
<1>1. Inv => FreshIds
  BY DEF Inv, Sender, FreshIds
<1> QED BY <1>1, Invariance, PTL

\* No packet is accepted twice, whatever the network repeats and reorders.
THEOREM NoReplay == Spec => []NeverTwice
<1>1. Inv => NeverTwice
  BY DEF Inv, Receiver, NeverTwice
<1> QED BY <1>1, Invariance, PTL

\* The ring of bits is the set of the packets accepted, as far as it reaches.
THEOREM RingIsFaithful == Spec => []WindowFaithful
<1>1. Inv => WindowFaithful
  BY DEF Inv, Receiver, Picture, Newest, Covers, WindowFaithful
<1> QED BY <1>1, Invariance, PTL

\* A packet that is refused though it was never accepted is old.
THEOREM RefusedAreOld == Spec => []OnlyOldRefused
<1>1. ASSUME Inv PROVE OnlyOldRefused
  <2> SUFFICES ASSUME NEW p \in net \ accepted, Verdict(p, idFloor) # "SUCCESS"
               PROVE  p.time < timeHigh \/ p.id <= idHigh - Window \/ p.id <= idFloor
    BY DEF OnlyOldRefused
  <2>1. ~Acceptable(p, idFloor)
    BY <1>1, VerdictMeans DEF Inv, TypeOK
  <2>2. /\ p.id \in Nat /\ p.time \in Nat /\ idFloor \in Nat /\ idHigh \in Nat
        /\ timeHigh \in Nat
    BY <1>1, Sent, Numbers DEF Inv, TypeOK
  <2> QED BY <2>1, <2>2, Numbers DEF Acceptable
<1> QED BY <1>1, Invariance, PTL

\* The verdicts, under the present floor, of the packets sent.
VerdictsRight == \A p \in net : Verdict(p, idFloor) = "SUCCESS" <=> Acceptable(p, idFloor)

\* The invariant makes them right.
LEMMA VerdictsMean == Inv => VerdictsRight
  BY VerdictMeans DEF Inv, TypeOK, VerdictsRight

\* What a later call accepts, an earlier one would have accepted too.
LEMMA AcceptableBefore ==
    ASSUME Inv, Inv', [Next]_vars, NEW p \in net, Acceptable(p, idFloor)'
    PROVE  Acceptable(p, idFloor)
<1>1. /\ p.id \in Nat /\ p.time \in Nat
      /\ idFloor \in Nat /\ idHigh \in Nat /\ timeHigh \in Nat
      /\ idFloor' \in Nat /\ idHigh' \in Nat /\ timeHigh' \in Nat
      /\ idFloor <= idHigh /\ idFloor' <= idHigh'
  BY Sent, Numbers DEF Inv, TypeOK, Receiver
<1>2. CASE UNCHANGED <<idHigh, timeHigh, idFloor, accepted>>
  BY <1>2 DEF Acceptable
<1>3. ASSUME NEW q \in net, NEW late \in BOOLEAN, TestOnly(q, late)
      PROVE  Acceptable(p, idFloor)
  <2>1. UNCHANGED <<idHigh, timeHigh, accepted>> /\ idFloor <= idFloor'
    BY <1>1, <1>3 DEF TestOnly, ring, Floor
  <2> QED BY <1>1, <2>1, Numbers DEF Acceptable
<1>4. ASSUME NEW q \in net, NEW late \in BOOLEAN, Accept(q, late)
      PROVE  Acceptable(p, idFloor)
  <2>1. accepted \subseteq accepted'
    BY <1>4 DEF Accept
  <2>2. CASE RecordAfter(q)
    <3>1. timeHigh < timeHigh'
      BY <2>2 DEF RecordAfter
    <3> QED BY <1>1, <3>1 DEF Acceptable
  <2>3. CASE RecordAhead(q, late)
    <3>1. timeHigh' = timeHigh /\ idHigh < idHigh' /\ idFloor <= idFloor'
      BY <1>1, <2>3 DEF RecordAhead, Advance, Floor
    <3> QED BY <1>1, <2>1, <3>1, Numbers DEF Acceptable
  <2>4. CASE RecordBehind(q, late)
    <3>1. timeHigh' = timeHigh /\ idHigh = idHigh' /\ idFloor <= idFloor'
      BY <1>1, <2>4 DEF RecordBehind, Floor
    <3> QED BY <1>1, <2>1, <3>1, Numbers DEF Acceptable
  <2> QED BY <1>4, <2>2, <2>3, <2>4 DEF Accept
<1>5. CASE Send \/ SendWraps \/ Tick \/ UNCHANGED vars
  BY <1>2, <1>5 DEF Send, SendWraps, Tick, vars, ring
<1> QED BY <1>3, <1>4, <1>5 DEF Next

\* A packet refused once is refused for good.
THEOREM RefusalIsFinal == Spec => RefusedForGood
<1> DEFINE A == \A p \in net : Verdict(p, idFloor) # "SUCCESS"
                                 => Verdict(p, idFloor)' # "SUCCESS"
<1>1. Inv' => VerdictsRight'
  BY VerdictsMean, PTL
<1>2. ASSUME Inv, Inv', [Next]_vars PROVE [A]_vars
  <2> SUFFICES ASSUME NEW p \in net, Verdict(p, idFloor)' = "SUCCESS"
               PROVE  Verdict(p, idFloor) = "SUCCESS"
    OBVIOUS
  <2>1. p \in net'
    BY <1>2 DEF Next, Send, SendWraps, Tick, Accept, TestOnly, vars, sendVars
  <2>2. Acceptable(p, idFloor)'
    BY <1>1, <1>2, <2>1 DEF VerdictsRight
  <2>3. Acceptable(p, idFloor)
    BY <1>2, <2>2, AcceptableBefore
  <2> QED BY <1>2, <2>3, VerdictsMean DEF VerdictsRight
<1>3. Inv /\ Inv' /\ [Next]_vars => [A]_vars
  BY <1>2
<1>4. RefusedForGood <=> [][A]_vars
  BY DEF RefusedForGood
<1> QED BY <1>3, <1>4, Invariance, PTL DEF Spec

=============================================================================
