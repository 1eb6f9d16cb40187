---------------------------- MODULE ReplayWindow ----------------------------
(***************************************************************************)
(* Packet IDs (crypto/packet_id.hpp): PacketIDSend numbers the packets of  *)
(* a key, PacketIDReceive is the sliding window that refuses replays.      *)
(*                                                                         *)
(* The window is a ring of Window bits.  The bit of the highest ID seen is *)
(* at base, and that of an ID d lower at base + d, for d < extent.  The    *)
(* network may deliver any packet ever sent, at any time and any number of *)
(* times.  All packets considered are authentic: a packet reaches the      *)
(* window only after its HMAC or AEAD tag has been verified.               *)
(*                                                                         *)
(* Abstracted: the receiver's clock, of which the window uses only whether *)
(* PKTID_RECV_EXPIRE seconds have passed since its last call.  The wrong   *)
(* versions before some definitions are used by nothing: they are mistakes *)
(* the properties have been shown to catch.                                *)
(***************************************************************************)
EXTENDS Integers, FiniteSets

CONSTANTS
    Window,    \* REPLAY_WINDOW_SIZE
    MaxId,     \* the largest PacketID::id_t
    MaxClock   \* bound: the last second of the sender's clock

ASSUME WindowAssumption == Window \in Nat /\ Window > 1
ASSUME IdAssumption     == MaxId \in Nat \ {0}
ASSUME ClockAssumption  == MaxClock \in Nat \ {0}

VARIABLES
    longForm,  \* form_: an ID has a time (control channel), or not (data channel)
    clock,     \* the sender's clock, in seconds
    sendPid,   \* PacketIDSend::pid_
    wrapped,   \* packet_id_wrap was thrown, which ends the session
    base, extent, history, idHigh, timeHigh, idFloor,  \* PacketIDReceive
    net,       \* history: the packets sent
    reused,    \* history: packet IDs given to two packets
    accepted,  \* history: packets accepted
    twice      \* history: packets accepted twice

sendVars == <<longForm, clock, sendPid, wrapped, net, reused>>
ring     == <<base, extent, history, idHigh, timeHigh>>
vars     == <<sendVars, ring, idFloor, accepted, twice>>

PacketID == [time : 0 .. MaxClock, id : 0 .. MaxId]

-----------------------------------------------------------------------------
(***************************************************************************)
(* The sender.                                                             *)
(***************************************************************************)

\* next(): the time is that of the first packet, and of the first after each
\* wraparound.
NextPidTimeKept(now) ==
    LET id == (sendPid.id + 1) % (MaxId + 1)
    IN  [time |-> IF sendPid.time = 0 THEN now ELSE sendPid.time,
         id   |-> IF id = 0 THEN 1 ELSE id]
NextPid(now) ==
    LET id == (sendPid.id + 1) % (MaxId + 1)
    IN  [time |-> IF sendPid.time = 0 \/ id = 0 THEN now ELSE sendPid.time,
         id   |-> IF id = 0 THEN 1 ELSE id]

\* What write() puts on the wire.
OnWire(pid) == IF longForm THEN pid ELSE [pid EXCEPT !.time = 0]

\* A full round of IDs takes more than a second.
Send ==
    LET pid == NextPid(clock)
    IN  /\ ~wrapped
        /\ sendPid.id = MaxId => longForm /\ sendPid.time < clock
        /\ sendPid' = pid
        /\ net' = net \cup {OnWire(pid)}
        /\ reused' = reused \cup ({OnWire(pid)} \cap net)
        /\ UNCHANGED <<longForm, clock, wrapped, ring, idFloor, accepted, twice>>

\* In the short form, wraparound throws.
SendWraps ==
    /\ ~wrapped
    /\ sendPid.id = MaxId
    /\ ~longForm
    /\ wrapped' = TRUE
    /\ sendPid' = [sendPid EXCEPT !.id = 0]
    /\ UNCHANGED <<longForm, clock, net, reused, ring, idFloor, accepted, twice>>

Tick ==
    /\ clock < MaxClock
    /\ clock' = clock + 1
    /\ UNCHANGED <<longForm, sendPid, wrapped, net, reused, ring, idFloor, accepted, twice>>

-----------------------------------------------------------------------------
(***************************************************************************)
(* The receiver.                                                           *)
(***************************************************************************)

\* REPLAY_INDEX, for a given base.
Index(b, i) == (b + i) % Window

\* The floor, raised when nothing was tested for PKTID_RECV_EXPIRE seconds.
FloorForgotten(late) == IF late THEN idHigh ELSE 0
Floor(late) == IF late THEN idHigh ELSE idFloor

\* The result of do_test_add() under the given floor.
Verdict(p, floor) ==
    LET delta == idHigh - p.id
    IN  CASE p.id = 0            -> "PKTID_INVALID"
          [] p.id # 0 /\ p.time < timeHigh -> "PKTID_TIME_BACKTRACK"
          [] p.id # 0 /\ p.time > timeHigh -> "SUCCESS"
          [] p.id # 0 /\ p.time = timeHigh ->
               IF delta < 0           THEN "SUCCESS"
               ELSE IF delta >= extent     THEN "PKTID_BACKTRACK"
               ELSE IF p.id <= floor       THEN "PKTID_EXPIRE"
               ELSE IF history[Index(base, delta)] THEN "PKTID_REPLAY"
               ELSE "SUCCESS"

\* Move the window up by delta > 0: the bits of the IDs passed over are cleared,
\* all of them when it jumps past its whole length.
Base(b, delta) == IF delta < Window THEN Index(b, -delta) ELSE 0

ExtentUncapped(e, delta) == e + delta
ExtentReset(e, delta) == IF delta < Window THEN delta ELSE Window
Extent(e, delta) == IF e + delta < Window THEN e + delta ELSE Window

HistoryKept(b, delta) ==
    [i \in 0 .. Window - 1 |-> i = Base(b, delta) \/ history[i]]
HistoryCleared(b, delta) == [i \in 0 .. Window - 1 |-> i = Base(b, delta)]
History(b, delta) ==
    LET passed == {Index(Base(b, delta), i) : i \in 1 .. delta - 1}
    IN  [i \in 0 .. Window - 1 |->
           \/ i = Base(b, delta)
           \/ delta < Window /\ history[i] /\ i \notin passed]

Advance(p, delta, b, e) ==
    /\ base' = Base(b, delta)
    /\ extent' = Extent(e, delta)
    /\ history' = History(b, delta)
    /\ idHigh' = p.id

\* Its three outcomes under mod: a later time starts an empty window (whose old
\* bits stay), a higher ID moves the window, a lower one sets its bit.
RecordAfter(p) ==
    /\ timeHigh < p.time
    /\ timeHigh' = p.time
    /\ idFloor' = 0
    /\ Advance(p, p.id, 0, 0)

RecordAhead(p, late) ==
    /\ p.time = timeHigh
    /\ p.id > idHigh
    /\ idFloor' = Floor(late)
    /\ Advance(p, p.id - idHigh, base, extent)
    /\ UNCHANGED timeHigh

RecordBehind(p, late) ==
    /\ p.time = timeHigh
    /\ p.id <= idHigh
    /\ idFloor' = Floor(late)
    /\ history' = [history EXCEPT ![Index(base, idHigh - p.id)] = TRUE]
    /\ UNCHANGED <<base, extent, idHigh, timeHigh>>

\* test_add(p, now, TRUE) accepts.
Accept(p, late) ==
    /\ Verdict(p, Floor(late)) = "SUCCESS"
    /\ RecordAfter(p) \/ RecordAhead(p, late) \/ RecordBehind(p, late)
    /\ accepted' = accepted \cup {p}
    /\ twice' = twice \cup ({p} \cap accepted)
    /\ UNCHANGED sendVars

\* test_add(p, now, FALSE), or a test that fails: only the floor may change.
TestOnly(p, late) ==
    /\ idFloor' = Floor(late)
    /\ UNCHANGED <<sendVars, ring, accepted, twice>>

-----------------------------------------------------------------------------

Init ==
    /\ longForm \in BOOLEAN
    /\ clock = 1
    /\ sendPid = [time |-> 0, id |-> 0]
    /\ wrapped = FALSE
    /\ base = 0
    /\ extent = 0
    /\ history = [i \in 0 .. Window - 1 |-> FALSE]
    /\ idHigh = 0
    /\ timeHigh = 0
    /\ idFloor = 0
    /\ net = {}
    /\ reused = {}
    /\ accepted = {}
    /\ twice = {}

Next ==
    \/ Send
    \/ SendWraps
    \/ Tick
    \/ \E p \in net, late \in BOOLEAN : Accept(p, late) \/ TestOnly(p, late)

Spec == Init /\ [][Next]_vars

-----------------------------------------------------------------------------
(***************************************************************************)
(* Properties.                                                             *)
(***************************************************************************)

\* Type invariant: the counters and ring indices stay in the range of their
\* C++ types, through wraparound too.
TypeOK ==
    /\ longForm \in BOOLEAN
    /\ clock \in 1 .. MaxClock
    /\ sendPid \in PacketID
    /\ wrapped \in BOOLEAN
    /\ base \in 0 .. Window - 1
    /\ extent \in 0 .. Window
    /\ history \in [0 .. Window - 1 -> BOOLEAN]
    /\ idHigh \in 0 .. MaxId
    /\ timeHigh \in 0 .. MaxClock
    /\ idFloor \in 0 .. MaxId
    /\ net \subseteq PacketID
    /\ reused \subseteq net
    /\ accepted \subseteq net
    /\ twice \subseteq accepted

\* PacketIDSend never gives two packets of a key the same ID: the nonce of an
\* AEAD cipher is made of it, and the receiver would refuse the second packet.
FreshIds == reused = {}

\* "to check that no packet-id (i.e. sequence number + optional timestamp) is
\* accepted more than once": whatever the order and the repetitions.
NeverTwice == twice = {}

\* The ring tells the truth: the bit of every ID it covers is set exactly when
\* that packet was accepted, nothing newer was, and it covers as much as it can.
WindowFaithful ==
    /\ \A d \in 0 .. extent - 1 :
         history[Index(base, d)] <=> [time |-> timeHigh, id |-> idHigh - d] \in accepted
    /\ \A p \in accepted : /\ p.time <= timeHigh
                           /\ p.time = timeHigh => p.id <= idHigh
                           /\ p.id > 0
    /\ extent = (IF idHigh < Window THEN idHigh ELSE Window)

\* A packet that was never accepted is refused only for its age: it is of an
\* earlier time, Window or more behind the highest, or below the floor.
OnlyOldRefused ==
    \A p \in net \ accepted :
      Verdict(p, idFloor) # "SUCCESS" =>
        \/ p.time < timeHigh
        \/ p.id <= idHigh - Window
        \/ p.id <= idFloor

\* Once a packet is refused it stays refused: a replayed packet does not become
\* acceptable again as the window moves on, its bits are reused, or time passes.
RefusedForGood ==
    [][\A p \in net : Verdict(p, idFloor) # "SUCCESS"
                        => Verdict(p, idFloor)' # "SUCCESS"]_vars

=============================================================================
