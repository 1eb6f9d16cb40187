---------------------------- MODULE KeyContexts ----------------------------
(***************************************************************************)
(* The life of the keys of a session: ProtoContext and its KeyContexts     *)
(* (ssl/proto.hpp), on both peers.  A peer has a primary key, on which it  *)
(* transmits, and at most one secondary, which is new or retiring.  A new  *)
(* one is negotiated by a reset and an auth message each way, becomes      *)
(* primary some time after it went active, and expires.                    *)
(*                                                                         *)
(* Time passes in ticks.  A key's timers are measured by its age.  A peer  *)
(* handles what is due before the next tick, and in a tick in which the    *)
(* network is up every message and acknowledgement arrives, in any order;  *)
(* in an outage any of them may be late.  A packet does not outlive the    *)
(* key context that would retransmit it.                                   *)
(*                                                                         *)
(* Abstracted: the packets under the reliable link (see ReliableLink), the *)
(* TLS handshake (part of the auth messages), and keepalive timeouts.      *)
(* The wrong versions before some definitions are used by nothing: they    *)
(* are mistakes the properties have been shown to catch.                   *)
(***************************************************************************)
EXTENDS Integers, Sequences

CONSTANTS
    Client, Server,
    KeyIdMask,        \* KEY_ID_MASK
    HandshakeWindow,  \* config->handshake_window
    BecomePrimary,    \* config->become_primary
    RenegotiateSec,   \* the option reneg-sec
    LimitDelay,       \* delay of a key-limit renegotiation; twice on the server
    DataLimited,      \* TRUE: a 64-bit block cipher, with a DataLimit per key
    Limited,          \* the peers that may exceed a limit of a key
    MaxOutage,        \* bound: ticks with the network down
    MaxLimits,        \* bound: limits exceeded
    MaxTime           \* bound: ticks

Peer == {Client, Server}

ASSUME PeerAssumption == Client # Server
ASSUME TimeAssumption ==
    {KeyIdMask, HandshakeWindow, BecomePrimary, RenegotiateSec, LimitDelay} \subseteq Nat \ {0}
\* load_common(): become_primary is 5 s, or at most half of reneg-sec, which is 10 s
\* at least, unless the option become-primary sets it; KEY_ID_MASK is 7.  Only what
\* is proved of undisturbed sessions rests on this.
ASSUME DurationAssumption == BecomePrimary + 1 < RenegotiateSec /\ KeyIdMask > 2
ASSUME LimitAssumption == DataLimited \in BOOLEAN /\ Limited \subseteq Peer
ASSUME BoundAssumption == {MaxOutage, MaxLimits, MaxTime} \subseteq Nat

VARIABLES
    peer,     \* ProtoContext: [pri, sec, upcoming, nKeys, actives]
    up,       \* the network is up in this tick
    outages,  \* ticks in which it was not
    limits,   \* keys whose limit was exceeded
    time      \* ticks so far

vars == <<peer, up, outages, limits, time>>

Other(e) == IF e = Client THEN Server ELSE Client

\* load_common(): the server's is longer, to avoid collisions.
RenegotiateTogether(e) == RenegotiateSec
Renegotiate(e) == RenegotiateSec + (IF e = Server THEN HandshakeWindow ELSE 0)
Expire == 2 * RenegotiateSec

State == {"INITIAL", "WAIT_RESET", "WAIT_RESET_ACK", "WAIT_AUTH", "WAIT_AUTH_ACK", "ACTIVE"}
Event == {"NONE", "ACTIVE", "NEGOTIATE", "BECOME_PRIMARY", "PRIMARY_PENDING", "RENEGOTIATE",
          "RENEGOTIATE_FORCE", "RENEGOTIATE_QUEUE", "EXPIRE"}

\* num counts the contexts a peer has created, and tells them apart when key IDs
\* recur; with is the num of the other end's context the key was agreed with.
\* out holds the messages given to the reliable link, of which acked are
\* acknowledged, and got counts those received from the other end.
KeyContext ==
    [num : Nat \ {0}, kid : 0 .. KeyIdMask, state : State,
     out : Seq({"RESET", "AUTH"}), acked : Nat, got : Nat, with : Nat,
     cur : Event, next : Event \ {"ACTIVE", "RENEGOTIATE_QUEUE"}, due : Nat, age : Nat,
     invalid : Event, green : BOOLEAN, fired : BOOLEAN]
NoKey == [num |-> 0, kid |-> KeyIdMask + 1]

\* upcoming is upcoming_key_id; nKeys and actives count.
ProtoContext ==
    [pri : KeyContext, sec : KeyContext \cup {NoKey},
     upcoming : 1 .. KeyIdMask, nKeys : Nat, actives : Nat]

Defined(c) == c.num # 0

-----------------------------------------------------------------------------
(***************************************************************************)
(* One key context.                                                        *)
(***************************************************************************)

SetEvent(c, cur, next, due) == [c EXCEPT !.cur = cur, !.next = next, !.due = due]

PrepareExpire(c, cur) ==
    SetEvent(c, cur, "EXPIRE", IF c.fired THEN c.age + 2 * HandshakeWindow ELSE Expire)

SetNextIfUnspecified(c) ==
    IF c.next = "NONE" /\ c.invalid = "NONE" THEN PrepareExpire(c, "NONE") ELSE c

\* kev_error(): invalidating a context also cancels its next event, but that is done
\* once: one that was invalid already keeps the event, and the time it was due.
KevErrorKeepsNext(c) == [c EXCEPT !.cur = c.next, !.invalid = IF @ = "NONE" THEN c.next ELSE @]
KevError(c) ==
    IF c.invalid # "NONE" THEN [c EXCEPT !.cur = c.next]
    ELSE [SetEvent(c, c.next, "NONE", 0) EXCEPT !.invalid = c.next]

\* The constructor; start() sends the initiator's reset.
NewContext(num, kid, initiator) ==
    [num |-> num, kid |-> kid,
     state |-> "WAIT_RESET", out |-> IF initiator THEN <<"RESET">> ELSE <<>>,
     acked |-> 0, got |-> 0, with |-> 0,
     cur |-> "NONE", next |-> "NEGOTIATE", due |-> HandshakeWindow, age |-> 0,
     invalid |-> "NONE", green |-> FALSE, fired |-> FALSE]

\* data_limit_defer(): a client does not transmit on a renegotiated key before
\* the server does.
Defer(e, c) == e = Client /\ DataLimited /\ c.kid # 0 /\ ~c.green

\* event_pending() and process_next_event()
Due(c) == Defined(c) /\ c.next # "NONE" /\ c.age >= c.due
Fire(e, c) ==
    IF ~Due(c) \/ c.cur # "NONE" THEN c
    ELSE CASE c.next = "BECOME_PRIMARY" ->
                IF Defer(e, c)
                THEN SetEvent(c, "NONE", "PRIMARY_PENDING", c.age + 2 * HandshakeWindow)
                ELSE SetEvent(c, "BECOME_PRIMARY", "RENEGOTIATE", Renegotiate(e))
           [] c.next \in {"RENEGOTIATE", "RENEGOTIATE_FORCE"} -> PrepareExpire(c, c.next)
           [] OTHER -> KevError(c)

\* post_ack_action(), active() and active_event()
PostAck(e, c) ==
    CASE ~Defined(c) \/ c.acked < Len(c.out) -> c
      [] OTHER ->
        CASE c.state = "WAIT_RESET_ACK" ->
               [c EXCEPT !.state = "WAIT_AUTH",
                         !.out = IF e = Client THEN Append(@, "AUTH") ELSE @]
          [] c.state = "WAIT_AUTH_ACK" ->
               [SetEvent(c, "ACTIVE", "BECOME_PRIMARY", c.age + BecomePrimary)
                  EXCEPT !.state = "ACTIVE"]
          [] OTHER -> c

\* raw_recv() and app_recv(): the next message of the other end's context from.
RecvMessage(e, c, from) ==
    LET got == [c EXCEPT !.got = @ + 1]
    IN  IF from.out[got.got] = "RESET"
        THEN IF c.state # "WAIT_RESET" THEN got
             ELSE [got EXCEPT !.state = "WAIT_RESET_ACK",
                              !.out = IF e = Server THEN Append(@, "RESET") ELSE @]
        ELSE [got EXCEPT !.state = "WAIT_AUTH_ACK", !.with = from.num,
                         !.out = IF e = Server THEN Append(@, "AUTH") ELSE @]

\* An auth message is read only in its turn, and by the end that took part in
\* its TLS handshake.
Readable(c, from) ==
    LET n == c.got + 1
    IN  /\ from.acked < n /\ n <= Len(from.out)
        /\ from.out[n] = "AUTH" => /\ c.state = "WAIT_AUTH"
                                   /\ from.with \in {0, c.num}

-----------------------------------------------------------------------------
(***************************************************************************)
(* A peer's two contexts.                                                  *)
(***************************************************************************)

NextKeyIdUnmasked(kid) == kid + 1
NextKeyId(kid) == IF kid = KeyIdMask THEN 1 ELSE kid + 1

\* new_secondary_key(): it replaces whatever secondary there was.
NewSecondary(p, initiator) ==
    [p EXCEPT !.sec = NewContext(p.nKeys + 1, p.upcoming, initiator),
              !.nKeys = @ + 1, !.upcoming = NextKeyId(@)]

\* promote_secondary_to_primary()
PromoteWipesOld(p) == [p EXCEPT !.pri = p.sec, !.sec = NoKey]
Promote(p) ==
    [p EXCEPT !.pri = p.sec, !.sec = PrepareExpire(p.pri, "NONE")]

\* disconnect()
Disconnect(p, ev) ==
    LET Gone(c) == IF Defined(c) /\ c.invalid = "NONE"
                   THEN [SetEvent(c, c.cur, "NONE", 0) EXCEPT !.invalid = ev] ELSE c
    IN  [p EXCEPT !.pri = Gone(@), !.sec = Gone(@)]

\* process_primary_event()
ProcessPrimary(p) ==
    LET ev == p.pri.cur
        q  == [p EXCEPT !.pri.cur = "NONE"]
        r  == CASE ev = "ACTIVE" -> [q EXCEPT !.actives = @ + 1]
                [] ev \in {"RENEGOTIATE", "RENEGOTIATE_FORCE"} -> NewSecondary(q, TRUE)
                [] ev = "EXPIRE" ->
                     IF Defined(q.sec) /\ q.sec.invalid = "NONE"
                     THEN Promote(q) ELSE Disconnect(q, ev)
                [] ev = "NEGOTIATE" -> Disconnect(q, ev)
                [] OTHER -> q
    IN  IF ev = "NONE" THEN p
        ELSE [r EXCEPT !.pri = SetNextIfUnspecified(@)]

\* key_limit_reneg() on the primary, for the time the secondary takes over.
QueueRenegotiation(e, p) ==
    IF p.sec.next # "BECOME_PRIMARY" THEN p
    ELSE LET left == p.sec.due - p.sec.age
             wait == IF e = Server THEN 2 * LimitDelay ELSE LimitDelay
         IN  [p EXCEPT !.pri = SetEvent(@, "NONE", "RENEGOTIATE_FORCE", p.pri.age + left + wait)]

\* What makes a peer begin again with a new secondary.
RetryUnlessNegotiating == {"PRIMARY_PENDING", "RENEGOTIATE_FORCE"}
Retry == {"NEGOTIATE", "PRIMARY_PENDING", "RENEGOTIATE_FORCE"}

\* process_secondary_event()
ProcessSecondary(e, p) ==
    LET ev == p.sec.cur
        q  == [p EXCEPT !.sec.cur = "NONE"]
        r  == CASE ev = "ACTIVE" -> [q EXCEPT !.pri = PrepareExpire(@, "NONE")]
                [] ev = "BECOME_PRIMARY" -> IF q.sec.invalid = "NONE" THEN Promote(q) ELSE q
                [] ev = "EXPIRE" -> [q EXCEPT !.sec = NoKey]
                [] ev = "RENEGOTIATE_QUEUE" -> QueueRenegotiation(e, q)
                [] ev \in Retry -> NewSecondary(q, TRUE)
                [] OTHER -> q
    IN  IF ~Defined(p.sec) \/ ev = "NONE" THEN p
        ELSE IF Defined(r.sec) THEN [r EXCEPT !.sec = SetNextIfUnspecified(@)]
        ELSE r

\* One round of flush() and process_events(), and the loop of them, which ends when
\* there is nothing left to do.  That it has by then, after which a round changes
\* nothing, is FlushEnds; a loop that never ends is cut here with an event still due.
MaxRounds == 13
Round(e, p) ==
    LET a == [p EXCEPT !.pri = PostAck(e, @), !.sec = PostAck(e, @)]
        b == ProcessPrimary([a EXCEPT !.pri = Fire(e, @)])
    IN  ProcessSecondary(e, [b EXCEPT !.sec = Fire(e, @)])

Flush(e, p) ==
    LET rounds[n \in 0 .. MaxRounds] == IF n = 0 THEN p ELSE Round(e, rounds[n - 1])
    IN  rounds[MaxRounds]

-----------------------------------------------------------------------------
(***************************************************************************)
(* What the parent of a ProtoContext calls, for as long as its primary is  *)
(* valid.                                                                  *)
(***************************************************************************)

Running(e) == peer[e].pri.invalid = "NONE"

\* Contexts that can send.
Senders(e) == {c \in {peer[e].pri, peer[e].sec} :
                 Defined(c) /\ c.invalid = "NONE" /\ Running(e)}

\* The context that PacketType and select_key_context() find for a key ID.
Slot(e, kid) ==
    IF kid = peer[e].pri.kid THEN "pri" ELSE IF kid = peer[e].sec.kid THEN "sec" ELSE "none"

\* housekeeping(): something is due.
Housekeeping(e) ==
    /\ Running(e)
    /\ Due(peer[e].pri) \/ Due(peer[e].sec)
    /\ peer' = [peer EXCEPT ![e] = Flush(e, @)]
    /\ UNCHANGED <<up, outages, limits, time>>

\* control_net_recv(): a packet for one of the peer's contexts,
CanReceive(e, from) ==
    LET s == Slot(e, from.kid)
    IN  /\ Running(e)
        /\ s # "none"
        /\ peer[e][s].invalid = "NONE"
        /\ Readable(peer[e][s], from)
Receive(e, from) ==
    /\ CanReceive(e, from)
    /\ LET p == [peer[e] EXCEPT ![Slot(e, from.kid)] = RecvMessage(e, @, from)]
       IN  peer' = [peer EXCEPT ![e] = Flush(e, p)]
    /\ UNCHANGED <<up, outages, limits, time>>

\* a reset that requests a renegotiation, under the key ID that comes next,
CanSoftReset(e, from) ==
    /\ Running(e)
    /\ Slot(e, from.kid) = "none"
    /\ from.kid = peer[e].upcoming
    /\ from.acked = 0 /\ from.out # <<>> /\ from.out[1] = "RESET"
SoftReset(e, from) ==
    /\ CanSoftReset(e, from)
    /\ LET p == NewSecondary(peer[e], FALSE)
       IN  peer' = [peer EXCEPT ![e] = Flush(e, [p EXCEPT !.sec = RecvMessage(e, @, from)])]
    /\ UNCHANGED <<up, outages, limits, time>>

\* or acknowledgements.
CanAck(e, from) ==
    LET s == Slot(e, from.kid)
    IN  /\ Running(e)
        /\ s # "none"
        /\ peer[e][s].invalid = "NONE"
        /\ peer[e][s].acked < from.got /\ from.got <= Len(peer[e][s].out)
ReceiveAck(e, from) ==
    /\ CanAck(e, from)
    /\ peer' = [peer EXCEPT ![e] =
                  Flush(e, [@ EXCEPT ![Slot(e, from.kid)].acked = from.got])]
    /\ UNCHANGED <<up, outages, limits, time>>

\* data_decrypt(): the first data packet on a key turns its decrypt limit green.
CanTurnGreen(e) ==
    LET from == peer[Other(e)].pri
        s    == Slot(e, from.kid)
    IN  /\ DataLimited
        /\ Running(e) /\ Running(Other(e))
        /\ from.state = "ACTIVE"
        /\ s # "none"
        /\ peer[e][s].invalid = "NONE"
        /\ peer[e][s].state = "ACTIVE"
        /\ peer[e][s].with = from.num
        /\ ~peer[e][s].green
TurnGreen(e) ==
    LET s == Slot(e, peer[Other(e)].pri.kid)
        c == [peer[e][s] EXCEPT !.green = TRUE]
    IN  /\ CanTurnGreen(e)
        /\ peer' = [peer EXCEPT ![e] = Flush(e, [@ EXCEPT ![s] =
                      IF c.next = "PRIMARY_PENDING"
                      THEN SetEvent(c, "NONE", "BECOME_PRIMARY", c.age + 1) ELSE c])]
        /\ UNCHANGED <<up, outages, limits, time>>

\* schedule_key_limit_renegotiation(): the data limit of a key is exceeded, which
\* DataLimit does not report before the key has decrypted a packet; or, with any
\* cipher, the packet IDs of a key that has long been the primary are near their end.
Eligible(c) == DataLimited /\ c.green
PacketIdsWrap(e, s) == s = "pri" /\ peer[e][s].next # "BECOME_PRIMARY"
LimitExceeded(e, s) ==
    LET c == [peer[e][s] EXCEPT !.fired = TRUE]
        d == IF c.next = "BECOME_PRIMARY" THEN [c EXCEPT !.cur = "RENEGOTIATE_QUEUE"]
             ELSE SetEvent(c, "NONE", "RENEGOTIATE",
                           c.age + (IF e = Server THEN 2 * LimitDelay ELSE LimitDelay))
    IN  /\ e \in Limited /\ limits < MaxLimits
        /\ Running(e)
        /\ Defined(peer[e][s])
        /\ peer[e][s].state = "ACTIVE"
        /\ peer[e][s].invalid = "NONE"
        /\ ~peer[e][s].fired
        /\ Eligible(peer[e][s]) \/ PacketIdsWrap(e, s)
        /\ peer' = [peer EXCEPT ![e] = Flush(e, [@ EXCEPT ![s] = d])]
        /\ limits' = limits + 1
        /\ UNCHANGED <<up, outages, time>>

-----------------------------------------------------------------------------
(***************************************************************************)
(* Time.                                                                   *)
(***************************************************************************)

Handled(e) == Running(e) => ~Due(peer[e].pri) /\ ~Due(peer[e].sec)

Arrived(e) ==
    /\ \A c \in Senders(Other(e)) :
         ~CanReceive(e, c) /\ ~CanSoftReset(e, c) /\ ~CanAck(e, c)
    /\ ~CanTurnGreen(e)

Older(c) == IF Defined(c) THEN [c EXCEPT !.age = @ + 1] ELSE c

Tick ==
    /\ time < MaxTime
    /\ \A e \in Peer : Handled(e)
    /\ up => \A e \in Peer : Arrived(e)
    /\ time' = time + 1
    /\ UNCHANGED limits
    /\ peer' = [e \in Peer |-> [peer[e] EXCEPT !.pri = Older(@), !.sec = Older(@)]]
    /\ \/ up' = TRUE /\ outages' = outages
       \/ up' = FALSE /\ outages < MaxOutage /\ outages' = outages + 1

\* reset() and the client's start()
Init ==
    /\ peer = [e \in Peer |->
                 [pri |-> NewContext(1, 0, e = Client), sec |-> NoKey,
                  upcoming |-> 1, nKeys |-> 1, actives |-> 0]]
    /\ \/ up = TRUE /\ outages = 0
       \/ up = FALSE /\ MaxOutage > 0 /\ outages = 1
    /\ limits = 0
    /\ time = 0

Next ==
    \/ Tick
    \/ \E e \in Peer :
         \/ Housekeeping(e)
         \/ TurnGreen(e)
         \/ \E s \in {"pri", "sec"} : LimitExceeded(e, s)
         \/ \E c \in Senders(Other(e)) :
              Receive(e, c) \/ SoftReset(e, c) \/ ReceiveAck(e, c)

Spec == Init /\ [][Next]_vars

-----------------------------------------------------------------------------
(***************************************************************************)
(* Properties.                                                             *)
(***************************************************************************)

\* What a context keeps to in any state: nothing is acknowledged that was not sent;
\* a key is agreed before it is active, and active only when the other end has all
\* that it was sent; a valid context always waits for something.
WellFormed(c) ==
    /\ c.acked <= Len(c.out)
    /\ c.with # 0 <=> c.state \in {"WAIT_AUTH_ACK", "ACTIVE"}
    /\ c.state = "ACTIVE" => c.acked = Len(c.out)
    /\ c.next = "NONE" => c.invalid # "NONE"

\* Type invariant: a primary is never missing, contexts are well formed, and the
\* time at which one becomes primary, from which that of a renegotiation queued
\* meanwhile is reckoned, is never past.
TypeOK ==
    /\ peer \in [Peer -> ProtoContext]
    /\ \A e \in Peer : \A c \in {peer[e].pri, peer[e].sec} :
         Defined(c) => /\ WellFormed(c)
                       /\ Running(e) /\ c.next = "BECOME_PRIMARY" => c.age <= c.due
    /\ up \in BOOLEAN
    /\ outages \in 0 .. MaxOutage
    /\ limits \in 0 .. MaxLimits
    /\ time \in 0 .. MaxTime

\* flush() repeats process_events() for as long as that finds an event, and one
\* event leads to another: a promotion to a renegotiation, an expiry to a promotion.
\* Whatever has fallen due, the loop ends: no call leaves an event to be processed.
\* So it is where HandshakeWindow < Expire.  Otherwise a first key that has not been
\* negotiated in its window, while its successor has just become active, is invalid
\* with an expiry that is due, and has nothing valid to give way to.
Idle(p) == \A c \in {p.pri, p.sec} : Defined(c) => c.cur = "NONE" /\ ~Due(c)
FlushEnds ==
    [][\A e \in Peer : peer'[e] # peer[e] /\ time' = time => Idle(peer'[e])]_vars

\* "we still wait for KEV_BECOME_PRIMARY event ... before we use it": the key a
\* peer transmits on, the first one apart, is one the other peer can decrypt
\* with, unless the network has failed or a key limit forced a renegotiation.
TransmitKeyKnown ==
    \A e \in Peer :
      LET k == peer[e].pri
      IN  outages = 0 /\ limits = 0 /\ Running(e) /\ Running(Other(e)) /\ k.num > 1 =>
            /\ k.state = "ACTIVE"
            /\ \E c \in Senders(Other(e)) :
                 c.state = "ACTIVE" /\ c.kid = k.kid /\ c.with = k.num /\ k.with = c.num

\* Whatever fails, a primary that is going to expire has a successor: a newer context
\* that is valid, if only just begun again, and takes its place.  And as long as no key
\* limit has been exceeded, outages that are shorter than a handshake window, all
\* together, do not end a session.  An outage of a whole window may, also after the
\* first key: it lets the server's own request come, which never completes, until the
\* primary expires and a secondary still negotiating takes its place and fails.
SessionSurvives ==
    \A e \in Peer :
      LET p == peer[e]
      IN  /\ Running(e) /\ p.pri.next = "EXPIRE" =>
               p.sec.num > p.pri.num /\ p.sec.invalid = "NONE"
          /\ outages < HandshakeWindow /\ limits = 0 => Running(e)

\* "Queue delayed renegotiation request from secondary to take effect after
\* KEV_BECOME_PRIMARY": a primary that has exceeded its limit is about to be
\* renegotiated, or is being so.
LimitHonoured ==
    \A e \in Peer :
      LET p == peer[e]
      IN  p.pri.fired /\ Running(e) =>
            \/ p.sec.num > p.pri.num
            \/ /\ p.pri.next \in {"RENEGOTIATE", "RENEGOTIATE_FORCE"}
               /\ p.pri.due <= p.pri.age + 2 * LimitDelay

\* "SSL/TLS negotiation must complete by this time", over a network that has not
\* failed: also one that a key limit of the client hastens, and whatever is exchanged
\* under the other key meanwhile.  It is so because the client is first to ask: what
\* the server asks for does not complete (see RecvMessage), so that its own time,
\* a window later, must not come before the client's request has arrived.
NegotiatedInTime ==
    outages = 0 => \A e \in Peer : \A c \in {peer[e].pri, peer[e].sec} :
                     Defined(c) /\ c.age >= HandshakeWindow => c.state = "ACTIVE"

=============================================================================
