------------------------- MODULE KeyContextsProofs -------------------------
(***************************************************************************)
(* What KeyContexts promises for any key IDs, outages and limits: contexts *)
(* stay well formed, and the loop of flush() ends, where a handshake is    *)
(* given up before its key would expire.  The loop is bounded by what its  *)
(* contexts still have to do (Rank): in orderly contexts (Orderly) an      *)
(* event that leads to another leads to one that has less to do.           *)
(*                                                                         *)
(* And what undisturbed peers do (InStep): they go from key to key in      *)
(* step, so that each knows the key that the other transmits on, and has   *)
(* negotiated it in time.                                                  *)
(***************************************************************************)
EXTENDS KeyContexts, SequenceLemmas

\* A context that keeps to its type and to TypeOK's clauses.
Timely(c) == c.next = "BECOME_PRIMARY" => c.age <= c.due
Key == {c \in KeyContext : WellFormed(c) /\ Timely(c)}
Contexts ==
    [pri : Key, sec : Key \cup {NoKey}, upcoming : 1 .. KeyIdMask, nKeys : Nat, actives : Nat]

\* Nothing is left for post_ack_action().
Quiet(c) == c.acked < Len(c.out) \/ c.state \notin {"WAIT_RESET_ACK", "WAIT_AUTH_ACK"}

\* What a primary and a secondary have to do before they come to rest: events that
\* wait to be processed, and those that time brings on at once.
Chain(c, promotion) ==
    IF ~Due(c) THEN 0
    ELSE IF c.next = "BECOME_PRIMARY" THEN promotion
    ELSE IF c.next \in {"RENEGOTIATE", "RENEGOTIATE_FORCE"} THEN 2 ELSE 1
One(b) == IF b THEN 1 ELSE 0
PriRank(c) == One(~Quiet(c)) + One(c.cur # "NONE") + Chain(c, 3)
SecRank(c) ==
    IF ~Defined(c) THEN 0
    ELSE 2 * One(~Quiet(c)) + 2 * One(c.cur # "NONE") + Chain(c, 4)
Rank(p) == PriRank(p.pri) + SecRank(p.sec)

\* What keeps the loop from doing the same for ever: handshakes end before a key of
\* their age would expire, an invalid context has nothing left to do but to expire, and
\* an invalid primary does so only when there is a valid secondary to replace it.
Punctual(c) == c.next = "NEGOTIATE" => c.due = HandshakeWindow /\ c.age < Expire
Posted == {"NONE", "ACTIVE", "RENEGOTIATE_QUEUE"}
Spent(c) == Quiet(c) /\ c.cur = "NONE"
Valid(c) == Defined(c) /\ c.invalid = "NONE"
Ended(c) == Defined(c) /\ c.invalid # "NONE"
Orderly(p) ==
    /\ Punctual(p.pri) /\ (Defined(p.sec) => Punctual(p.sec))
    /\ p.pri.cur \in Posted /\ (Defined(p.sec) => p.sec.cur \in Posted)
    /\ Ended(p.pri) => /\ Spent(p.pri)
                       /\ Due(p.pri) => p.pri.next = "EXPIRE" /\ Valid(p.sec)
    /\ Ended(p.sec) => Spent(p.sec) /\ p.sec.next \in {"NONE", "EXPIRE"}

\* The same when the primary's event has been dealt with, and the secondary's not yet.
Midway(p) ==
    /\ Punctual(p.pri) /\ (Defined(p.sec) => Punctual(p.sec))
    /\ p.pri.cur \in Posted /\ (Defined(p.sec) => p.sec.cur \in Posted)
    /\ Ended(p.pri) => Spent(p.pri) /\ ~Due(p.pri)
    /\ Ended(p.sec) =>
         \/ p.sec.cur = "NONE" /\ p.sec.next \in {"NONE", "EXPIRE"}
         \/ p.sec.next = "NONE" /\ p.pri.age < Expire

-----------------------------------------------------------------------------
(* One context. *)

LEMMA Constants ==
    /\ KeyIdMask \in Nat /\ HandshakeWindow \in Nat /\ BecomePrimary \in Nat
    /\ RenegotiateSec \in Nat /\ LimitDelay \in Nat
    /\ KeyIdMask > 0 /\ HandshakeWindow > 0 /\ BecomePrimary > 0
    /\ RenegotiateSec > 0 /\ LimitDelay > 0
  BY TimeAssumption

LEMMA RankIs ==
    ASSUME NEW c
    PROVE  PriRank(c) \in Nat /\ SecRank(c) \in Nat /\ Chain(c, 3) \in Nat /\ Chain(c, 4) \in Nat
<1>1. \A b : One(b) \in Nat
  BY DEF One
<1>2. Chain(c, 3) \in Nat /\ Chain(c, 4) \in Nat
  BY DEF Chain
<1> QED BY <1>1, <1>2 DEF PriRank, SecRank

LEMMA KeyIs ==
    ASSUME NEW c \in Key
    PROVE  /\ Defined(c) /\ c # NoKey
           /\ c.num \in Nat /\ c.num # 0 /\ c.kid \in 0 .. KeyIdMask /\ c.state \in State
           /\ c.acked \in Nat /\ c.got \in Nat /\ c.with \in Nat /\ c.due \in Nat /\ c.age \in Nat
           /\ c.cur \in Event /\ c.next \in Event \ {"ACTIVE", "RENEGOTIATE_QUEUE"}
           /\ c.invalid \in Event
           /\ WellFormed(c) /\ Timely(c)
  BY DEF Key, KeyContext, Defined, NoKey

\* set_event() touches nothing else.
LEMMA SetEventFacts ==
    ASSUME NEW c \in Key, NEW cur \in Event,
           NEW next \in Event \ {"ACTIVE", "RENEGOTIATE_QUEUE"}, NEW due \in Nat,
           next = "BECOME_PRIMARY" => c.age <= due,
           next = "NONE" => c.invalid # "NONE"
    PROVE  LET d == SetEvent(c, cur, next, due)
           IN  /\ d \in Key /\ d.num = c.num /\ d.invalid = c.invalid
               /\ d.age = c.age /\ d.state = c.state
               /\ d.cur = cur /\ d.next = next /\ d.due = due
               /\ Quiet(d) <=> Quiet(c)
  BY DEF SetEvent, Key, KeyContext, WellFormed, Timely, Quiet

LEMMA PrepareExpireFacts ==
    ASSUME NEW c \in Key, NEW cur \in Event
    PROVE  LET d == PrepareExpire(c, cur)
           IN  /\ d \in Key /\ d.num = c.num /\ d.invalid = c.invalid
               /\ d.cur = cur /\ d.next = "EXPIRE" /\ d.age = c.age
               /\ c.age < Expire => ~Due(d)
               /\ Quiet(d) <=> Quiet(c)
<1> DEFINE due == IF c.fired THEN c.age + 2 * HandshakeWindow ELSE Expire
           d == SetEvent(c, cur, "EXPIRE", due)
<1>1. due \in Nat /\ c.age \in Nat /\ (c.age < Expire => c.age < due)
  BY Constants, KeyIs DEF Expire
<1>2. "EXPIRE" \in Event \ {"ACTIVE", "RENEGOTIATE_QUEUE"}
  BY DEF Event
<1>3. PrepareExpire(c, cur) = d
  BY DEF PrepareExpire
<1> HIDE DEF due
<1>4. /\ d \in Key /\ d.num = c.num /\ d.invalid = c.invalid /\ d.age = c.age
      /\ d.cur = cur /\ d.next = "EXPIRE" /\ d.due = due /\ (Quiet(d) <=> Quiet(c))
  BY <1>1, <1>2, SetEventFacts
<1> HIDE DEF d
<1>5. c.age < Expire => ~Due(d)
  BY <1>1, <1>4 DEF Due
<1> QED BY <1>3, <1>4, <1>5

\* The clearing of an event.
LEMMA ResetEventFacts ==
    ASSUME NEW c \in Key
    PROVE  LET d == [c EXCEPT !.cur = "NONE"]
           IN  /\ d \in Key /\ d.num = c.num /\ d.invalid = c.invalid
               /\ d.age = c.age /\ d.due = c.due
               /\ d.cur = "NONE" /\ d.next = c.next
               /\ Quiet(d) <=> Quiet(c)
  BY DEF Key, KeyContext, WellFormed, Timely, Quiet, Event

LEMMA KevErrorFacts ==
    ASSUME NEW c \in Key, c.next # "NONE"
    PROVE  LET d == KevError(c)
           IN  /\ d \in Key /\ d.num = c.num /\ d.invalid # "NONE"
               /\ d.cur = c.next /\ d.age = c.age
               /\ \/ c.invalid = "NONE" /\ d.next = "NONE"
                  \/ c.invalid # "NONE" /\ d.next = c.next /\ d.due = c.due
               /\ Quiet(d) <=> Quiet(c)
<1>1. CASE c.invalid # "NONE"
  <2> DEFINE d == [c EXCEPT !.cur = c.next]
  <2>1. KevError(c) = d /\ c.next \in Event
    BY <1>1, KeyIs DEF KevError
  <2>2. /\ d \in Key /\ d.num = c.num /\ d.invalid = c.invalid /\ d.cur = c.next
        /\ d.age = c.age /\ d.next = c.next /\ d.due = c.due /\ (Quiet(d) <=> Quiet(c))
    BY <2>1 DEF Key, KeyContext, WellFormed, Timely, Quiet
  <2> QED BY <1>1, <2>1, <2>2
<1>2. CASE c.invalid = "NONE"
  <2>1. KevError(c) = [c EXCEPT !.cur = c.next, !.next = "NONE", !.due = 0, !.invalid = c.next]
    BY <1>2 DEF KevError, SetEvent, Key, KeyContext
  <2>2. "NONE" \in Event \ {"ACTIVE", "RENEGOTIATE_QUEUE"} /\ c.next \in Event
    BY KeyIs DEF Event
  <2> QED BY ZenonT(30), <1>2, <2>1, <2>2, KeyIs DEF Key, KeyContext, WellFormed, Timely, Quiet
<1> QED BY <1>1, <1>2

LEMMA NewContextFacts ==
    ASSUME NEW num \in Nat \ {0}, NEW kid \in 0 .. KeyIdMask, NEW initiator \in BOOLEAN
    PROVE  LET d == NewContext(num, kid, initiator)
           IN  /\ d \in Key /\ d.num = num /\ d.got = 0 /\ d.state = "WAIT_RESET"
               /\ d.cur = "NONE" /\ ~Due(d) /\ Quiet(d) /\ d.invalid = "NONE"
               /\ d.next = "NEGOTIATE" /\ Punctual(d)
<1> DEFINE out == IF initiator THEN <<"RESET">> ELSE <<>>
<1>1. out \in Seq({"RESET", "AUTH"}) /\ Len(out) \in Nat
  <2>1. CASE initiator
    BY <2>1
  <2>2. CASE ~initiator
    BY <2>2
  <2> QED BY <2>1, <2>2
<1>2. NewContext(num, kid, initiator) =
        [num |-> num, kid |-> kid, state |-> "WAIT_RESET", out |-> out,
         acked |-> 0, got |-> 0, with |-> 0,
         cur |-> "NONE", next |-> "NEGOTIATE", due |-> HandshakeWindow, age |-> 0,
         invalid |-> "NONE", green |-> FALSE, fired |-> FALSE]
  BY DEF NewContext
<1> HIDE DEF out
<1> QED BY <1>1, <1>2, Constants
        DEF Key, KeyContext, WellFormed, Timely, Quiet, Event, State, Due, Punctual, Expire

\* post_ack_action(): afterwards nothing is left for it, and it has not added to what
\* there is to do.
LEMMA PostAckFacts ==
    ASSUME NEW e \in Peer, NEW c \in Key
    PROVE  LET d == PostAck(e, c)
           IN  /\ d \in Key /\ d.num = c.num /\ d.invalid = c.invalid
               /\ Quiet(d) /\ (Quiet(c) => d = c)
               /\ d.cur \in {c.cur, "ACTIVE"} /\ (Punctual(c) => Punctual(d))
               /\ PriRank(d) <= PriRank(c) /\ SecRank(d) <= SecRank(c)
<1>1. CASE Quiet(c)
  <2>1. PostAck(e, c) = c
    BY <1>1, KeyIs DEF PostAck, Quiet
  <2> QED BY <1>1, <2>1, RankIs
<1>2. CASE ~Quiet(c) /\ c.state = "WAIT_RESET_ACK"
  <2> DEFINE out == IF e = Client THEN Append(c.out, "AUTH") ELSE c.out
             d == [c EXCEPT !.state = "WAIT_AUTH", !.out = out]
  <2>1. PostAck(e, c) = d
    BY <1>2, KeyIs DEF PostAck, Quiet
  <2>2. out \in Seq({"RESET", "AUTH"}) /\ Len(out) \in Nat /\ Len(out) >= Len(c.out)
    <3>1. c.out \in Seq({"RESET", "AUTH"})
      BY DEF Key, KeyContext
    <3>2. CASE e = Client
      BY <3>1, <3>2
    <3>3. CASE e # Client
      BY <3>1, <3>3
    <3> QED BY <3>2, <3>3
  <2> HIDE DEF out
  <2>a. /\ d \in KeyContext /\ d.num = c.num /\ d.invalid = c.invalid /\ d.state = "WAIT_AUTH"
        /\ d.cur = c.cur /\ d.next = c.next /\ d.due = c.due /\ d.age = c.age
        /\ d.acked = c.acked /\ d.with = c.with /\ Len(d.out) \in Nat /\ Len(d.out) >= Len(c.out)
    BY <2>2 DEF Key, KeyContext, State
  <2> HIDE DEF d
  <2>b. c.acked \in Nat /\ Len(c.out) \in Nat /\ c.acked <= Len(c.out)
    BY DEF Key, KeyContext, WellFormed
  <2>c. d.acked <= Len(d.out)
    BY <2>a, <2>b
  <2>3. d \in Key /\ d.num = c.num /\ d.invalid = c.invalid /\ Quiet(d)
        /\ d.cur = c.cur /\ d.next = c.next /\ d.due = c.due /\ d.age = c.age
    BY <1>2, <2>a, <2>c, KeyIs DEF Key, WellFormed, Timely, Quiet
  <2>4. Chain(d, 3) = Chain(c, 3) /\ Chain(d, 4) = Chain(c, 4)
    BY <2>3, KeyIs DEF Chain, Due
  <2>5. Chain(c, 3) \in Nat /\ Chain(c, 4) \in Nat
    BY RankIs
  <2>6. PriRank(d) <= PriRank(c) /\ SecRank(d) <= SecRank(c)
    BY <1>2, <2>3, <2>4, <2>5, KeyIs DEF PriRank, SecRank, One, Defined
  <2>7. Punctual(c) => Punctual(d)
    BY <2>3 DEF Punctual
  <2> QED BY <1>2, <2>1, <2>3, <2>6, <2>7 DEF d
<1>3. CASE ~Quiet(c) /\ c.state = "WAIT_AUTH_ACK"
  <2> DEFINE a == SetEvent(c, "ACTIVE", "BECOME_PRIMARY", c.age + BecomePrimary)
             d == [a EXCEPT !.state = "ACTIVE"]
  <2>1. PostAck(e, c) = d
    BY <1>3, KeyIs DEF PostAck, Quiet
  <2>2. /\ a \in Key /\ a.num = c.num /\ a.invalid = c.invalid /\ a.age = c.age
        /\ a.state = c.state /\ a.cur = "ACTIVE" /\ a.next = "BECOME_PRIMARY"
        /\ a.due = c.age + BecomePrimary /\ ~Quiet(a)
    <3>1. "ACTIVE" \in Event /\ "BECOME_PRIMARY" \in Event \ {"ACTIVE", "RENEGOTIATE_QUEUE"}
      BY DEF Event
    <3> QED BY <1>3, <3>1, SetEventFacts, KeyIs, Constants
  <2> HIDE DEF a
  <2>3. d \in Key /\ d.num = a.num /\ d.invalid = a.invalid /\ Quiet(d)
        /\ d.cur = a.cur /\ d.next = a.next /\ d.due = a.due /\ d.age = a.age
    BY SMTT(30), <1>3, <2>2 DEF Key, KeyContext, State, WellFormed, Timely, Quiet
  <2> HIDE DEF d
  <2>4. Chain(d, 3) = 0 /\ Chain(d, 4) = 0
    BY <2>2, <2>3, KeyIs, Constants DEF Chain, Due
  <2>5. Chain(c, 3) \in Nat /\ Chain(c, 4) \in Nat
    BY RankIs
  <2>6. PriRank(d) <= PriRank(c) /\ SecRank(d) <= SecRank(c)
    BY <1>3, <2>2, <2>3, <2>4, <2>5, KeyIs DEF PriRank, SecRank, One, Defined
  <2>7. Punctual(d)
    BY <2>2, <2>3 DEF Punctual
  <2> QED BY <1>3, <2>1, <2>2, <2>3, <2>6, <2>7 DEF d
<1> QED BY <1>1, <1>2, <1>3 DEF Quiet

\* process_next_event(): nothing, or the event that is due, after which what follows
\* it is set.
LEMMA FireFacts ==
    ASSUME NEW e \in Peer, NEW c \in Key
    PROVE  LET d == Fire(e, c)
           IN  /\ d \in Key /\ d.num = c.num /\ d.age = c.age
               /\ Quiet(d) <=> Quiet(c)
               /\ \/ d = c /\ (c.cur # "NONE" \/ ~Due(c))
                  \/ /\ c.cur = "NONE" /\ Due(c)
                     /\ \/ c.next = "BECOME_PRIMARY" /\ d.cur = "NONE" /\ ~Due(d)
                           /\ d.next = "PRIMARY_PENDING" /\ d.invalid = c.invalid
                        \/ /\ c.next = "BECOME_PRIMARY" /\ d.cur = c.next
                           /\ d.next = "RENEGOTIATE" /\ d.invalid = c.invalid
                        \/ /\ c.next \in {"RENEGOTIATE", "RENEGOTIATE_FORCE"}
                           /\ d.cur = c.next /\ d.next = "EXPIRE" /\ d.invalid = c.invalid
                        \/ /\ c.next \in {"NEGOTIATE", "PRIMARY_PENDING", "EXPIRE"}
                           /\ d.cur = c.next /\ d.invalid # "NONE"
                           /\ \/ c.invalid = "NONE" /\ d.next = "NONE"
                              \/ c.invalid # "NONE" /\ d.next = c.next /\ d.due = c.due
<1>1. CASE ~Due(c) \/ c.cur # "NONE"
  BY <1>1 DEF Fire
<1>2. CASE Due(c) /\ c.cur = "NONE" /\ c.next = "BECOME_PRIMARY" /\ Defer(e, c)
  <2> DEFINE due == c.age + 2 * HandshakeWindow
             d == SetEvent(c, "NONE", "PRIMARY_PENDING", due)
  <2>1. Fire(e, c) = d
    BY <1>2 DEF Fire
  <2>2. due \in Nat /\ due > c.age
    BY KeyIs, Constants
  <2>3. "NONE" \in Event /\ "PRIMARY_PENDING" \in Event \ {"ACTIVE", "RENEGOTIATE_QUEUE"}
    BY DEF Event
  <2> HIDE DEF due
  <2>4. /\ d \in Key /\ d.num = c.num /\ d.invalid = c.invalid /\ d.age = c.age
        /\ d.cur = "NONE" /\ d.due = due /\ (Quiet(d) <=> Quiet(c))
        /\ d.next = "PRIMARY_PENDING"
    BY <2>2, <2>3, SetEventFacts
  <2> HIDE DEF d
  <2>5. ~Due(d)
    BY <2>2, <2>4, KeyIs DEF Due
  <2> QED BY <1>2, <2>1, <2>4, <2>5
<1>3. CASE Due(c) /\ c.cur = "NONE" /\ c.next = "BECOME_PRIMARY" /\ ~Defer(e, c)
  <2>1. Fire(e, c) = SetEvent(c, "BECOME_PRIMARY", "RENEGOTIATE", Renegotiate(e))
    BY <1>3 DEF Fire
  <2>2. Renegotiate(e) \in Nat
    BY Constants DEF Renegotiate
  <2>3. "BECOME_PRIMARY" \in Event /\ "RENEGOTIATE" \in Event \ {"ACTIVE", "RENEGOTIATE_QUEUE"}
    BY DEF Event
  <2> QED BY <1>3, <2>1, <2>2, <2>3, SetEventFacts
<1>4. CASE Due(c) /\ c.cur = "NONE" /\ c.next \in {"RENEGOTIATE", "RENEGOTIATE_FORCE"}
  <2> DEFINE d == PrepareExpire(c, c.next)
  <2>1. Fire(e, c) = d
    BY <1>4 DEF Fire
  <2>2. c.next \in Event
    BY KeyIs
  <2>3. /\ d \in Key /\ d.num = c.num /\ d.invalid = c.invalid
        /\ d.cur = c.next /\ d.next = "EXPIRE" /\ d.age = c.age /\ (Quiet(d) <=> Quiet(c))
    BY <2>2, PrepareExpireFacts
  <2> HIDE DEF d
  <2> QED BY <1>4, <2>1, <2>3
<1>5. CASE Due(c) /\ c.cur = "NONE" /\ c.next \in {"NEGOTIATE", "PRIMARY_PENDING", "EXPIRE"}
  <2>1. Fire(e, c) = KevError(c)
    BY <1>5 DEF Fire
  <2> QED BY <1>5, <2>1, KevErrorFacts
<1> QED BY <1>1, <1>2, <1>3, <1>4, <1>5, KeyIs DEF Due, Event

\* set_next_event_if_unspecified() has nothing to do for a well-formed context.
LEMMA AlwaysSpecified == ASSUME NEW c \in Key PROVE SetNextIfUnspecified(c) = c
  BY KeyIs DEF SetNextIfUnspecified, WellFormed

\* One that only has to expire has little to do.
LEMMA ExpiringFacts ==
    ASSUME NEW c \in Key, Quiet(c)
    PROVE  LET d == PrepareExpire(c, "NONE")
           IN  /\ d \in Key /\ d.num = c.num /\ d.invalid = c.invalid
               /\ Quiet(d) /\ d.cur = "NONE" /\ d.next = "EXPIRE"
               /\ c.age < Expire => ~Due(d)
               /\ PriRank(d) <= 1 /\ SecRank(d) <= 1
<1> DEFINE d == PrepareExpire(c, "NONE")
<1>1. /\ d \in Key /\ d.num = c.num /\ d.invalid = c.invalid
      /\ d.cur = "NONE" /\ d.next = "EXPIRE" /\ Quiet(d) /\ (c.age < Expire => ~Due(d))
  BY PrepareExpireFacts DEF Event
<1> HIDE DEF d
<1>2. PriRank(d) <= 1 /\ SecRank(d) <= 1
  BY <1>1, KeyIs DEF PriRank, SecRank, Chain, One
<1> QED BY <1>1, <1>2 DEF d

\* As a primary a context has no more to do than it had as a secondary.
LEMMA PromotedRank ==
    ASSUME NEW c \in Key
    PROVE  PriRank(c) <= SecRank(c)
  BY KeyIs DEF PriRank, SecRank, Chain, One

\* An event that is due on a primary, and what is left when it has been taken.
LEMMA FiredPrimary ==
    ASSUME NEW e \in Peer, NEW c \in Key, Quiet(c)
    PROVE  LET f == Fire(e, c)
               k == [f EXCEPT !.cur = "NONE"]
           IN  /\ f \in Key /\ k \in Key /\ k.num = c.num /\ Quiet(f) /\ Quiet(k)
               /\ f.cur = "NONE" => PriRank(f) = 0
               /\ f.cur # "NONE" => PriRank(c) > 0
               /\ f.cur # "NONE" /\ c.invalid = "NONE" => PriRank(k) < PriRank(c)
<1> DEFINE f == Fire(e, c)
           k == [f EXCEPT !.cur = "NONE"]
<1> SUFFICES
      /\ f \in Key /\ k \in Key /\ k.num = c.num /\ Quiet(f) /\ Quiet(k)
      /\ f.cur = "NONE" => PriRank(f) = 0
      /\ f.cur # "NONE" => PriRank(c) > 0
      /\ f.cur # "NONE" /\ c.invalid = "NONE" => PriRank(k) < PriRank(c)
  OBVIOUS
<1>1. f \in Key /\ f.num = c.num /\ Quiet(f)
  BY FireFacts
<1>2. \/ f = c /\ (c.cur # "NONE" \/ ~Due(c))
      \/ /\ c.cur = "NONE" /\ Due(c)
         /\ \/ c.next = "BECOME_PRIMARY" /\ f.cur = "NONE" /\ ~Due(f)
               /\ f.next = "PRIMARY_PENDING" /\ f.invalid = c.invalid
            \/ /\ c.next = "BECOME_PRIMARY" /\ f.cur = c.next
               /\ f.next = "RENEGOTIATE" /\ f.invalid = c.invalid
            \/ /\ c.next \in {"RENEGOTIATE", "RENEGOTIATE_FORCE"}
               /\ f.cur = c.next /\ f.next = "EXPIRE" /\ f.invalid = c.invalid
            \/ /\ c.next \in {"NEGOTIATE", "PRIMARY_PENDING", "EXPIRE"}
               /\ f.cur = c.next /\ f.invalid # "NONE"
               /\ \/ c.invalid = "NONE" /\ f.next = "NONE"
                  \/ c.invalid # "NONE" /\ f.next = c.next /\ f.due = c.due
  BY FireFacts
<1> HIDE DEF f
<1>3. /\ k \in Key /\ k.num = f.num /\ k.age = f.age /\ k.due = f.due
      /\ k.cur = "NONE" /\ k.next = f.next /\ Quiet(k)
  BY <1>1, ResetEventFacts
<1> HIDE DEF k
<1>4. PriRank(k) = Chain(k, 3) /\ Chain(k, 3) = Chain(f, 3)
  BY <1>1, <1>3, KeyIs DEF PriRank, One, Chain, Due
<1>5. CASE f = c /\ (c.cur # "NONE" \/ ~Due(c))
  BY <1>1, <1>3, <1>4, <1>5, RankIs DEF PriRank, One, Chain
<1>6. CASE c.cur = "NONE" /\ Due(c) /\ c.next = "BECOME_PRIMARY"
  BY <1>1, <1>2, <1>3, <1>4, <1>6 DEF PriRank, One, Chain
<1>7. CASE c.cur = "NONE" /\ Due(c) /\ c.next \in {"RENEGOTIATE", "RENEGOTIATE_FORCE"}
  BY <1>1, <1>2, <1>3, <1>4, <1>7 DEF PriRank, One, Chain
<1>8. CASE c.cur = "NONE" /\ Due(c) /\ c.next \in {"NEGOTIATE", "PRIMARY_PENDING", "EXPIRE"}
  BY <1>1, <1>2, <1>3, <1>4, <1>8 DEF PriRank, One, Chain, Due
<1> QED BY <1>1, <1>2, <1>3, <1>5, <1>6, <1>7, <1>8

\* The same on a secondary, which may have to promote it or to set its primary's timer.
LEMMA FiredSecondary ==
    ASSUME NEW e \in Peer, NEW c \in Key, Quiet(c)
    PROVE  LET f == Fire(e, c)
               k == [f EXCEPT !.cur = "NONE"]
           IN  /\ f \in Key /\ k \in Key /\ k.num = c.num /\ Quiet(f) /\ Quiet(k)
               /\ f.cur = "NONE" => SecRank(f) = 0
               /\ f.cur # "NONE" => SecRank(c) > 0
               /\ f.cur # "NONE" /\ (c.invalid = "NONE" \/ c.cur # "NONE") =>
                    /\ SecRank(k) < SecRank(c)
                    /\ f.cur = "ACTIVE" => SecRank(k) + 2 <= SecRank(c)
                    /\ f.cur = "BECOME_PRIMARY" => PriRank(k) + 2 <= SecRank(c)
<1> DEFINE f == Fire(e, c)
           k == [f EXCEPT !.cur = "NONE"]
           Less == /\ SecRank(k) < SecRank(c)
                   /\ f.cur = "ACTIVE" => SecRank(k) + 2 <= SecRank(c)
                   /\ f.cur = "BECOME_PRIMARY" => PriRank(k) + 2 <= SecRank(c)
<1> SUFFICES
      /\ f \in Key /\ k \in Key /\ k.num = c.num /\ Quiet(f) /\ Quiet(k)
      /\ f.cur = "NONE" => SecRank(f) = 0
      /\ f.cur # "NONE" => SecRank(c) > 0
      /\ f.cur # "NONE" /\ (c.invalid = "NONE" \/ c.cur # "NONE") => Less
  OBVIOUS
<1>1. f \in Key /\ f.num = c.num /\ Quiet(f)
  BY FireFacts
<1>2. \/ f = c /\ (c.cur # "NONE" \/ ~Due(c))
      \/ /\ c.cur = "NONE" /\ Due(c)
         /\ \/ c.next = "BECOME_PRIMARY" /\ f.cur = "NONE" /\ ~Due(f)
               /\ f.next = "PRIMARY_PENDING" /\ f.invalid = c.invalid
            \/ /\ c.next = "BECOME_PRIMARY" /\ f.cur = c.next
               /\ f.next = "RENEGOTIATE" /\ f.invalid = c.invalid
            \/ /\ c.next \in {"RENEGOTIATE", "RENEGOTIATE_FORCE"}
               /\ f.cur = c.next /\ f.next = "EXPIRE" /\ f.invalid = c.invalid
            \/ /\ c.next \in {"NEGOTIATE", "PRIMARY_PENDING", "EXPIRE"}
               /\ f.cur = c.next /\ f.invalid # "NONE"
               /\ \/ c.invalid = "NONE" /\ f.next = "NONE"
                  \/ c.invalid # "NONE" /\ f.next = c.next /\ f.due = c.due
  BY FireFacts
<1> HIDE DEF f
<1>3. /\ k \in Key /\ k.num = f.num /\ k.age = f.age /\ k.due = f.due
      /\ k.cur = "NONE" /\ k.next = f.next /\ Quiet(k)
  BY <1>1, ResetEventFacts
<1> HIDE DEF k
<1>4. /\ SecRank(k) = Chain(k, 4) /\ Chain(k, 4) = Chain(f, 4)
      /\ PriRank(k) = Chain(k, 3) /\ Chain(k, 3) = Chain(f, 3)
  BY <1>1, <1>3, KeyIs DEF PriRank, SecRank, One, Chain, Due
<1>a. Chain(f, 3) <= Chain(f, 4)
  BY DEF Chain
<1>5. CASE f = c /\ (c.cur # "NONE" \/ ~Due(c))
  BY <1>1, <1>3, <1>4, <1>a, <1>5, RankIs, KeyIs DEF SecRank, One, Chain
<1>6. CASE c.cur = "NONE" /\ Due(c) /\ c.next = "BECOME_PRIMARY"
  BY <1>1, <1>2, <1>3, <1>4, <1>6, KeyIs DEF SecRank, One, Chain
<1>7. CASE c.cur = "NONE" /\ Due(c) /\ c.next \in {"RENEGOTIATE", "RENEGOTIATE_FORCE"}
  BY <1>1, <1>2, <1>3, <1>4, <1>7, KeyIs DEF SecRank, One, Chain
<1>8. CASE c.cur = "NONE" /\ Due(c) /\ c.next \in {"NEGOTIATE", "PRIMARY_PENDING", "EXPIRE"}
  BY <1>1, <1>2, <1>3, <1>4, <1>8, KeyIs DEF SecRank, One, Chain, Due
<1> QED BY <1>1, <1>2, <1>3, <1>5, <1>6, <1>7, <1>8

-----------------------------------------------------------------------------
(* Two contexts. *)

\* What flush() has left of a peer when the acknowledgements are dealt with.
Calm == {p \in Contexts : Quiet(p.pri) /\ (Defined(p.sec) => Quiet(p.sec))}

LEMMA ContextsAre ==
    ASSUME NEW p \in Contexts
    PROVE  /\ p.pri \in Key /\ p.sec \in Key \cup {NoKey}
           /\ p.upcoming \in 1 .. KeyIdMask /\ p.nKeys \in Nat /\ p.actives \in Nat
           /\ Defined(p.pri) /\ (Defined(p.sec) <=> p.sec \in Key)
           /\ \A c \in Key : /\ [p EXCEPT !.pri = c] \in Contexts
                             /\ [p EXCEPT !.pri = c].pri = c
                             /\ [p EXCEPT !.pri = c].sec = p.sec
           /\ \A c \in Key \cup {NoKey} : /\ [p EXCEPT !.sec = c] \in Contexts
                                         /\ [p EXCEPT !.sec = c].pri = p.pri
                                         /\ [p EXCEPT !.sec = c].sec = c
           /\ [p EXCEPT !.pri = p.pri] = p /\ [p EXCEPT !.sec = p.sec] = p
<1>1. Defined(p.pri) /\ (Defined(p.sec) <=> p.sec \in Key)
  BY KeyIs DEF Contexts, NoKey, Defined
<1> QED BY <1>1 DEF Contexts

LEMMA NoKeyRank == SecRank(NoKey) = 0 /\ ~Defined(NoKey) /\ \A e : Fire(e, NoKey) = NoKey
  BY DEF SecRank, Defined, NoKey, Fire, Due

\* A new secondary has nothing to do.
LEMMA NewSecondaryFacts ==
    ASSUME NEW p \in Contexts, NEW initiator \in BOOLEAN
    PROVE  LET q == NewSecondary(p, initiator)
           IN  /\ q \in Contexts /\ q.pri = p.pri
               /\ q.sec \in Key /\ Quiet(q.sec) /\ SecRank(q.sec) = 0
               /\ q.sec.got = 0 /\ q.sec.state = "WAIT_RESET" /\ q.sec.invalid = "NONE"
               /\ q.sec.num = p.nKeys + 1 /\ q.sec.cur = "NONE" /\ Punctual(q.sec)
<1> DEFINE c == NewContext(p.nKeys + 1, p.upcoming, initiator)
           q == NewSecondary(p, initiator)
<1>1. /\ c \in Key /\ Quiet(c) /\ c.got = 0 /\ c.state = "WAIT_RESET" /\ c.invalid = "NONE"
      /\ c.num = p.nKeys + 1 /\ c.cur = "NONE" /\ ~Due(c) /\ Punctual(c)
  <2>1. p.nKeys + 1 \in Nat \ {0} /\ p.upcoming \in 0 .. KeyIdMask
    BY ContextsAre, Constants
  <2> QED BY <2>1, NewContextFacts
<1>2. SecRank(c) = 0
  BY <1>1 DEF SecRank, Chain, One
<1> DEFINE n == p.nKeys + 1
           k == NextKeyId(p.upcoming)
<1>3. n \in Nat /\ k \in 1 .. KeyIdMask
  BY ContextsAre, Constants DEF NextKeyId
<1>4. q = [p EXCEPT !.sec = c, !.nKeys = n, !.upcoming = k]
  BY DEF NewSecondary, Contexts
<1> HIDE DEF c, n, k
<1>5. q \in Contexts /\ q.pri = p.pri /\ q.sec = c
  BY <1>1, <1>3, <1>4 DEF Contexts
<1> QED BY <1>1, <1>2, <1>5

\* promote_secondary_to_primary()
LEMMA PromoteFacts ==
    ASSUME NEW p \in Calm, Defined(p.sec)
    PROVE  LET q == Promote(p)
           IN  /\ q \in Calm /\ q.pri = p.sec /\ Defined(q.sec) /\ SecRank(q.sec) <= 1
               /\ q.sec.cur = "NONE" /\ q.sec.next = "EXPIRE"
<1> DEFINE c == PrepareExpire(p.pri, "NONE")
           q == Promote(p)
<1>1. p \in Contexts /\ p.pri \in Key /\ Quiet(p.pri) /\ p.sec \in Key /\ Quiet(p.sec)
  BY ContextsAre DEF Calm
<1>2. c \in Key /\ Quiet(c) /\ SecRank(c) <= 1 /\ c.cur = "NONE" /\ c.next = "EXPIRE"
  BY <1>1, ExpiringFacts
<1>3. q = [p EXCEPT !.pri = p.sec, !.sec = c]
  BY DEF Promote
<1> HIDE DEF c
<1>4. q \in Contexts /\ q.pri = p.sec /\ q.sec = c
  BY <1>1, <1>2, <1>3 DEF Contexts
<1> QED BY <1>1, <1>2, <1>4, KeyIs DEF Calm

\* disconnect() leaves less to do.
LEMMA GoneFacts ==
    ASSUME NEW c \in Key, c.invalid = "NONE", Quiet(c), NEW ev \in Event, ev # "NONE"
    PROVE  LET d == [SetEvent(c, c.cur, "NONE", 0) EXCEPT !.invalid = ev]
           IN  /\ d \in Key /\ Quiet(d) /\ d.cur = c.cur /\ d.next = "NONE"
               /\ PriRank(d) <= PriRank(c) /\ SecRank(d) <= SecRank(c)
<1> DEFINE d == [SetEvent(c, c.cur, "NONE", 0) EXCEPT !.invalid = ev]
<1>1. d = [c EXCEPT !.cur = c.cur, !.next = "NONE", !.due = 0, !.invalid = ev]
  BY DEF SetEvent, Key, KeyContext
<1>2. "NONE" \in Event \ {"ACTIVE", "RENEGOTIATE_QUEUE"}
  BY DEF Event
<1> HIDE DEF d
<1>a. /\ d \in KeyContext /\ d.num = c.num /\ d.cur = c.cur /\ d.next = "NONE"
      /\ d.invalid # "NONE" /\ d.acked = c.acked /\ d.out = c.out /\ d.state = c.state
      /\ d.with = c.with
  BY <1>1, <1>2 DEF Key, KeyContext
<1>3. d \in Key /\ Quiet(d) /\ d.cur = c.cur /\ d.next = "NONE"
  BY <1>a DEF Key, WellFormed, Timely, Quiet
<1>4. Chain(d, 3) = 0 /\ Chain(d, 4) = 0
  BY <1>3 DEF Chain, Due
<1>5. PriRank(d) <= PriRank(c) /\ SecRank(d) <= SecRank(c)
  BY <1>3, <1>4, KeyIs, RankIs DEF PriRank, SecRank, One
<1> QED BY <1>3, <1>5 DEF d

LEMMA DisconnectFacts ==
    ASSUME NEW p \in Calm, NEW ev \in Event, ev # "NONE"
    PROVE  LET q == Disconnect(p, ev)
           IN  /\ q \in Calm
               /\ PriRank(q.pri) <= PriRank(p.pri) /\ SecRank(q.sec) <= SecRank(p.sec)
               /\ Ended(p.pri) => q.pri = p.pri
               /\ IF Valid(p.sec) THEN q.sec.next = "NONE" /\ q.sec.cur = p.sec.cur
                  ELSE q.sec = p.sec
<1> DEFINE Gone(c) == IF Defined(c) /\ c.invalid = "NONE"
                      THEN [SetEvent(c, c.cur, "NONE", 0) EXCEPT !.invalid = ev] ELSE c
           q == Disconnect(p, ev)
<1>1. /\ p \in Contexts /\ p.pri \in Key /\ Quiet(p.pri) /\ p.sec \in Key \cup {NoKey}
      /\ (p.sec \in Key => Quiet(p.sec))
  BY ContextsAre DEF Calm
<1>2. \A c \in Key : Quiet(c) => /\ Gone(c) \in Key /\ Quiet(Gone(c))
                               /\ PriRank(Gone(c)) <= PriRank(c) /\ SecRank(Gone(c)) <= SecRank(c)
                               /\ IF Valid(c) THEN Gone(c).next = "NONE" /\ Gone(c).cur = c.cur
                                  ELSE Gone(c) = c
  <2> SUFFICES ASSUME NEW c \in Key, Quiet(c)
               PROVE  /\ Gone(c) \in Key /\ Quiet(Gone(c))
                      /\ PriRank(Gone(c)) <= PriRank(c) /\ SecRank(Gone(c)) <= SecRank(c)
                      /\ IF Valid(c) THEN Gone(c).next = "NONE" /\ Gone(c).cur = c.cur
                         ELSE Gone(c) = c
    OBVIOUS
  <2>1. CASE c.invalid = "NONE"
    <3>1. Gone(c) = [SetEvent(c, c.cur, "NONE", 0) EXCEPT !.invalid = ev]
      BY <2>1, KeyIs
    <3> QED BY <2>1, <3>1, KeyIs, GoneFacts DEF Valid
  <2>2. CASE c.invalid # "NONE"
    <3>1. Gone(c) = c
      BY <2>2
    <3> QED BY <2>2, <3>1, RankIs DEF Valid
  <2> QED BY <2>1, <2>2
<1>3. Gone(NoKey) = NoKey
  BY DEF NoKey, Defined
<1>4. q = [p EXCEPT !.pri = Gone(p.pri), !.sec = Gone(p.sec)]
  BY DEF Disconnect, Contexts
<1> HIDE DEF Gone
<1>5. q \in Contexts /\ q.pri = Gone(p.pri) /\ q.sec = Gone(p.sec)
  BY <1>1, <1>2, <1>3, <1>4 DEF Contexts
<1>6. CASE p.sec \in Key
  BY <1>1, <1>2, <1>5, <1>6 DEF Calm, Ended, Valid
<1>7. CASE p.sec = NoKey
  BY <1>1, <1>2, <1>3, <1>5, <1>7, NoKeyRank DEF Calm, Ended, Valid
<1> QED BY <1>1, <1>6, <1>7

\* An event that has been taken leaves its context as orderly as it was: an error is
\* the last thing that happens to it, unless it was invalid before.
LEMMA FiredOrderly ==
    ASSUME NEW e \in Peer, NEW c \in Key, Quiet(c), Punctual(c)
    PROVE  LET f == Fire(e, c)
               k == [f EXCEPT !.cur = "NONE"]
           IN  /\ Punctual(f) /\ Punctual(k) /\ k.age = c.age
               /\ k.cur = "NONE" /\ k.next = f.next /\ k.invalid = f.invalid
               /\ f.cur = "NONE" => f.invalid = c.invalid /\ ~Due(f)
               /\ f.cur # "NONE" /\ c.invalid = "NONE" /\ c.cur \in Posted =>
                    IF f.cur \in {"NEGOTIATE", "PRIMARY_PENDING", "EXPIRE"}
                    THEN /\ f.invalid # "NONE" /\ k.next = "NONE" /\ ~Due(k)
                         /\ f.cur = "NEGOTIATE" => c.age < Expire
                    ELSE f.invalid = "NONE"
               /\ f.cur # "NONE" /\ c.invalid # "NONE" /\ c.cur = "NONE" =>
                    Due(c) /\ (c.next = "EXPIRE" => f.cur = "EXPIRE")
               /\ ~Due(c) => f = c
               /\ f.cur = "NONE" /\ c.next # "BECOME_PRIMARY" => f = c
<1> DEFINE f == Fire(e, c)
           k == [f EXCEPT !.cur = "NONE"]
<1> SUFFICES
      /\ Punctual(f) /\ Punctual(k) /\ k.age = c.age
      /\ k.cur = "NONE" /\ k.next = f.next /\ k.invalid = f.invalid
      /\ f.cur = "NONE" => f.invalid = c.invalid /\ ~Due(f)
      /\ f.cur # "NONE" /\ c.invalid = "NONE" /\ c.cur \in Posted =>
           IF f.cur \in {"NEGOTIATE", "PRIMARY_PENDING", "EXPIRE"}
           THEN /\ f.invalid # "NONE" /\ k.next = "NONE" /\ ~Due(k)
                /\ f.cur = "NEGOTIATE" => c.age < Expire
           ELSE f.invalid = "NONE"
      /\ f.cur # "NONE" /\ c.invalid # "NONE" /\ c.cur = "NONE" =>
           Due(c) /\ (c.next = "EXPIRE" => f.cur = "EXPIRE")
      /\ ~Due(c) => f = c
      /\ f.cur = "NONE" /\ c.next # "BECOME_PRIMARY" => f = c
  OBVIOUS
<1>1. /\ f \in Key /\ f.age = c.age
      /\ \/ f = c /\ (c.cur # "NONE" \/ ~Due(c))
         \/ /\ c.cur = "NONE" /\ Due(c)
            /\ \/ c.next = "BECOME_PRIMARY" /\ f.cur = "NONE" /\ ~Due(f)
                  /\ f.next = "PRIMARY_PENDING" /\ f.invalid = c.invalid
               \/ /\ c.next = "BECOME_PRIMARY" /\ f.cur = c.next
                  /\ f.next = "RENEGOTIATE" /\ f.invalid = c.invalid
               \/ /\ c.next \in {"RENEGOTIATE", "RENEGOTIATE_FORCE"}
                  /\ f.cur = c.next /\ f.next = "EXPIRE" /\ f.invalid = c.invalid
               \/ /\ c.next \in {"NEGOTIATE", "PRIMARY_PENDING", "EXPIRE"}
                  /\ f.cur = c.next /\ f.invalid # "NONE"
                  /\ \/ c.invalid = "NONE" /\ f.next = "NONE"
                     \/ c.invalid # "NONE" /\ f.next = c.next /\ f.due = c.due
  BY FireFacts
<1>a. (~Due(c) => f = c) /\ (f.cur = "NONE" /\ c.next # "BECOME_PRIMARY" => f = c)
  BY <1>1
<1> HIDE DEF f
<1>2. /\ k.age = f.age /\ k.due = f.due /\ k.cur = "NONE" /\ k.next = f.next
      /\ k.invalid = f.invalid
  BY <1>1, ResetEventFacts
<1> HIDE DEF k
<1>3. CASE f = c /\ (c.cur # "NONE" \/ ~Due(c))
  <2>1. f.cur = "NONE" => ~Due(f)
    BY <1>3
  <2> QED BY <1>1, <1>2, <1>3, <2>1 DEF Punctual, Posted
<1>4. CASE c.cur = "NONE" /\ Due(c)
  BY <1>1, <1>2, <1>4 DEF Punctual, Due
<1> QED BY <1>1, <1>3, <1>4

\* process_primary_event(), after the event that is due: if there was something to do,
\* there is less, or the secondary has something to do.
LEMMA PrimaryStage ==
    ASSUME NEW e \in Peer, NEW p \in Calm
    PROVE  LET b == ProcessPrimary([p EXCEPT !.pri = Fire(e, @)])
           IN  /\ b \in Calm
               /\ Orderly(p) => /\ Midway(b) /\ Rank(b) <= Rank(p)
                                /\ SecRank(b.sec) > 0 \/ Rank(b) < Rank(p) \/ Rank(b) = 0
<1> DEFINE f == Fire(e, p.pri)
           k == [f EXCEPT !.cur = "NONE"]
           p1 == [p EXCEPT !.pri = f]
           q == [p1 EXCEPT !.pri.cur = "NONE"]
           b == ProcessPrimary(p1)
           ev == f.cur
           Goal == /\ b \in Calm
                   /\ Orderly(p) => /\ Midway(b) /\ Rank(b) <= Rank(p)
                                    /\ SecRank(b.sec) > 0 \/ Rank(b) < Rank(p) \/ Rank(b) = 0
<1> SUFFICES Goal
  OBVIOUS
<1>1. /\ p \in Contexts /\ p.pri \in Key /\ Quiet(p.pri) /\ p.sec \in Key \cup {NoKey}
      /\ (Defined(p.sec) => Quiet(p.sec) /\ p.sec \in Key) /\ Defined(p.pri)
  BY ContextsAre DEF Calm
<1>2. /\ f \in Key /\ k \in Key /\ Quiet(f) /\ Quiet(k) /\ k.num = p.pri.num
      /\ f.cur = "NONE" => PriRank(f) = 0
      /\ f.cur # "NONE" => PriRank(p.pri) > 0
      /\ f.cur # "NONE" /\ p.pri.invalid = "NONE" => PriRank(k) < PriRank(p.pri)
  BY <1>1, FiredPrimary
<1>o. ASSUME Orderly(p)
      PROVE  /\ Punctual(f) /\ Punctual(k) /\ k.age = p.pri.age
             /\ k.cur = "NONE" /\ k.invalid = f.invalid
             /\ f.cur = "NONE" => f.invalid = p.pri.invalid /\ ~Due(f)
             /\ f.cur # "NONE" /\ p.pri.invalid = "NONE" =>
                  IF f.cur \in {"NEGOTIATE", "PRIMARY_PENDING", "EXPIRE"}
                  THEN /\ f.invalid # "NONE" /\ ~Due(k)
                       /\ f.cur = "NEGOTIATE" => p.pri.age < Expire
                  ELSE f.invalid = "NONE"
             /\ f.cur # "NONE" /\ p.pri.invalid # "NONE" => f.cur = "EXPIRE" /\ Valid(p.sec)
  <2>1. Punctual(p.pri) /\ p.pri.cur \in Posted
    BY <1>o DEF Orderly
  <2>2. p.pri.invalid # "NONE" =>
          p.pri.cur = "NONE" /\ (Due(p.pri) => p.pri.next = "EXPIRE" /\ Valid(p.sec))
    BY <1>1, <1>o DEF Orderly, Ended, Spent
  <2>3. /\ Punctual(f) /\ Punctual(k) /\ k.age = p.pri.age
        /\ k.cur = "NONE" /\ k.invalid = f.invalid
        /\ f.cur = "NONE" => f.invalid = p.pri.invalid /\ ~Due(f)
        /\ f.cur # "NONE" /\ p.pri.invalid = "NONE" /\ p.pri.cur \in Posted =>
             IF f.cur \in {"NEGOTIATE", "PRIMARY_PENDING", "EXPIRE"}
             THEN /\ f.invalid # "NONE" /\ k.next = "NONE" /\ ~Due(k)
                  /\ f.cur = "NEGOTIATE" => p.pri.age < Expire
             ELSE f.invalid = "NONE"
        /\ f.cur # "NONE" /\ p.pri.invalid # "NONE" /\ p.pri.cur = "NONE" =>
             Due(p.pri) /\ (p.pri.next = "EXPIRE" => f.cur = "EXPIRE")
    BY <1>1, <2>1, FiredOrderly
  <2> HIDE DEF f, k
  <2> QED BY <2>1, <2>2, <2>3
<1> HIDE DEF f
<1>3. p1 \in Contexts /\ p1.pri = f /\ p1.sec = p.sec /\ p1 \in Calm
  BY <1>1, <1>2, ContextsAre DEF Calm
<1>4. q = [p EXCEPT !.pri = k]
  BY <1>1, <1>2 DEF Contexts
<1> HIDE DEF q, k
<1>a. q \in Contexts /\ q.pri = k /\ q.sec = p.sec
  BY <1>1, <1>2, <1>4, ContextsAre
<1>5. q \in Contexts /\ q.pri = k /\ q.sec = p.sec /\ q \in Calm
  BY <1>1, <1>2, <1>a DEF Calm
<1> DEFINE N(r) == [r EXCEPT !.pri = SetNextIfUnspecified(@)]
<1>b. ev = "NONE" => b = p1
  BY <1>3 DEF ProcessPrimary
<1>c. ev = "ACTIVE" => b = N([q EXCEPT !.actives = @ + 1])
  BY <1>3 DEF ProcessPrimary, q
<1>d. ev \in {"RENEGOTIATE", "RENEGOTIATE_FORCE"} => b = N(NewSecondary(q, TRUE))
  BY <1>3 DEF ProcessPrimary, q
<1>e. ev = "EXPIRE" /\ Defined(q.sec) /\ q.sec.invalid = "NONE" => b = N(Promote(q))
  BY <1>3 DEF ProcessPrimary, q
<1>f. /\ ev = "EXPIRE" /\ ~(Defined(q.sec) /\ q.sec.invalid = "NONE")
            => b = N(Disconnect(q, ev))
      /\ ev = "NEGOTIATE" => b = N(Disconnect(q, ev))
  BY <1>3 DEF ProcessPrimary, q
<1>g. ev \notin {"NONE", "ACTIVE", "RENEGOTIATE", "RENEGOTIATE_FORCE", "EXPIRE", "NEGOTIATE"}
         => b = N(q)
  BY <1>3 DEF ProcessPrimary, q
<1> HIDE DEF b, p1
<1>6. /\ PriRank(p.pri) \in Nat /\ PriRank(f) \in Nat /\ PriRank(k) \in Nat
      /\ SecRank(p.sec) \in Nat
  BY RankIs
<1>s. ASSUME Orderly(p)
      PROVE  /\ Defined(p.sec) => Punctual(p.sec) /\ p.sec.cur \in Posted
             /\ Ended(p.sec) => p.sec.cur = "NONE" /\ p.sec.next \in {"NONE", "EXPIRE"}
  BY <1>s DEF Orderly, Spent
<1>7. CASE ev = "NONE"
  <2>1. b = p1
    BY <1>b, <1>7
  <2>2. Rank(p1) = SecRank(p.sec)
    BY <1>2, <1>3, <1>6, <1>7 DEF Rank
  <2>3. Orderly(p) => Midway(p1)
    BY <1>2, <1>3, <1>7, <1>o, <1>s DEF Midway, Spent, Posted
  <2> QED BY <1>3, <1>6, <2>1, <2>2, <2>3 DEF Rank
<1>8. \A r \in Calm : N(r) = r
  BY ContextsAre, AlwaysSpecified DEF Calm
<1>9. ASSUME ev # "NONE", NEW r \in Calm, b = N(r),
             Orderly(p) => p.pri.invalid = "NONE" /\ Midway(r),
             PriRank(r.pri) <= PriRank(k), SecRank(r.sec) <= SecRank(p.sec)
      PROVE  Goal
  <2>1. PriRank(r.pri) \in Nat /\ SecRank(r.sec) \in Nat
    BY RankIs
  <2>2. b = r
    BY <1>8, <1>9
  <2>3. /\ Orderly(p) => PriRank(k) < PriRank(p.pri)
        /\ PriRank(r.pri) <= PriRank(k) /\ SecRank(r.sec) <= SecRank(p.sec)
    BY <1>2, <1>9
  <2>4. Orderly(p) => Rank(r) < Rank(p) /\ Rank(r) <= Rank(p)
    BY <1>6, <2>1, <2>3 DEF Rank
  <2> QED BY <1>9, <2>2, <2>4
\* The primary keeps its key, with an event that does not end it.
<1>k. ASSUME Orderly(p), ev # "NONE", ev \notin {"EXPIRE", "NEGOTIATE"}
      PROVE  /\ p.pri.invalid = "NONE" /\ Punctual(k) /\ k.cur \in Posted
             /\ Ended(k) => Spent(k) /\ ~Due(k)
  BY <1>2, <1>k, <1>o DEF Posted, Spent, Ended
<1>10. CASE ev = "ACTIVE"
  <2> DEFINE r == [q EXCEPT !.actives = @ + 1]
  <2>1. b = N(r)
    BY <1>c, <1>10
  <2>2. q.actives + 1 \in Nat
    BY <1>5, ContextsAre
  <2>3. r \in Contexts /\ r.pri = k /\ r.sec = p.sec
    BY <1>5, <2>2 DEF Contexts
  <2> HIDE DEF r
  <2>4. r \in Calm
    BY <1>1, <1>2, <2>3 DEF Calm
  <2>5. Orderly(p) => p.pri.invalid = "NONE" /\ Midway(r)
    BY <1>10, <1>k, <1>s, <2>3 DEF Midway
  <2> QED BY <1>6, <1>9, <1>10, <2>1, <2>3, <2>4, <2>5
<1>11. CASE ev \in {"RENEGOTIATE", "RENEGOTIATE_FORCE"}
  <2> DEFINE r == NewSecondary(q, TRUE)
  <2>1. b = N(r)
    BY <1>d, <1>11
  <2>2. /\ r \in Contexts /\ r.pri = k /\ r.sec \in Key /\ Quiet(r.sec) /\ SecRank(r.sec) = 0
        /\ r.sec.invalid = "NONE" /\ r.sec.cur = "NONE" /\ Punctual(r.sec)
    BY <1>5, NewSecondaryFacts
  <2> HIDE DEF r
  <2>3. r \in Calm
    BY <1>2, <2>2 DEF Calm
  <2>4. Orderly(p) => p.pri.invalid = "NONE" /\ Midway(r)
    BY <1>11, <1>k, <2>2 DEF Midway, Ended, Posted
  <2> QED BY <1>6, <1>9, <1>11, <2>1, <2>2, <2>3, <2>4
<1>12. CASE ev = "EXPIRE" /\ Defined(p.sec) /\ p.sec.invalid = "NONE"
  <2> DEFINE r == Promote(q)
  <2>1. b = N(r)
    BY <1>e, <1>5, <1>12
  <2>2. /\ r \in Calm /\ r.pri = p.sec /\ SecRank(r.sec) <= 1
        /\ r.sec.cur = "NONE" /\ r.sec.next = "EXPIRE"
    BY <1>5, <1>12, PromoteFacts
  <2> HIDE DEF r
  <2>3. b = r
    BY <1>8, <2>1, <2>2
  <2>4. PriRank(p.sec) <= SecRank(p.sec)
    BY <1>1, <1>12, PromotedRank
  <2>5. SecRank(r.sec) \in Nat /\ PriRank(p.sec) \in Nat /\ PriRank(p.pri) > 0
    BY <1>2, <1>12, RankIs
  <2>6. Orderly(p) => Midway(r)
    BY <1>12, <1>s, <2>2 DEF Midway, Ended, Posted, Punctual
  <2> QED BY <1>6, <2>2, <2>3, <2>4, <2>5, <2>6 DEF Rank
<1>13. CASE \/ ev = "EXPIRE" /\ ~(Defined(p.sec) /\ p.sec.invalid = "NONE")
            \/ ev = "NEGOTIATE"
  <2> DEFINE r == Disconnect(q, ev)
  <2>1. b = N(r)
    BY <1>f, <1>5, <1>13
  <2>2. ev \in Event /\ ev # "NONE"
    BY <1>13 DEF Event
  <2>3. /\ r \in Calm /\ PriRank(r.pri) <= PriRank(k) /\ SecRank(r.sec) <= SecRank(p.sec)
        /\ Ended(k) => r.pri = k
        /\ IF Valid(p.sec) THEN r.sec.next = "NONE" /\ r.sec.cur = p.sec.cur
           ELSE r.sec = p.sec
    BY <1>5, <2>2, DisconnectFacts
  <2> HIDE DEF r
  <2>4. ASSUME Orderly(p)
        PROVE  p.pri.invalid = "NONE" /\ Midway(r)
    <3>1. p.pri.invalid = "NONE"
      BY <1>13, <1>o, <2>4 DEF Valid
    <3>2. Ended(k) /\ Punctual(k) /\ k.cur = "NONE" /\ ~Due(k) /\ Spent(k)
      BY <1>2, <1>13, <1>o, <2>4, <3>1, KeyIs DEF Ended, Spent
    <3>3. CASE Valid(p.sec)
      <4>1. k.age < Expire
        BY <1>13, <1>o, <2>4, <3>1, <3>3 DEF Valid
      <4> QED BY <1>s, <2>3, <2>4, <3>1, <3>2, <3>3, <4>1 DEF Midway, Punctual, Posted, Valid
    <3>4. CASE ~Valid(p.sec)
      BY <1>s, <2>3, <2>4, <3>1, <3>2, <3>4 DEF Midway, Posted
    <3> QED BY <3>3, <3>4
  <2> QED BY <1>9, <2>1, <2>2, <2>3, <2>4
<1>14. CASE ev \notin {"NONE", "ACTIVE", "RENEGOTIATE", "RENEGOTIATE_FORCE", "EXPIRE", "NEGOTIATE"}
  <2>1. b = N(q)
    BY <1>g, <1>14
  <2>2. Orderly(p) => p.pri.invalid = "NONE" /\ Midway(q)
    BY <1>5, <1>14, <1>k, <1>s DEF Midway
  <2> QED BY <1>5, <1>6, <1>9, <1>14, <2>1, <2>2
<1> QED BY <1>7, <1>10, <1>11, <1>12, <1>13, <1>14

\* key_limit_reneg(): the primary is to be renegotiated at a time to come.
LEMMA QueueFacts ==
    ASSUME NEW e \in Peer, NEW p \in Calm, Defined(p.sec)
    PROVE  LET r == QueueRenegotiation(e, p)
           IN  /\ r \in Calm /\ PriRank(r.pri) <= PriRank(p.pri) /\ r.sec = p.sec
               /\ \/ r.pri = p.pri
                  \/ Spent(r.pri) /\ r.pri.next = "RENEGOTIATE_FORCE" /\ ~Due(r.pri)
<1> DEFINE wait == IF e = Server THEN 2 * LimitDelay ELSE LimitDelay
           due == p.pri.age + (p.sec.due - p.sec.age) + wait
           c == SetEvent(p.pri, "NONE", "RENEGOTIATE_FORCE", due)
           r == QueueRenegotiation(e, p)
<1>1. p \in Contexts /\ p.pri \in Key /\ Quiet(p.pri) /\ p.sec \in Key /\ Quiet(p.sec)
  BY ContextsAre DEF Calm
<1>2. CASE p.sec.next # "BECOME_PRIMARY"
  BY <1>2, RankIs DEF QueueRenegotiation
<1>3. CASE p.sec.next = "BECOME_PRIMARY"
  <2>1. r = [p EXCEPT !.pri = c]
    BY <1>3 DEF QueueRenegotiation
  <2>2. due \in Nat /\ due > p.pri.age
    <3>1. p.sec.due - p.sec.age \in Nat
      BY <1>1, <1>3, KeyIs DEF Timely
    <3>2. wait \in Nat /\ wait > 0
      BY Constants
    <3>3. p.pri.age \in Nat
      BY <1>1, KeyIs
    <3> HIDE DEF wait
    <3> QED BY <3>1, <3>2, <3>3
  <2>3. "NONE" \in Event /\ "RENEGOTIATE_FORCE" \in Event \ {"ACTIVE", "RENEGOTIATE_QUEUE"}
    BY DEF Event
  <2> HIDE DEF due
  <2>4. /\ c \in Key /\ Quiet(c) /\ c.cur = "NONE" /\ c.age = p.pri.age /\ c.due = due
        /\ c.next = "RENEGOTIATE_FORCE"
    BY <1>1, <2>2, <2>3, SetEventFacts
  <2> HIDE DEF c
  <2>5. PriRank(c) = 0
    BY <1>1, <2>2, <2>4, KeyIs DEF PriRank, Chain, Due, One
  <2>6. r \in Contexts /\ r.pri = c /\ r.sec = p.sec
    BY <1>1, <2>1, <2>4, ContextsAre
  <2>7. PriRank(p.pri) \in Nat
    BY RankIs
  <2>8. ~Due(c)
    BY <1>1, <2>2, <2>4, KeyIs DEF Due
  <2> QED BY <1>1, <2>4, <2>5, <2>6, <2>7, <2>8 DEF Calm, Spent
<1> QED BY <1>2, <1>3

\* process_secondary_event(), likewise: if the secondary had something to do, there is
\* less to do.
LEMMA SecondaryStage ==
    ASSUME NEW e \in Peer, NEW p \in Calm
    PROVE  LET b == ProcessSecondary(e, [p EXCEPT !.sec = Fire(e, @)])
           IN  /\ b \in Calm
               /\ Midway(p) => /\ Orderly(b) /\ Rank(b) <= Rank(p)
                               /\ SecRank(p.sec) > 0 => Rank(b) < Rank(p)
<1> DEFINE f == Fire(e, p.sec)
           k == [f EXCEPT !.cur = "NONE"]
           p1 == [p EXCEPT !.sec = f]
           q == [p1 EXCEPT !.sec.cur = "NONE"]
           b == ProcessSecondary(e, p1)
           ev == f.cur
           Goal == /\ b \in Calm
                   /\ Midway(p) => /\ Orderly(b) /\ Rank(b) <= Rank(p)
                                   /\ SecRank(p.sec) > 0 => Rank(b) < Rank(p)
<1> SUFFICES Goal
  OBVIOUS
<1>1. /\ p \in Contexts /\ p.pri \in Key /\ Quiet(p.pri) /\ p.sec \in Key \cup {NoKey}
      /\ (Defined(p.sec) => Quiet(p.sec) /\ p.sec \in Key)
  BY ContextsAre DEF Calm
<1>2. CASE ~Defined(p.sec)
  <2>1. p.sec = NoKey
    BY <1>1, <1>2, KeyIs
  <2>2. f = NoKey /\ SecRank(p.sec) = 0
    BY <2>1, NoKeyRank
  <2>3. p1 = p
    BY <1>1, <2>1, <2>2, ContextsAre
  <2>4. b = p
    BY <1>2, <2>3 DEF ProcessSecondary
  <2>5. Rank(p) \in Nat
    BY RankIs DEF Rank
  <2>6. Midway(p) => Orderly(p)
    BY <1>2 DEF Midway, Orderly, Ended
  <2> QED BY <1>1, <2>2, <2>4, <2>5, <2>6
<1>3. CASE Defined(p.sec)
  <2>1. p.sec \in Key /\ Quiet(p.sec)
    BY <1>1, <1>3
  <2>2. /\ f \in Key /\ k \in Key /\ Quiet(f) /\ Quiet(k)
        /\ f.cur = "NONE" => SecRank(f) = 0
        /\ f.cur # "NONE" => SecRank(p.sec) > 0
        /\ f.cur # "NONE" /\ (p.sec.invalid = "NONE" \/ p.sec.cur # "NONE") =>
             /\ SecRank(k) < SecRank(p.sec)
             /\ f.cur = "ACTIVE" => SecRank(k) + 2 <= SecRank(p.sec)
             /\ f.cur = "BECOME_PRIMARY" => PriRank(k) + 2 <= SecRank(p.sec)
    BY <2>1, FiredSecondary
  <2>m. ASSUME Midway(p)
        PROVE  /\ Punctual(p.pri) /\ p.pri.cur \in Posted
               /\ Ended(p.pri) => Spent(p.pri) /\ ~Due(p.pri)
               /\ Punctual(p.sec) /\ p.sec.cur \in Posted
    BY <1>3, <2>m DEF Midway
  <2>o. ASSUME Midway(p)
        PROVE  /\ Punctual(f) /\ Punctual(k) /\ k.cur = "NONE"
               /\ f.cur = "NONE" /\ Ended(f) => f.next \in {"NONE", "EXPIRE"}
               /\ f.cur \notin {"NONE", "EXPIRE"} \cup Retry /\ Ended(k) =>
                    k.next = "NONE" /\ p.pri.age < Expire
               /\ f.cur # "NONE" =>
                    p.sec.invalid = "NONE" \/ p.sec.cur # "NONE" \/ f.cur = "EXPIRE"
    <3>1. /\ Punctual(f) /\ Punctual(k)
          /\ k.cur = "NONE" /\ k.next = f.next /\ k.invalid = f.invalid
          /\ f.cur = "NONE" => f.invalid = p.sec.invalid
          /\ f.cur # "NONE" /\ p.sec.invalid = "NONE" /\ p.sec.cur \in Posted =>
               IF f.cur \in {"NEGOTIATE", "PRIMARY_PENDING", "EXPIRE"}
               THEN f.invalid # "NONE" /\ k.next = "NONE"
               ELSE f.invalid = "NONE"
          /\ f.cur # "NONE" /\ p.sec.invalid # "NONE" /\ p.sec.cur = "NONE" =>
               Due(p.sec) /\ (p.sec.next = "EXPIRE" => f.cur = "EXPIRE")
          /\ ~Due(p.sec) => f = p.sec
          /\ f.cur = "NONE" /\ p.sec.next # "BECOME_PRIMARY" => f = p.sec
      BY <2>1, <2>m, <2>o, FiredOrderly
    <3> HIDE DEF f, k
    <3>2. CASE p.sec.invalid = "NONE"
      BY <2>1, <2>m, <2>o, <3>1, <3>2 DEF Ended, Retry
    <3>3. CASE p.sec.invalid # "NONE" /\ p.sec.cur = "NONE" /\ p.sec.next \in {"NONE", "EXPIRE"}
      <4>1. f.cur \in {"NONE", "EXPIRE"}
        BY <3>1, <3>3 DEF Due
      <4> QED BY <3>1, <3>3, <4>1
    <3>4. CASE p.sec.invalid # "NONE" /\ p.sec.next = "NONE" /\ p.pri.age < Expire
      <4>1. f = p.sec
        BY <3>1, <3>4 DEF Due
      <4> QED BY <2>m, <2>o, <3>1, <3>4, <4>1 DEF Posted
    <3> QED BY <1>3, <2>o, <3>2, <3>3, <3>4 DEF Midway, Ended
  <2> HIDE DEF f
  <2>3. p1 \in Contexts /\ p1.sec = f /\ p1.pri = p.pri /\ p1 \in Calm /\ Defined(p1.sec)
    BY ZenonT(30), <1>1, <2>2, ContextsAre, KeyIs DEF Calm
  <2>4. q = [p EXCEPT !.sec = k]
    BY <1>1, <2>2 DEF Contexts
  <2> HIDE DEF q, k
  <2>5. q \in Contexts /\ q.pri = p.pri /\ q.sec = k /\ Defined(q.sec)
    BY <1>1, <2>2, <2>4, ContextsAre, KeyIs
  <2>6. q \in Calm
    BY <1>1, <2>2, <2>5 DEF Calm
  <2> DEFINE N(r) == IF Defined(r.sec) THEN [r EXCEPT !.sec = SetNextIfUnspecified(@)] ELSE r
  <2>7. ev = "NONE" => b = p1
    BY <2>3 DEF ProcessSecondary
  <2> HIDE DEF p1
  <2> DEFINE now == p1.sec.cur
             R == CASE now = "ACTIVE" -> [q EXCEPT !.pri = PrepareExpire(@, "NONE")]
                    [] now = "BECOME_PRIMARY" ->
                         IF q.sec.invalid = "NONE" THEN Promote(q) ELSE q
                    [] now = "EXPIRE" -> [q EXCEPT !.sec = NoKey]
                    [] now = "RENEGOTIATE_QUEUE" -> QueueRenegotiation(e, q)
                    [] now \in Retry -> NewSecondary(q, TRUE)
                    [] OTHER -> q
  <2>a. now # "NONE" => b = N(R)
    BY <2>3 DEF ProcessSecondary, q
  <2>b. now = ev
    BY <2>3
  <2> HIDE DEF N, now
  <2>8. ev = "ACTIVE" => b = N([q EXCEPT !.pri = PrepareExpire(@, "NONE")])
    BY <2>a, <2>b DEF R, Retry
  <2>9. ev = "BECOME_PRIMARY" => b = N(IF q.sec.invalid = "NONE" THEN Promote(q) ELSE q)
    BY <2>a, <2>b DEF R, Retry
  <2>10. ev = "EXPIRE" => b = N([q EXCEPT !.sec = NoKey])
    BY <2>a, <2>b DEF R, Retry
  <2>11. ev = "RENEGOTIATE_QUEUE" => b = N(QueueRenegotiation(e, q))
    BY <2>a, <2>b DEF R, Retry
  <2>12. ev \in Retry => b = N(NewSecondary(q, TRUE))
    BY <2>a, <2>b DEF R, Retry
  <2>13. ev \notin {"NONE", "ACTIVE", "BECOME_PRIMARY", "EXPIRE", "RENEGOTIATE_QUEUE"} \cup Retry
           => b = N(q)
    BY <2>a, <2>b DEF R, Retry
  <2> HIDE DEF b
  <2>14. /\ PriRank(p.pri) \in Nat /\ SecRank(p.sec) \in Nat
         /\ PriRank(k) \in Nat /\ SecRank(k) \in Nat
    BY RankIs
  <2>15. \A r \in Calm : N(r) = r
    BY ContextsAre, AlwaysSpecified DEF Calm, N
  <2>16. ASSUME NEW r \in Calm, b = N(r), ev # "NONE",
                Midway(p) => /\ Orderly(r)
                             /\ PriRank(r.pri) + SecRank(r.sec)
                                  < PriRank(p.pri) + SecRank(p.sec)
         PROVE  Goal
    <3>1. b = r
      BY <2>15, <2>16
    <3>2. PriRank(r.pri) \in Nat /\ SecRank(r.sec) \in Nat
      BY RankIs
    <3>3. Midway(p) => Rank(r) < Rank(p) /\ Rank(r) <= Rank(p)
      BY <2>14, <2>16, <3>2 DEF Rank
    <3> QED BY <2>16, <3>1, <3>3
  <2>17. CASE ev = "NONE"
    <3>1. Rank(p1) = PriRank(p.pri) /\ Rank(p) = PriRank(p.pri) + SecRank(p.sec)
      BY <2>2, <2>3, <2>14, <2>17 DEF Rank
    <3>2. Midway(p) => Orderly(p1)
      BY <2>2, <2>3, <2>17, <2>m, <2>o DEF Orderly, Spent, Posted
    <3> QED BY <2>3, <2>7, <2>14, <2>17, <3>1, <3>2
  \* A primary that goes on as it was, beside the secondary that has had its event.
  <2>q. ASSUME NEW c, Midway(p), ev \notin {"NONE", "EXPIRE"} \cup Retry,
               NEW r \in Contexts, r.pri = c, r.sec = k,
               Punctual(c), c.cur \in Posted, Ended(c) => Spent(c),
               Due(c) => ~Ended(c) \/ (c.next = "EXPIRE" /\ k.invalid = "NONE")
        PROVE  Orderly(r)
    <3>1. /\ Punctual(k) /\ k.cur \in Posted
          /\ Ended(k) => Spent(k) /\ k.next \in {"NONE", "EXPIRE"}
      BY <2>2, <2>o, <2>q DEF Spent, Posted
    <3>2. Ended(c) /\ Due(c) => Valid(r.sec)
      BY <2>2, <2>q, KeyIs DEF Valid
    <3> QED BY <2>q, <3>1, <3>2 DEF Orderly
  <2>18. CASE ev = "ACTIVE"
    <3> DEFINE c == PrepareExpire(q.pri, "NONE")
               r == [q EXCEPT !.pri = c]
    <3>1. b = N(r)
      BY <2>8, <2>18
    <3>2. /\ c \in Key /\ Quiet(c) /\ PriRank(c) <= 1 /\ c.cur = "NONE" /\ c.next = "EXPIRE"
          /\ p.pri.age < Expire => ~Due(c)
      BY <1>1, <2>5, ExpiringFacts
    <3> HIDE DEF c
    <3>3. r \in Contexts /\ r.pri = c /\ r.sec = k
      BY <2>5, <3>2, ContextsAre
    <3> HIDE DEF r
    <3>4. r \in Calm
      BY <2>2, <3>2, <3>3 DEF Calm
    <3>5. PriRank(c) \in Nat /\ (Midway(p) => SecRank(k) + 2 <= SecRank(p.sec))
      BY <2>2, <2>18, <2>o, RankIs
    <3>6. Midway(p) => PriRank(r.pri) + SecRank(r.sec) < PriRank(p.pri) + SecRank(p.sec)
      BY <2>14, <3>2, <3>3, <3>5
    <3>7. Midway(p) => Orderly(r)
      <4>1. "ACTIVE" \notin {"NONE", "EXPIRE"} \cup Retry
        BY DEF Retry
      <4>2. Midway(p) => Punctual(c) /\ c.cur \in Posted /\ (Ended(c) => Spent(c))
                         /\ (Ended(k) => ~Due(c))
        BY <2>18, <2>o, <3>2, <4>1 DEF Punctual, Posted, Spent
      <4>3. Ended(k) <=> k.invalid # "NONE"
        BY <2>2, KeyIs DEF Ended
      <4> QED BY <2>18, <2>q, <3>2, <3>3, <4>1, <4>2, <4>3
    <3> QED BY <2>16, <2>18, <3>1, <3>4, <3>6, <3>7
  <2>19. CASE ev = "BECOME_PRIMARY" /\ q.sec.invalid = "NONE"
    <3> DEFINE r == Promote(q)
    <3>1. b = N(r)
      BY <2>9, <2>19
    <3>2. /\ r \in Calm /\ r.pri = k /\ SecRank(r.sec) <= 1 /\ Defined(r.sec)
          /\ r.sec.cur = "NONE" /\ r.sec.next = "EXPIRE"
      BY <2>5, <2>6, PromoteFacts
    <3> HIDE DEF r
    <3>3. SecRank(r.sec) \in Nat /\ (Midway(p) => PriRank(k) + 2 <= SecRank(p.sec))
      BY <2>2, <2>19, <2>o, RankIs
    <3>4. Midway(p) => PriRank(r.pri) + SecRank(r.sec) < PriRank(p.pri) + SecRank(p.sec)
      BY <2>14, <3>2, <3>3
    <3>5. Midway(p) => Orderly(r)
      BY <2>5, <2>19, <2>o, <3>2 DEF Orderly, Calm, Spent, Posted, Punctual, Ended
    <3> QED BY <2>16, <2>19, <3>1, <3>2, <3>4, <3>5
  <2>20. CASE \/ ev = "BECOME_PRIMARY" /\ q.sec.invalid # "NONE"
              \/ ev \notin {"NONE", "ACTIVE", "BECOME_PRIMARY", "EXPIRE", "RENEGOTIATE_QUEUE"}
                          \cup Retry
    <3>1. b = N(q) /\ ev # "NONE"
      BY <2>9, <2>13, <2>20
    <3>2. Midway(p) => PriRank(q.pri) + SecRank(q.sec) < PriRank(p.pri) + SecRank(p.sec)
      BY <2>2, <2>5, <2>14, <2>20, <2>o, <3>1
    <3>3. Midway(p) => Orderly(q)
      <4>1. ev \notin {"NONE", "EXPIRE"} \cup Retry
        BY <2>20 DEF Retry
      <4> QED BY <2>5, <2>m, <2>q, <4>1
    <3> QED BY <2>6, <2>16, <3>1, <3>2, <3>3
  <2>21. CASE ev = "EXPIRE"
    <3> DEFINE r == [q EXCEPT !.sec = NoKey]
    <3>1. b = N(r)
      BY <2>10, <2>21
    <3>2. r \in Contexts /\ r.pri = p.pri /\ r.sec = NoKey
      BY <2>5, ContextsAre
    <3> HIDE DEF r
    <3>3. r \in Calm /\ SecRank(r.sec) = 0
      BY <1>1, <3>2, NoKeyRank DEF Calm
    <3>4. SecRank(p.sec) > 0
      BY <2>2, <2>21
    <3>5. PriRank(r.pri) + SecRank(r.sec) < PriRank(p.pri) + SecRank(p.sec)
      BY <2>14, <3>2, <3>3, <3>4
    <3>6. Midway(p) => Orderly(r)
      BY <2>m, <3>2, NoKeyRank DEF Orderly, Ended
    <3> QED BY <2>16, <2>21, <3>1, <3>3, <3>5, <3>6
  <2>22. CASE ev = "RENEGOTIATE_QUEUE"
    <3> DEFINE r == QueueRenegotiation(e, q)
    <3>1. b = N(r)
      BY <2>11, <2>22
    <3>2. /\ r \in Calm /\ PriRank(r.pri) <= PriRank(p.pri) /\ r.sec = k
          /\ \/ r.pri = p.pri
             \/ Spent(r.pri) /\ r.pri.next = "RENEGOTIATE_FORCE" /\ ~Due(r.pri)
      BY <2>5, <2>6, QueueFacts
    <3> HIDE DEF r
    <3>3. (Midway(p) => SecRank(k) < SecRank(p.sec)) /\ PriRank(r.pri) \in Nat
      BY <2>2, <2>22, <2>o, RankIs
    <3>4. Midway(p) => PriRank(r.pri) + SecRank(r.sec) < PriRank(p.pri) + SecRank(p.sec)
      BY <2>14, <3>2, <3>3
    <3>5. Midway(p) => Orderly(r)
      <4>1. "RENEGOTIATE_QUEUE" \notin {"NONE", "EXPIRE"} \cup Retry /\ r \in Contexts
        BY <3>2 DEF Retry, Calm
      <4>2. Midway(p) => /\ Punctual(r.pri) /\ r.pri.cur \in Posted
                         /\ Ended(r.pri) => Spent(r.pri)
                         /\ Ended(r.pri) => ~Due(r.pri)
        BY <2>m, <3>2 DEF Punctual, Posted, Spent
      <4> QED BY <2>22, <2>q, <3>2, <4>1, <4>2
    <3> QED BY <2>16, <2>22, <3>1, <3>2, <3>4, <3>5
  <2>23. CASE ev \in Retry
    <3> DEFINE r == NewSecondary(q, TRUE)
    <3>1. b = N(r) /\ ev # "NONE"
      BY <2>12, <2>23 DEF Retry
    <3>2. /\ r \in Contexts /\ r.pri = p.pri /\ Quiet(r.sec) /\ SecRank(r.sec) = 0
          /\ r.sec.invalid = "NONE" /\ r.sec.cur = "NONE" /\ Punctual(r.sec)
      BY <2>5, NewSecondaryFacts
    <3> HIDE DEF r
    <3>3. r \in Calm
      BY <1>1, <3>2 DEF Calm
    <3>4. SecRank(p.sec) > 0
      BY <2>2, <3>1
    <3>5. PriRank(r.pri) + SecRank(r.sec) < PriRank(p.pri) + SecRank(p.sec)
      BY <2>14, <3>2, <3>4
    <3>6. Midway(p) => Orderly(r)
      BY <2>m, <3>2 DEF Orderly, Ended, Posted
    <3> QED BY <2>16, <3>1, <3>3, <3>5, <3>6
  <2> QED BY <2>17, <2>18, <2>19, <2>20, <2>21, <2>22, <2>23
<1> QED BY <1>2, <1>3

\* One round of the loop has something to do and leaves less, or comes to rest.
LEMMA RoundFacts ==
    ASSUME NEW e \in Peer, NEW p \in Contexts
    PROVE  LET r == Round(e, p)
           IN  /\ r \in Calm /\ Rank(r) \in Nat /\ Rank(p) \in Nat
               /\ Orderly(p) => Orderly(r) /\ (Rank(r) < Rank(p) \/ Rank(r) = 0)
<1> DEFINE a == [p EXCEPT !.pri = PostAck(e, @), !.sec = PostAck(e, @)]
           b == ProcessPrimary([a EXCEPT !.pri = Fire(e, @)])
           r == ProcessSecondary(e, [b EXCEPT !.sec = Fire(e, @)])
<1>1. Round(e, p) = r
  BY DEF Round
<1>2. \A q : Rank(q) \in Nat
  BY RankIs DEF Rank
<1>3. a \in Calm /\ Rank(a) <= Rank(p) /\ (Orderly(p) => Orderly(a))
  <2> DEFINE c == PostAck(e, p.pri)
             d == PostAck(e, p.sec)
  <2>1. p.pri \in Key /\ p.sec \in Key \cup {NoKey}
    BY ContextsAre
  <2>2. /\ c \in Key /\ Quiet(c) /\ PriRank(c) <= PriRank(p.pri)
        /\ c.invalid = p.pri.invalid /\ (Quiet(p.pri) => c = p.pri)
        /\ c.cur \in {p.pri.cur, "ACTIVE"} /\ (Punctual(p.pri) => Punctual(c))
    BY <2>1, PostAckFacts
  <2>3. /\ d \in Key \cup {NoKey} /\ (Defined(d) => Quiet(d)) /\ SecRank(d) <= SecRank(p.sec)
        /\ Defined(d) <=> Defined(p.sec)
        /\ Defined(d) => /\ d.invalid = p.sec.invalid /\ (Quiet(p.sec) => d = p.sec)
                         /\ d.cur \in {p.sec.cur, "ACTIVE"} /\ (Punctual(p.sec) => Punctual(d))
    <3>1. CASE p.sec \in Key
      BY <3>1, PostAckFacts, KeyIs DEF Defined
    <3>2. CASE p.sec = NoKey
      <4>1. d = NoKey
        BY <3>2, NoKeyRank DEF PostAck
      <4> QED BY <3>2, <4>1, NoKeyRank
    <3> QED BY <2>1, <3>1, <3>2
  <2>4. a = [p EXCEPT !.pri = c, !.sec = d]
    BY DEF Contexts
  <2> HIDE DEF a, c, d
  <2>5. a \in Contexts /\ a.pri = c /\ a.sec = d
    BY <2>2, <2>3, <2>4 DEF Contexts
  <2>6. PriRank(c) \in Nat /\ SecRank(d) \in Nat /\ PriRank(p.pri) \in Nat
        /\ SecRank(p.sec) \in Nat
    BY RankIs
  <2>7. ASSUME Orderly(p)
        PROVE  Orderly(a)
    <3>1. /\ Punctual(c) /\ c.cur \in Posted
          /\ Ended(c) => Spent(c) /\ (Due(c) => c.next = "EXPIRE" /\ Valid(p.sec))
      BY <2>1, <2>2, <2>7, KeyIs DEF Orderly, Posted, Ended, Spent
    <3>2. Defined(d) => Punctual(d) /\ d.cur \in Posted
      BY <2>3, <2>7 DEF Orderly, Posted
    <3>3. Ended(d) => Spent(d) /\ d.next \in {"NONE", "EXPIRE"}
      BY <2>3, <2>7 DEF Orderly, Ended, Spent
    <3>4. Valid(p.sec) => Valid(d)
      BY <2>3 DEF Valid
    <3> QED BY <2>5, <3>1, <3>2, <3>3, <3>4 DEF Orderly
  <2> QED BY <2>2, <2>3, <2>5, <2>6, <2>7 DEF Calm, Rank
<1> HIDE DEF a
<1>4. /\ b \in Calm
      /\ Orderly(a) => /\ Midway(b) /\ Rank(b) <= Rank(a)
                       /\ SecRank(b.sec) > 0 \/ Rank(b) < Rank(a) \/ Rank(b) = 0
  BY <1>3, PrimaryStage
<1> HIDE DEF b
<1>5. /\ r \in Calm
      /\ Midway(b) => /\ Orderly(r) /\ Rank(r) <= Rank(b)
                      /\ SecRank(b.sec) > 0 => Rank(r) < Rank(b)
  BY <1>4, SecondaryStage
<1> HIDE DEF r
<1>6. Orderly(p) => Orderly(r) /\ (Rank(r) < Rank(p) \/ Rank(r) = 0)
  BY <1>2, <1>3, <1>4, <1>5
<1> QED BY <1>1, <1>2, <1>5, <1>6

LEMMA RankBound ==
    ASSUME NEW p
    PROVE  Rank(p) \in 0 .. MaxRounds
<1>1. \A x : One(x) \in 0 .. 1
  BY DEF One
<1>2. \A c : Chain(c, 3) \in 0 .. 3 /\ Chain(c, 4) \in 0 .. 4
  BY DEF Chain
<1>3. \A c : PriRank(c) \in 0 .. 5
  BY <1>1, <1>2 DEF PriRank
<1>4. \A c : SecRank(c) \in 0 .. 8
  BY <1>1, <1>2 DEF SecRank
<1> QED BY <1>3, <1>4 DEF Rank, MaxRounds

\* Who has nothing to do is idle.
LEMMA AtRest ==
    ASSUME NEW p \in Contexts, Rank(p) = 0
    PROVE  Idle(p)
<1>1. PriRank(p.pri) = 0 /\ SecRank(p.sec) = 0
  BY RankIs DEF Rank
<1>2. p.pri.cur = "NONE" /\ ~Due(p.pri)
  BY <1>1, RankIs DEF PriRank, One, Chain
<1>3. Defined(p.sec) => p.sec.cur = "NONE" /\ ~Due(p.sec)
  BY <1>1, RankIs DEF SecRank, One, Chain
<1> QED BY <1>2, <1>3 DEF Idle

\* flush() as the sequence of its rounds.
LEMMA FlushRounds ==
    ASSUME NEW e \in Peer, NEW p \in Contexts
    PROVE  \E rounds :
             /\ Flush(e, p) = rounds[MaxRounds]
             /\ \A n \in 0 .. MaxRounds :
                  rounds[n] = IF n = 0 THEN p ELSE Round(e, rounds[n - 1])
<1> DEFINE Eq(g) == g = [n \in 0 .. MaxRounds |-> IF n = 0 THEN p ELSE Round(e, g[n - 1])]
           rounds == CHOOSE g : Eq(g)
           step == [i \in 1 .. MaxRounds |-> [q \in Contexts |-> Round(e, q)]]
<1>1. Flush(e, p) = rounds[MaxRounds]
  BY DEF Flush
<1>2. MaxRounds \in Nat
  BY DEF MaxRounds
<1>3. \A q \in Contexts : Round(e, q) \in Contexts
  BY RoundFacts DEF Calm
<1>4. \E g : Eq(g)
  <2>1. step \in [1 .. MaxRounds -> [Contexts -> Contexts]]
    BY <1>3
  <2>2. \A i \in 1 .. MaxRounds, q \in Contexts : step[i][q] = Round(e, q)
    OBVIOUS
  <2> HIDE DEF step
  <2>3. PICK f \in [0 .. MaxRounds -> Contexts] : Steps(f, p, step, MaxRounds)
    BY <1>2, <2>1, Recursion
  <2>4. ASSUME NEW i \in 0 .. MaxRounds
        PROVE  f[i] = IF i = 0 THEN p ELSE Round(e, f[i - 1])
    <3>1. CASE i = 0
      BY <2>3, <3>1 DEF Steps
    <3>2. CASE i # 0
      <4>1. i \in 1 .. MaxRounds /\ i - 1 \in 0 .. MaxRounds
        BY <1>2, <3>2
      <4>2. f[i - 1] \in Contexts /\ f[i] = step[i][f[i - 1]]
        BY <2>3, <4>1 DEF Steps
      <4> QED BY <2>2, <3>2, <4>1, <4>2
    <3> QED BY <3>1, <3>2
  <2>5. f = [i \in 0 .. MaxRounds |-> f[i]]
    OBVIOUS
  <2>6. Eq(f)
    BY <2>4, <2>5
  <2> QED BY <2>6
<1>5. Eq(rounds)
  BY <1>4
<1> HIDE DEF rounds
<1>6. \A n \in 0 .. MaxRounds : rounds[n] = IF n = 0 THEN p ELSE Round(e, rounds[n - 1])
  BY <1>5
<1> QED BY <1>1, <1>6

\* By induction on the rounds, of which there are as many as there can be things to do.
LEMMA FlushFacts ==
    ASSUME NEW e \in Peer, NEW p \in Contexts
    PROVE  /\ Flush(e, p) \in Contexts
           /\ Orderly(p) => Orderly(Flush(e, p)) /\ Idle(Flush(e, p))
<1>1. PICK rounds :
        /\ Flush(e, p) = rounds[MaxRounds]
        /\ \A n \in 0 .. MaxRounds : rounds[n] = IF n = 0 THEN p ELSE Round(e, rounds[n - 1])
  BY FlushRounds
<1>2. MaxRounds \in Nat
  BY DEF MaxRounds
<1> DEFINE Less(n) == Rank(rounds[n]) + n <= MaxRounds \/ Rank(rounds[n]) = 0
           Good == {n \in 0 .. MaxRounds :
                      /\ rounds[n] \in Contexts
                      /\ Orderly(p) => Orderly(rounds[n]) /\ Less(n)}
<1>3. 0 \in Good
  <2>1. rounds[0] = p /\ Rank(p) \in 0 .. MaxRounds
    BY <1>2, <1>1, RankBound
  <2> QED BY <1>2, <2>1
<1>4. ASSUME NEW n \in 1 .. MaxRounds, n - 1 \in Good
      PROVE  n \in Good
  <2> DEFINE q == rounds[n - 1]
             r == rounds[n]
  <2>1. /\ q \in Contexts
        /\ Orderly(p) => Orderly(q) /\ (Rank(q) + (n - 1) <= MaxRounds \/ Rank(q) = 0)
    BY <1>4
  <2>2. n \in 0 .. MaxRounds /\ n # 0 /\ n \in Nat
    BY <1>2
  <2>3. r = Round(e, q)
    BY <1>1, <2>2
  <2> HIDE DEF q
  <2>4. /\ r \in Contexts /\ Rank(r) \in Nat /\ Rank(q) \in Nat
        /\ Orderly(q) => Orderly(r) /\ (Rank(r) < Rank(q) \/ Rank(r) = 0)
    BY <2>1, <2>3, RoundFacts DEF Calm
  <2> HIDE DEF r
  <2>5. Orderly(p) => Orderly(r) /\ (Rank(r) + n <= MaxRounds \/ Rank(r) = 0)
    BY <1>2, <2>1, <2>2, <2>4
  <2> QED BY <2>2, <2>4, <2>5 DEF r
<1>5. MaxRounds \in Good
  <2>1. Good \in SUBSET (0 .. MaxRounds)
    OBVIOUS
  <2> HIDE DEF Good
  <2>2. Good = 0 .. MaxRounds
    BY <1>2, <1>3, <1>4, <2>1, UpTo
  <2> QED BY <1>2, <2>2
<1>6. Rank(rounds[MaxRounds]) \in Nat
  BY RankIs DEF Rank
<1>7. /\ rounds[MaxRounds] \in Contexts
      /\ Orderly(p) => Orderly(rounds[MaxRounds]) /\ Rank(rounds[MaxRounds]) = 0
  BY <1>2, <1>5, <1>6
<1> QED BY <1>1, <1>7, AtRest

-----------------------------------------------------------------------------
(* What the parent calls. *)

\* What a packet leaves as it was.
SameTimer(c, d) ==
    /\ d.cur = c.cur /\ d.next = c.next /\ d.due = c.due /\ d.age = c.age
    /\ d.invalid = c.invalid

\* A message that is received keeps a context well formed.
LEMMA RecvMessageFacts ==
    ASSUME NEW e \in Peer, NEW c \in Key, NEW from \in KeyContext,
           c.got + 1 <= Len(from.out),
           from.out[c.got + 1] = "AUTH" => c.state = "WAIT_AUTH"
    PROVE  RecvMessage(e, c, from) \in Key /\ SameTimer(c, RecvMessage(e, c, from))
<1> DEFINE n == c.got + 1
           got == [c EXCEPT !.got = n]
<1>1. n \in 1 .. Len(from.out) /\ from.out \in Seq({"RESET", "AUTH"})
  BY KeyIs DEF KeyContext
<1>2. from.out[n] \in {"RESET", "AUTH"} /\ n \in Nat
  BY <1>1
<1>3. /\ got \in Key /\ got.got = n /\ got.out = c.out /\ got.acked = c.acked
      /\ got.state = c.state /\ got.with = c.with /\ SameTimer(c, got)
  BY <1>2 DEF Key, KeyContext, WellFormed, Timely, SameTimer
<1>4. RecvMessage(e, c, from) =
        IF from.out[n] = "RESET"
        THEN IF c.state # "WAIT_RESET" THEN got
             ELSE [got EXCEPT !.state = "WAIT_RESET_ACK",
                              !.out = IF e = Server THEN Append(@, "RESET") ELSE @]
        ELSE [got EXCEPT !.state = "WAIT_AUTH_ACK", !.with = from.num,
                         !.out = IF e = Server THEN Append(@, "AUTH") ELSE @]
  BY <1>3 DEF RecvMessage
<1> HIDE DEF n, got
<1>5. c.out \in Seq({"RESET", "AUTH"}) /\ Len(c.out) \in Nat
  BY DEF Key, KeyContext
<1>6. ASSUME NEW m \in {"RESET", "AUTH"}
      PROVE  LET out == IF e = Server THEN Append(c.out, m) ELSE c.out
             IN  out \in Seq({"RESET", "AUTH"}) /\ Len(out) \in Nat /\ Len(c.out) <= Len(out)
  BY <1>5
<1>7. CASE from.out[n] = "RESET" /\ c.state # "WAIT_RESET"
  BY <1>3, <1>4, <1>7
<1>8. CASE from.out[n] = "RESET" /\ c.state = "WAIT_RESET"
  <2> DEFINE out == IF e = Server THEN Append(c.out, "RESET") ELSE c.out
  <2>1. out \in Seq({"RESET", "AUTH"}) /\ Len(out) \in Nat /\ Len(c.out) <= Len(out)
    BY <1>6
  <2>2. RecvMessage(e, c, from) = [got EXCEPT !.state = "WAIT_RESET_ACK", !.out = out]
    BY <1>3, <1>4, <1>8 DEF Key, KeyContext
  <2> HIDE DEF out
  <2> DEFINE d == RecvMessage(e, c, from)
  <2>3. "WAIT_RESET_ACK" \in State
    BY DEF State
  <2>4. /\ d \in KeyContext /\ d.out = out /\ d.state = "WAIT_RESET_ACK"
        /\ d.acked = c.acked /\ d.with = c.with /\ d.next = got.next /\ d.due = got.due
        /\ d.age = got.age /\ d.invalid = got.invalid /\ d.cur = got.cur
    BY ZenonT(30), <1>3, <2>1, <2>2, <2>3 DEF Key, KeyContext
  <2> HIDE DEF d
  <2>5. c.with = 0 /\ c.acked \in Nat /\ c.acked <= Len(c.out)
    BY <1>8 DEF Key, KeyContext, WellFormed
  <2>6. got.next = "NONE" => got.invalid # "NONE"
    BY <1>3 DEF Key, WellFormed
  <2>7. WellFormed(d)
    BY <1>5, <2>1, <2>4, <2>5, <2>6 DEF WellFormed
  <2>8. Timely(d)
    BY <1>3, <2>4 DEF Timely, Key
  <2> QED BY <1>3, <2>4, <2>7, <2>8 DEF Key, SameTimer, d
<1>9. CASE from.out[n] = "AUTH"
  <2> DEFINE out == IF e = Server THEN Append(c.out, "AUTH") ELSE c.out
  <2>1. out \in Seq({"RESET", "AUTH"}) /\ Len(out) \in Nat /\ Len(c.out) <= Len(out)
    BY <1>6
  <2>2. RecvMessage(e, c, from) =
          [got EXCEPT !.state = "WAIT_AUTH_ACK", !.with = from.num, !.out = out]
    BY <1>3, <1>4, <1>9 DEF Key, KeyContext
  <2> HIDE DEF out
  <2> DEFINE d == RecvMessage(e, c, from)
  <2>3. "WAIT_AUTH_ACK" \in State /\ from.num \in Nat /\ from.num # 0
    BY DEF State, KeyContext
  <2>4. /\ d \in KeyContext /\ d.out = out /\ d.state = "WAIT_AUTH_ACK"
        /\ d.acked = c.acked /\ d.with = from.num /\ d.next = got.next /\ d.due = got.due
        /\ d.age = got.age /\ d.invalid = got.invalid /\ d.cur = got.cur
    BY ZenonT(30), <1>3, <2>1, <2>2, <2>3 DEF Key, KeyContext
  <2> HIDE DEF d
  <2>5. c.acked \in Nat /\ c.acked <= Len(c.out)
    BY DEF Key, KeyContext, WellFormed
  <2>6. got.next = "NONE" => got.invalid # "NONE"
    BY <1>3 DEF Key, WellFormed
  <2>7. WellFormed(d)
    BY <1>5, <2>1, <2>3, <2>4, <2>5, <2>6 DEF WellFormed
  <2>8. Timely(d)
    BY <1>3, <2>4 DEF Timely, Key
  <2> QED BY <1>3, <2>4, <2>7, <2>8 DEF Key, SameTimer, d
<1> QED BY <1>2, <1>7, <1>8, <1>9

\* TypeOK of one peer: contexts that are in use are those that flush() may work on.
Sound(p) ==
    /\ p \in ProtoContext
    /\ WellFormed(p.pri)
    /\ Defined(p.sec) => WellFormed(p.sec)
    /\ p.pri.invalid = "NONE" => Timely(p.pri) /\ (Defined(p.sec) => Timely(p.sec))

LEMMA TypeIs ==
    TypeOK <=> /\ peer \in [Peer -> ProtoContext]
               /\ \A e \in Peer : Sound(peer[e])
               /\ up \in BOOLEAN
               /\ outages \in 0 .. MaxOutage
               /\ limits \in 0 .. MaxLimits
               /\ time \in 0 .. MaxTime
<1>1. ASSUME NEW e \in Peer, peer[e] \in ProtoContext
      PROVE  Sound(peer[e]) <=>
               \A c \in {peer[e].pri, peer[e].sec} :
                 Defined(c) => /\ WellFormed(c)
                               /\ Running(e) /\ c.next = "BECOME_PRIMARY" => c.age <= c.due
  <2>1. Defined(peer[e].pri)
    BY <1>1 DEF ProtoContext, KeyContext, Defined
  <2> QED BY <1>1, <2>1 DEF Sound, Running, Timely
<1> QED BY <1>1 DEF TypeOK

LEMMA SoundContexts ==
    /\ \A p \in Contexts : Sound(p)
    /\ \A p : Sound(p) /\ p.pri.invalid = "NONE" => p \in Contexts
<1>1. ASSUME NEW p \in Contexts
      PROVE  Sound(p)
  <2>1. p \in ProtoContext
    BY DEF Contexts, ProtoContext, Key
  <2>2. p.pri \in Key /\ (Defined(p.sec) => p.sec \in Key)
    BY ContextsAre
  <2> QED BY <2>1, <2>2 DEF Sound, Key
<1>2. ASSUME NEW p, Sound(p), p.pri.invalid = "NONE"
      PROVE  p \in Contexts
  <2>1. p \in ProtoContext
    BY <1>2 DEF Sound
  <2>2. p.pri \in KeyContext /\ p.sec \in KeyContext \cup {NoKey}
    BY <2>1 DEF ProtoContext
  <2>3. p.pri \in Key
    BY <1>2, <2>2 DEF Sound, Key
  <2>4. p.sec \in Key \cup {NoKey}
    <3>1. CASE p.sec \in KeyContext
      <4>1. Defined(p.sec)
        BY <3>1 DEF KeyContext, Defined
      <4> QED BY <1>2, <3>1, <4>1 DEF Sound, Key
    <3> QED BY <2>2, <3>1
  <2> QED BY <2>1, <2>3, <2>4 DEF Contexts, ProtoContext
<1> QED BY <1>1, <1>2

\* A call hands flush() contexts to work on, and orderly ones if they were.
Flushes(e) ==
    Running(e) /\ \E p \in Contexts :
      /\ peer' = [peer EXCEPT ![e] = Flush(e, p)]
      /\ Orderly(peer[e]) => Orderly(p)

\* They are when what has changed is one valid context.
LEMMA OrderlyPut ==
    ASSUME NEW p \in Contexts, Orderly(p), p.pri.invalid = "NONE",
           NEW s \in {"pri", "sec"}, p[s] \in Key,
           NEW d \in Key, d.invalid = "NONE", d.cur \in Posted \cup {p[s].cur},
           Punctual(p[s]) => Punctual(d)
    PROVE  Orderly([p EXCEPT ![s] = d])
<1>1. p.pri \in Key /\ Defined(p[s]) /\ Defined(d)
  BY ContextsAre, KeyIs
<1>2. CASE s = "pri"
  <2> DEFINE q == [p EXCEPT !.pri = d]
  <2>1. q.pri = d /\ q.sec = p.sec
    BY ContextsAre
  <2>2. Punctual(d) /\ d.cur \in Posted
    BY <1>2 DEF Orderly
  <2> HIDE DEF q
  <2>3. Orderly(q)
    BY <2>1, <2>2 DEF Orderly, Ended
  <2> QED BY <1>2, <2>3 DEF q
<1>3. CASE s = "sec"
  <2> DEFINE q == [p EXCEPT !.sec = d]
  <2>1. q.pri = p.pri /\ q.sec = d
    BY ContextsAre
  <2>2. Punctual(d) /\ d.cur \in Posted
    BY <1>1, <1>3 DEF Orderly
  <2> HIDE DEF q
  <2>3. Orderly(q)
    BY <2>1, <2>2 DEF Orderly, Ended
  <2> QED BY <1>3, <2>3 DEF q
<1> QED BY <1>2, <1>3

\* The contexts of a peer that is running, as a packet for one of them finds them.
LEMMA SlotFacts ==
    ASSUME TypeOK, NEW e \in Peer, Running(e)
    PROVE  /\ peer[e] \in Contexts
           /\ \A s \in {"pri", "sec"} :
                /\ Defined(peer[e][s]) => peer[e][s] \in Key
                /\ \A d \in Key : [peer[e] EXCEPT ![s] = d] \in Contexts
           /\ \A kid \in 0 .. KeyIdMask :
                LET s == Slot(e, kid)
                IN  s # "none" => s \in {"pri", "sec"} /\ peer[e][s] \in Key
<1> DEFINE p == peer[e]
<1>1. p \in Contexts
  BY TypeIs, SoundContexts DEF Running
<1>2. ASSUME NEW s \in {"pri", "sec"}
      PROVE  /\ Defined(p[s]) => p[s] \in Key
             /\ \A d \in Key : [p EXCEPT ![s] = d] \in Contexts
  <2> HIDE DEF p
  <2>1. CASE s = "pri"
    BY <1>1, <2>1, ContextsAre
  <2>2. CASE s = "sec"
    BY <1>1, <2>2, ContextsAre
  <2> QED BY <2>1, <2>2
<1>3. ASSUME NEW kid \in 0 .. KeyIdMask, Slot(e, kid) # "none"
      PROVE  Slot(e, kid) \in {"pri", "sec"} /\ p[Slot(e, kid)] \in Key
  <2>1. p.pri \in Key /\ p.sec \in Key \cup {NoKey}
    BY <1>1, ContextsAre
  <2>2. kid # NoKey.kid
    BY Constants DEF NoKey
  <2>3. CASE kid = p.pri.kid
    BY <2>1, <2>3 DEF Slot
  <2>4. CASE kid # p.pri.kid
    <3>1. kid = p.sec.kid /\ Slot(e, kid) = "sec"
      BY <1>3, <2>4 DEF Slot
    <3>2. p.sec \in Key
      BY <2>1, <2>2, <3>1
    <3> QED BY <3>1, <3>2
  <2> QED BY <2>3, <2>4
<1> QED BY <1>1, <1>2, <1>3

LEMMA SendersAre ==
    ASSUME TypeOK, NEW e \in Peer, NEW c \in Senders(Other(e))
    PROVE  c \in KeyContext /\ c.kid \in 0 .. KeyIdMask
<1>1. Other(e) \in Peer
  BY DEF Other, Peer
<1>2. peer[Other(e)] \in ProtoContext
  BY <1>1 DEF TypeOK
<1>3. c \in {peer[Other(e)].pri, peer[Other(e)].sec} /\ Defined(c)
  BY DEF Senders
<1>4. ~Defined(NoKey)
  BY NoKeyRank
<1>5. c \in KeyContext
  BY <1>2, <1>3, <1>4 DEF ProtoContext
<1> QED BY <1>5 DEF KeyContext

LEMMA HousekeepingFlushes ==
    ASSUME TypeOK, NEW e \in Peer, Housekeeping(e)
    PROVE  Flushes(e)
<1>1. Running(e) /\ peer' = [peer EXCEPT ![e] = Flush(e, @)]
  BY DEF Housekeeping
<1>2. peer[e] \in Contexts
  BY <1>1, SlotFacts
<1>3. peer \in [Peer -> ProtoContext]
  BY DEF TypeOK
<1> QED BY <1>1, <1>2, <1>3 DEF Flushes

LEMMA ReceiveFlushes ==
    ASSUME TypeOK, NEW e \in Peer, NEW from \in Senders(Other(e)), Receive(e, from)
    PROVE  Flushes(e)
<1> DEFINE s == Slot(e, from.kid)
           c == peer[e][s]
           d == RecvMessage(e, c, from)
           p == [peer[e] EXCEPT ![s] = d]
<1>1. Running(e) /\ s # "none" /\ Readable(c, from) /\ c.invalid = "NONE"
  BY DEF Receive, CanReceive
<1>2. from \in KeyContext /\ from.kid \in 0 .. KeyIdMask
  BY SendersAre
<1>3. s \in {"pri", "sec"} /\ c \in Key
  BY <1>1, <1>2, SlotFacts
<1>4. d \in Key /\ SameTimer(c, d)
  <2> HIDE DEF c
  <2>1. c.got + 1 <= Len(from.out)
        /\ (from.out[c.got + 1] = "AUTH" => c.state = "WAIT_AUTH")
    BY <1>1 DEF Readable
  <2> QED BY <1>2, <1>3, <2>1, RecvMessageFacts
<1>5. p \in Contexts
  <2> HIDE DEF d, s
  <2> QED BY <1>1, <1>3, <1>4, SlotFacts
<1>6. peer' = [peer EXCEPT ![e] = Flush(e, p)]
  BY DEF Receive
<1>7. Orderly(peer[e]) => Orderly(p)
  <2>1. d.invalid = "NONE" /\ d.cur = c.cur /\ (Punctual(c) => Punctual(d))
    BY <1>1, <1>4 DEF SameTimer, Punctual
  <2>2. peer[e] \in Contexts /\ peer[e].pri.invalid = "NONE"
    BY <1>1, SlotFacts DEF Running
  <2> HIDE DEF d, s
  <2> QED BY <1>3, <1>4, <2>1, <2>2, OrderlyPut
<1> QED BY <1>1, <1>5, <1>6, <1>7 DEF Flushes

LEMMA SoftResetFlushes ==
    ASSUME TypeOK, NEW e \in Peer, NEW from \in Senders(Other(e)), SoftReset(e, from)
    PROVE  Flushes(e)
<1> DEFINE q == NewSecondary(peer[e], FALSE)
           c == RecvMessage(e, q.sec, from)
           p == [q EXCEPT !.sec = c]
<1>1. Running(e) /\ from.out # <<>> /\ from.out[1] = "RESET"
  BY DEF SoftReset, CanSoftReset
<1>2. from \in KeyContext
  BY SendersAre
<1>3. /\ q \in Contexts /\ q.sec \in Key /\ q.sec.got = 0 /\ q.pri = peer[e].pri
      /\ q.sec.invalid = "NONE" /\ q.sec.cur = "NONE" /\ Punctual(q.sec)
  BY <1>1, SlotFacts, NewSecondaryFacts
<1>4. peer' = [peer EXCEPT ![e] = Flush(e, p)]
  BY DEF SoftReset
<1>a. Orderly(peer[e]) => Orderly(q)
  <2>1. Ended(peer[e].pri) <=> FALSE
    BY <1>1 DEF Ended, Running
  <2> HIDE DEF q
  <2> QED BY <1>3, <2>1 DEF Orderly, Ended, Posted
<1> HIDE DEF q
<1>5. c \in Key /\ SameTimer(q.sec, c)
  <2>1. from.out \in Seq({"RESET", "AUTH"})
    BY <1>2 DEF KeyContext
  <2>2. Len(from.out) >= 1
    BY <1>1, <2>1
  <2>3. q.sec.got + 1 <= Len(from.out) /\ from.out[q.sec.got + 1] # "AUTH"
    BY <1>1, <1>3, <2>2
  <2> QED BY <1>2, <1>3, <2>3, RecvMessageFacts
<1>6. p \in Contexts
  <2> HIDE DEF c
  <2> QED BY <1>3, <1>5, ContextsAre
<1>7. Orderly(q) => Orderly(p)
  <2>1. c.invalid = "NONE" /\ c.cur = q.sec.cur /\ Punctual(c)
    BY <1>3, <1>5 DEF SameTimer, Punctual
  <2>2. q.pri.invalid = "NONE"
    BY <1>1, <1>3 DEF Running
  <2> HIDE DEF c
  <2>3. "sec" \in {"pri", "sec"} /\ q["sec"] = q.sec
    OBVIOUS
  <2>4. Orderly(q) => Orderly([q EXCEPT !["sec"] = c])
    BY <1>3, <1>5, <2>1, <2>2, <2>3, OrderlyPut
  <2> QED BY <2>4
<1> QED BY <1>1, <1>4, <1>6, <1>7, <1>a DEF Flushes

LEMMA ReceiveAckFlushes ==
    ASSUME TypeOK, NEW e \in Peer, NEW from \in Senders(Other(e)), ReceiveAck(e, from)
    PROVE  Flushes(e)
<1> DEFINE s == Slot(e, from.kid)
           c == peer[e][s]
           d == [c EXCEPT !.acked = from.got]
           p == [peer[e] EXCEPT ![s] = d]
<1>1. /\ Running(e) /\ s # "none" /\ c.acked < from.got /\ from.got <= Len(c.out)
      /\ c.invalid = "NONE"
  BY DEF ReceiveAck, CanAck
<1>2. from \in KeyContext /\ from.kid \in 0 .. KeyIdMask
  BY SendersAre
<1>3. s \in {"pri", "sec"} /\ c \in Key
  BY <1>1, <1>2, SlotFacts
<1>4. d \in Key /\ SameTimer(c, d)
  <2> HIDE DEF c
  <2>1. from.got \in Nat
    BY <1>2 DEF KeyContext
  <2>2. c.state # "ACTIVE"
    <3>1. c.acked \in Nat /\ Len(c.out) \in Nat
      BY <1>3 DEF Key, KeyContext
    <3> QED BY <1>1, <1>3, <2>1, <3>1 DEF Key, WellFormed
  <2> QED BY <1>1, <1>3, <2>1, <2>2 DEF Key, KeyContext, WellFormed, Timely, SameTimer
<1>5. p \in Contexts
  <2> HIDE DEF d, s
  <2> QED BY <1>1, <1>3, <1>4, SlotFacts
<1>6. peer \in [Peer -> ProtoContext]
  BY DEF TypeOK
<1>7. peer' = [peer EXCEPT ![e] = Flush(e, p)]
  BY <1>6 DEF ReceiveAck
<1>8. Orderly(peer[e]) => Orderly(p)
  <2>1. d.invalid = "NONE" /\ d.cur = c.cur /\ (Punctual(c) => Punctual(d))
    <3> HIDE DEF c, d
    <3> QED BY <1>1, <1>4 DEF SameTimer, Punctual
  <2>2. peer[e] \in Contexts /\ peer[e].pri.invalid = "NONE"
    BY <1>1, SlotFacts DEF Running
  <2> HIDE DEF d, s
  <2> QED BY <1>3, <1>4, <2>1, <2>2, OrderlyPut
<1> QED BY <1>1, <1>5, <1>7, <1>8 DEF Flushes

LEMMA TurnGreenFlushes ==
    ASSUME TypeOK, NEW e \in Peer, TurnGreen(e)
    PROVE  Flushes(e)
<1> DEFINE s == Slot(e, peer[Other(e)].pri.kid)
           c == [peer[e][s] EXCEPT !.green = TRUE]
           d == IF c.next = "PRIMARY_PENDING"
                THEN SetEvent(c, "NONE", "BECOME_PRIMARY", c.age + 1) ELSE c
           p == [peer[e] EXCEPT ![s] = d]
<1>1. Running(e) /\ s # "none" /\ peer[e][s].invalid = "NONE"
  BY DEF TurnGreen, CanTurnGreen
<1>2. peer[Other(e)].pri.kid \in 0 .. KeyIdMask
  <2>1. Other(e) \in Peer
    BY DEF Other, Peer
  <2>2. peer[Other(e)].pri \in KeyContext
    BY <2>1 DEF TypeOK, ProtoContext
  <2> QED BY <2>2 DEF KeyContext
<1>3. s \in {"pri", "sec"} /\ peer[e][s] \in Key
  BY <1>1, <1>2, SlotFacts
<1>4. peer' = [peer EXCEPT ![e] = Flush(e, p)]
  <2>1. peer \in [Peer -> ProtoContext]
    BY DEF TypeOK
  <2> QED BY <2>1 DEF TurnGreen
<1>5. c \in Key /\ SameTimer(peer[e][s], c)
  BY <1>3 DEF Key, KeyContext, WellFormed, Timely, SameTimer
<1> HIDE DEF s, c
<1>6. /\ d \in Key /\ d.invalid = "NONE" /\ d.cur \in Posted \cup {peer[e][s].cur}
      /\ Punctual(peer[e][s]) => Punctual(d)
  <2>1. c.age + 1 \in Nat /\ c.age <= c.age + 1
    BY <1>5, KeyIs
  <2>2. "NONE" \in Event /\ "BECOME_PRIMARY" \in Event \ {"ACTIVE", "RENEGOTIATE_QUEUE"}
    BY DEF Event
  <2> DEFINE f == SetEvent(c, "NONE", "BECOME_PRIMARY", c.age + 1)
  <2>3. f \in Key /\ f.invalid = c.invalid /\ f.cur = "NONE" /\ f.next = "BECOME_PRIMARY"
    BY <1>5, <2>1, <2>2, SetEventFacts
  <2> HIDE DEF f
  <2>4. CASE c.next = "PRIMARY_PENDING"
    <3>1. d = f
      BY <2>4 DEF f
    <3> HIDE DEF d
    <3> QED BY <1>1, <1>5, <2>3, <3>1 DEF SameTimer, Punctual, Posted
  <2>5. CASE c.next # "PRIMARY_PENDING"
    <3>1. d = c
      BY <2>5
    <3> HIDE DEF d
    <3> QED BY <1>1, <1>5, <3>1 DEF SameTimer, Punctual
  <2> QED BY <2>4, <2>5
<1> HIDE DEF d
<1>7. p \in Contexts
  BY <1>1, <1>3, <1>6, SlotFacts
<1>8. Orderly(peer[e]) => Orderly(p)
  <2>1. peer[e] \in Contexts /\ peer[e].pri.invalid = "NONE"
    BY <1>1, SlotFacts DEF Running
  <2> QED BY <1>3, <1>6, <2>1, OrderlyPut
<1> QED BY <1>1, <1>4, <1>7, <1>8 DEF Flushes

LEMMA LimitExceededFlushes ==
    ASSUME TypeOK, NEW e \in Peer, NEW s \in {"pri", "sec"}, LimitExceeded(e, s)
    PROVE  Flushes(e)
<1> DEFINE c == [peer[e][s] EXCEPT !.fired = TRUE]
           wait == IF e = Server THEN 2 * LimitDelay ELSE LimitDelay
           d == IF c.next = "BECOME_PRIMARY" THEN [c EXCEPT !.cur = "RENEGOTIATE_QUEUE"]
                ELSE SetEvent(c, "NONE", "RENEGOTIATE", c.age + wait)
           p == [peer[e] EXCEPT ![s] = d]
<1>1. Running(e) /\ Defined(peer[e][s]) /\ peer[e][s].invalid = "NONE"
  BY DEF LimitExceeded
<1>2. peer[e][s] \in Key
  BY <1>1, SlotFacts
<1>3. peer' = [peer EXCEPT ![e] = Flush(e, p)]
  <2>1. peer \in [Peer -> ProtoContext]
    BY DEF TypeOK
  <2> QED BY <2>1 DEF LimitExceeded
<1>4. c \in Key /\ SameTimer(peer[e][s], c)
  BY <1>2 DEF Key, KeyContext, WellFormed, Timely, SameTimer
<1> HIDE DEF c
<1>5. /\ d \in Key /\ d.invalid = "NONE" /\ d.cur \in Posted \cup {peer[e][s].cur}
      /\ Punctual(peer[e][s]) => Punctual(d)
  <2>1. "NONE" \in Event /\ "RENEGOTIATE" \in Event \ {"ACTIVE", "RENEGOTIATE_QUEUE"}
        /\ "RENEGOTIATE_QUEUE" \in Event
    BY DEF Event
  <2>2. c.age + wait \in Nat
    BY <1>4, Constants, KeyIs
  <2> HIDE DEF wait
  <2> DEFINE f == SetEvent(c, "NONE", "RENEGOTIATE", c.age + wait)
             g == [c EXCEPT !.cur = "RENEGOTIATE_QUEUE"]
  <2>3. f \in Key /\ f.invalid = c.invalid /\ f.cur = "NONE" /\ f.next = "RENEGOTIATE"
    BY <1>4, <2>1, <2>2, SetEventFacts
  <2>4. /\ g \in Key /\ g.invalid = c.invalid /\ g.cur = "RENEGOTIATE_QUEUE"
        /\ g.next = c.next
    BY <1>4, <2>1 DEF Key, KeyContext, WellFormed, Timely
  <2>5. d = IF c.next = "BECOME_PRIMARY" THEN g ELSE f
    BY DEF f, g
  <2> HIDE DEF d, f, g
  <2>6. CASE c.next = "BECOME_PRIMARY"
    <3>1. d = g
      BY <2>5, <2>6
    <3> QED BY <1>1, <1>4, <2>4, <2>6, <3>1 DEF SameTimer, Punctual, Posted
  <2>7. CASE c.next # "BECOME_PRIMARY"
    <3>1. d = f
      BY <2>5, <2>7
    <3> QED BY <1>1, <1>4, <2>3, <3>1 DEF SameTimer, Punctual, Posted
  <2> QED BY <2>6, <2>7
<1> HIDE DEF d
<1>6. p \in Contexts
  BY <1>1, <1>5, SlotFacts
<1>7. Orderly(peer[e]) => Orderly(p)
  <2>1. peer[e] \in Contexts /\ peer[e].pri.invalid = "NONE"
    BY <1>1, SlotFacts DEF Running
  <2> QED BY <1>2, <1>5, <2>1, OrderlyPut
<1> QED BY <1>1, <1>3, <1>6, <1>7 DEF Flushes

\* As time passes nothing that is due is left waiting.
LEMMA OlderFacts ==
    ASSUME TypeOK, NEW e \in Peer, Handled(e)
    PROVE  Sound([peer[e] EXCEPT !.pri = Older(@), !.sec = Older(@)])
<1> DEFINE p == peer[e]
           q == [p EXCEPT !.pri = Older(p.pri), !.sec = Older(p.sec)]
<1>1. Sound(p) /\ p \in ProtoContext
  BY TypeIs DEF Sound
<1>2. q = [peer[e] EXCEPT !.pri = Older(@), !.sec = Older(@)]
  BY <1>1 DEF ProtoContext
<1>3. Defined(p.pri) /\ p.pri \in KeyContext /\ p.sec \in KeyContext \cup {NoKey}
  BY <1>1 DEF ProtoContext, KeyContext, Defined
<1>4. ASSUME NEW c \in KeyContext, Defined(c), WellFormed(c)
      PROVE  /\ Older(c) \in KeyContext /\ WellFormed(Older(c)) /\ Defined(Older(c))
             /\ Older(c).invalid = c.invalid
             /\ ~Due(c) => Timely(Older(c))
  <2> DEFINE d == [c EXCEPT !.age = c.age + 1]
  <2>1. Older(c) = d
    BY <1>4 DEF Older, KeyContext
  <2>2. d \in KeyContext /\ d.next = c.next /\ d.due = c.due /\ d.age = c.age + 1
        /\ c.age \in Nat /\ c.due \in Nat /\ d.num = c.num /\ d.invalid = c.invalid
    BY DEF KeyContext
  <2>3. WellFormed(d)
    BY <1>4 DEF WellFormed, KeyContext
  <2> HIDE DEF d
  <2> QED BY <1>4, <2>1, <2>2, <2>3 DEF Timely, Due, Defined
<1>5. /\ Older(p.pri) \in KeyContext /\ WellFormed(Older(p.pri))
      /\ Older(p.pri).invalid = p.pri.invalid
      /\ ~Due(p.pri) => Timely(Older(p.pri))
  BY <1>1, <1>3, <1>4 DEF Sound
<1>6. /\ Older(p.sec) \in KeyContext \cup {NoKey}
      /\ Defined(Older(p.sec)) => WellFormed(Older(p.sec))
      /\ Defined(Older(p.sec)) /\ ~Due(p.sec) => Timely(Older(p.sec))
  <2>1. CASE Defined(p.sec)
    <3>1. p.sec \in KeyContext
      BY <1>3, <2>1, NoKeyRank
    <3> QED BY <1>1, <1>4, <2>1, <3>1 DEF Sound
  <2>2. CASE ~Defined(p.sec)
    BY <1>3, <2>2 DEF Older
  <2> QED BY <2>1, <2>2
<1>7. p.pri.invalid = "NONE" => ~Due(p.pri) /\ ~Due(p.sec)
  BY DEF Handled, Running
<1> HIDE DEF p
<1>8. q \in ProtoContext /\ q.pri = Older(p.pri) /\ q.sec = Older(p.sec)
  BY <1>1, <1>5, <1>6 DEF ProtoContext
<1> HIDE DEF q
<1> QED BY <1>2, <1>5, <1>6, <1>7, <1>8 DEF Sound

\* And peers that handle a handshake's end in time are punctual: it comes before their
\* keys would expire.
Order == \A e \in Peer : Running(e) => Orderly(peer[e])

LEMMA OlderOrderly ==
    ASSUME TypeOK, HandshakeWindow < Expire, NEW e \in Peer, Handled(e), Running(e),
           Orderly(peer[e])
    PROVE  Orderly([peer[e] EXCEPT !.pri = Older(@), !.sec = Older(@)])
<1> DEFINE p == peer[e]
           q == [p EXCEPT !.pri = Older(p.pri), !.sec = Older(p.sec)]
<1>1. p \in Contexts /\ p.pri.invalid = "NONE" /\ ~Due(p.pri) /\ ~Due(p.sec) /\ Orderly(p)
  BY SlotFacts DEF Running, Handled
<1>2. q = [peer[e] EXCEPT !.pri = Older(@), !.sec = Older(@)]
  BY <1>1 DEF Contexts
<1> HIDE DEF p
<1>3. p.pri \in Key /\ p.sec \in Key \cup {NoKey} /\ (Defined(p.sec) <=> p.sec \in Key)
  BY <1>1, ContextsAre
<1>4. q.pri = Older(p.pri) /\ q.sec = Older(p.sec)
  BY <1>1 DEF Contexts
<1> HIDE DEF q
<1>5. ASSUME NEW c \in Key, ~Due(c), Punctual(c)
      PROVE  /\ Punctual(Older(c)) /\ Older(c).cur = c.cur /\ Older(c).next = c.next
             /\ Older(c).invalid = c.invalid /\ (Quiet(c) => Quiet(Older(c)))
             /\ Defined(Older(c))
  <2> DEFINE d == [c EXCEPT !.age = c.age + 1]
  <2>1. Older(c) = d /\ Defined(c)
    BY KeyIs DEF Older, Key, KeyContext
  <2>2. /\ d.cur = c.cur /\ d.next = c.next /\ d.due = c.due /\ d.age = c.age + 1
        /\ d.invalid = c.invalid /\ d.num = c.num
        /\ d.acked = c.acked /\ d.out = c.out /\ d.state = c.state
    BY DEF Key, KeyContext
  <2> HIDE DEF d
  <2>3. c.age \in Nat /\ c.due \in Nat /\ HandshakeWindow \in Nat /\ Expire \in Nat
    BY KeyIs, Constants DEF Expire
  <2>4. Punctual(d)
    BY <1>5, <2>1, <2>2, <2>3 DEF Punctual, Due
  <2> QED BY <2>1, <2>2, <2>4 DEF Quiet, Defined
<1>6. /\ Punctual(q.pri) /\ q.pri.cur \in Posted /\ ~Ended(q.pri)
  <2>1. Punctual(p.pri) /\ p.pri.cur \in Posted
    BY <1>1 DEF Orderly
  <2> QED BY <1>1, <1>3, <1>4, <1>5, <2>1 DEF Ended
<1>7. /\ Defined(q.sec) => Punctual(q.sec) /\ q.sec.cur \in Posted
      /\ Ended(q.sec) => Spent(q.sec) /\ q.sec.next \in {"NONE", "EXPIRE"}
  <2>1. CASE Defined(p.sec)
    <3>1. /\ Punctual(p.sec) /\ p.sec.cur \in Posted
          /\ Ended(p.sec) => Spent(p.sec) /\ p.sec.next \in {"NONE", "EXPIRE"}
      BY <1>1, <2>1 DEF Orderly
    <3> QED BY <1>1, <1>3, <1>4, <1>5, <2>1, <3>1 DEF Ended, Spent
  <2>2. CASE ~Defined(p.sec)
    BY <1>4, <2>2 DEF Older, Ended
  <2> QED BY <2>1, <2>2
<1>8. Orderly(q)
  BY <1>6, <1>7 DEF Orderly
<1> QED BY <1>2, <1>8

\* What every step comes to: a call that flushes one peer's contexts, or a tick.
LEMMA StepsAre ==
    ASSUME TypeOK, [Next]_vars
    PROVE  \/ Tick
           \/ UNCHANGED vars
           \/ /\ \E e \in Peer : Flushes(e)
              /\ UNCHANGED <<up, outages, time>>
              /\ limits' \in {limits, limits + 1} /\ limits' <= MaxLimits
<1>1. limits \in 0 .. MaxLimits /\ MaxLimits \in Nat
  BY BoundAssumption DEF TypeOK
<1>2. ASSUME NEW e \in Peer, Housekeeping(e)
      PROVE  Flushes(e) /\ UNCHANGED <<up, outages, limits, time>>
  BY <1>2, HousekeepingFlushes DEF Housekeeping
<1>3. ASSUME NEW e \in Peer, TurnGreen(e)
      PROVE  Flushes(e) /\ UNCHANGED <<up, outages, limits, time>>
  BY <1>3, TurnGreenFlushes DEF TurnGreen
<1>4. ASSUME NEW e \in Peer, NEW s \in {"pri", "sec"}, LimitExceeded(e, s)
      PROVE  Flushes(e) /\ limits' = limits + 1 /\ limits < MaxLimits
             /\ UNCHANGED <<up, outages, time>>
  BY <1>4, LimitExceededFlushes DEF LimitExceeded
<1>5. ASSUME NEW e \in Peer, NEW c \in Senders(Other(e)), Receive(e, c)
      PROVE  Flushes(e) /\ UNCHANGED <<up, outages, limits, time>>
  BY <1>5, ReceiveFlushes DEF Receive
<1>6. ASSUME NEW e \in Peer, NEW c \in Senders(Other(e)), SoftReset(e, c)
      PROVE  Flushes(e) /\ UNCHANGED <<up, outages, limits, time>>
  BY <1>6, SoftResetFlushes DEF SoftReset
<1>7. ASSUME NEW e \in Peer, NEW c \in Senders(Other(e)), ReceiveAck(e, c)
      PROVE  Flushes(e) /\ UNCHANGED <<up, outages, limits, time>>
  BY <1>7, ReceiveAckFlushes DEF ReceiveAck
<1>8. CASE UNCHANGED vars
  BY <1>8
<1>9. CASE Next
  BY <1>1, <1>2, <1>3, <1>4, <1>5, <1>6, <1>7, <1>9 DEF Next
<1> QED BY <1>8, <1>9

LEMMA TypeIsNext ==
    TypeOK' <=> ( /\ peer \in [Peer -> ProtoContext]
                  /\ \A e \in Peer : Sound(peer[e])
                  /\ up \in BOOLEAN
                  /\ outages \in 0 .. MaxOutage
                  /\ limits \in 0 .. MaxLimits
                  /\ time \in 0 .. MaxTime )'
  BY TypeIs, PTL

LEMMA InitTypes ==
    ASSUME Init
    PROVE  TypeOK
<1> DEFINE key(e) == NewContext(1, 0, e = Client)
           p(e) == [pri |-> key(e), sec |-> NoKey, upcoming |-> 1, nKeys |-> 1, actives |-> 0]
<1>1. ASSUME NEW e \in Peer
      PROVE  p(e) \in Contexts
  <2>1. 1 \in Nat \ {0} /\ 0 \in 0 .. KeyIdMask /\ (e = Client) \in BOOLEAN
        /\ 1 \in 1 .. KeyIdMask /\ 1 \in Nat /\ 0 \in Nat
    BY Constants
  <2>2. key(e) \in Key
    BY <2>1, NewContextFacts
  <2> HIDE DEF key
  <2> QED BY <2>1, <2>2 DEF Contexts
<1>2. peer = [e \in Peer |-> p(e)]
  BY DEF Init
<1> HIDE DEF p
<1>3. \A e \in Peer : peer[e] = p(e) /\ Sound(p(e))
  BY <1>1, <1>2, SoundContexts
<1>4. \A e \in Peer : p(e) \in ProtoContext
  BY <1>3 DEF Sound
<1>5. peer \in [Peer -> ProtoContext]
  BY <1>2, <1>4
<1>6. up \in BOOLEAN /\ outages \in 0 .. MaxOutage /\ limits \in 0 .. MaxLimits
      /\ time \in 0 .. MaxTime
  <2>1. MaxOutage \in Nat /\ MaxLimits \in Nat /\ MaxTime \in Nat
    BY BoundAssumption
  <2>2. \/ up = TRUE /\ outages = 0
        \/ up = FALSE /\ MaxOutage > 0 /\ outages = 1
    BY DEF Init
  <2>3. limits = 0 /\ time = 0
    BY DEF Init
  <2>4. up \in BOOLEAN
    BY Zenon, <2>2
  <2>5. outages = 0 \/ (MaxOutage > 0 /\ outages = 1)
    BY Zenon, <2>2
  <2> QED BY <2>1, <2>3, <2>4, <2>5
<1> QED BY <1>3, <1>5, <1>6, TypeIs

LEMMA InitOrder ==
    ASSUME Init
    PROVE  Order
<1>1. ASSUME NEW e \in Peer
      PROVE  Orderly(peer[e])
  <2> DEFINE c == NewContext(1, 0, e = Client)
  <2>1. peer[e].pri = c /\ peer[e].sec = NoKey
    BY DEF Init
  <2>2. 1 \in Nat \ {0} /\ 0 \in 0 .. KeyIdMask /\ (e = Client) \in BOOLEAN
    BY Constants
  <2>3. c.cur = "NONE" /\ c.invalid = "NONE" /\ Punctual(c)
    BY <2>2, NewContextFacts
  <2> HIDE DEF c
  <2> QED BY <2>1, <2>3, NoKeyRank DEF Orderly, Ended, Posted
<1> QED BY <1>1 DEF Order

\* What holds after a call: the contexts are still sound, and at rest if they were orderly.
LEMMA FlushesStep ==
    ASSUME TypeOK, NEW e \in Peer, Flushes(e)
    PROVE  /\ peer' \in [Peer -> ProtoContext]
           /\ \A f \in Peer : Sound(peer'[f])
           /\ Order => Order' /\ \A f \in Peer : peer'[f] # peer[f] => Idle(peer'[f])
<1>1. PICK p \in Contexts : /\ peer' = [peer EXCEPT ![e] = Flush(e, p)]
                            /\ Orderly(peer[e]) => Orderly(p)
  BY DEF Flushes
<1> DEFINE q == Flush(e, p)
<1>2. q \in Contexts /\ (Orderly(p) => Orderly(q) /\ Idle(q))
  BY FlushFacts
<1>3. Sound(q) /\ q \in ProtoContext
  BY <1>2, SoundContexts DEF Sound
<1> HIDE DEF q
<1>4. peer \in [Peer -> ProtoContext] /\ \A f \in Peer : Sound(peer[f])
  BY TypeIs
<1>5. peer' = [peer EXCEPT ![e] = q]
  BY <1>1 DEF q
<1>6. ASSUME Order
      PROVE  Order' /\ \A f \in Peer : peer'[f] # peer[f] => Idle(peer'[f])
  <2>1. Orderly(q) /\ Idle(q)
    BY <1>1, <1>2, <1>6 DEF Order, Flushes
  <2>2. \A f \in Peer : peer'[f] = IF f = e THEN q ELSE peer[f]
    BY <1>4, <1>5
  <2>3. \A f \in Peer : peer'[f].pri.invalid = "NONE" => Orderly(peer'[f])
    BY <1>6, <2>1, <2>2 DEF Order, Running
  <2> QED BY <2>1, <2>2, <2>3 DEF Order, Running
<1> QED BY <1>3, <1>4, <1>5, <1>6

LEMMA TypeStep ==
    ASSUME TypeOK, [Next]_vars
    PROVE  /\ TypeOK'
           /\ HandshakeWindow < Expire /\ Order =>
                /\ Order'
                /\ \A e \in Peer : peer'[e] # peer[e] /\ time' = time => Idle(peer'[e])
<1>1. /\ peer \in [Peer -> ProtoContext] /\ \A e \in Peer : Sound(peer[e])
      /\ up \in BOOLEAN /\ outages \in 0 .. MaxOutage /\ limits \in 0 .. MaxLimits
      /\ time \in 0 .. MaxTime
  BY TypeIs
<1>2. MaxOutage \in Nat /\ MaxLimits \in Nat /\ MaxTime \in Nat
  BY BoundAssumption
<1>3. CASE Tick
  <2> DEFINE q(e) == [peer[e] EXCEPT !.pri = Older(@), !.sec = Older(@)]
  <2>1. \A e \in Peer : Sound(q(e))
    BY <1>3, OlderFacts DEF Tick
  <2>2. peer' = [e \in Peer |-> q(e)]
    BY <1>3 DEF Tick
  <2> HIDE DEF q
  <2>3. \A e \in Peer : Sound(peer'[e]) /\ q(e) \in ProtoContext
    BY <2>1, <2>2 DEF Sound
  <2>4. peer' \in [Peer -> ProtoContext]
    BY <2>2, <2>3
  <2>5. limits' \in 0 .. MaxLimits /\ time' \in 0 .. MaxTime /\ time' # time
    <3>1. limits' = limits /\ time' = time + 1 /\ time < MaxTime
      BY <1>3 DEF Tick
    <3> QED BY <1>1, <1>2, <3>1
  <2>6. up' \in BOOLEAN
    BY <1>3 DEF Tick
  <2>7. outages' \in 0 .. MaxOutage
    <3>1. outages' = outages \/ (outages' = outages + 1 /\ outages < MaxOutage)
      BY <1>3 DEF Tick
    <3> QED BY <1>1, <1>2, <3>1
  <2>8. ASSUME HandshakeWindow < Expire, Order
        PROVE  Order'
    <3>1. ASSUME NEW e \in Peer, peer'[e].pri.invalid = "NONE"
          PROVE  Orderly(peer'[e])
      <4>1. peer'[e] = [peer[e] EXCEPT !.pri = Older(@), !.sec = Older(@)]
        BY <1>3 DEF Tick
      <4>2. Running(e)
        <5>1. peer[e].pri \in KeyContext /\ peer'[e].pri = Older(peer[e].pri)
          BY <1>1, <4>1 DEF ProtoContext
        <5>2. Older(peer[e].pri).invalid = peer[e].pri.invalid
          BY <5>1 DEF Older, KeyContext
        <5> QED BY <3>1, <5>1, <5>2 DEF Running
      <4>3. Handled(e) /\ Orderly(peer[e])
        BY <1>3, <2>8, <4>2 DEF Tick, Order
      <4> QED BY <2>8, <4>1, <4>2, <4>3, OlderOrderly
    <3> QED BY <3>1 DEF Order, Running
  <2> QED BY <2>3, <2>4, <2>5, <2>6, <2>7, <2>8, TypeIsNext
<1>4. CASE UNCHANGED vars
  BY <1>1, <1>4, TypeIsNext DEF vars, Order, Running
<1>5. CASE /\ \E e \in Peer : Flushes(e)
           /\ UNCHANGED <<up, outages, time>>
           /\ limits' \in {limits, limits + 1} /\ limits' <= MaxLimits
  <2>1. /\ peer' \in [Peer -> ProtoContext]
        /\ \A f \in Peer : Sound(peer'[f])
        /\ Order => Order' /\ \A f \in Peer : peer'[f] # peer[f] => Idle(peer'[f])
    BY <1>5, FlushesStep
  <2>2. up' \in BOOLEAN /\ outages' \in 0 .. MaxOutage /\ limits' \in 0 .. MaxLimits
        /\ time' \in 0 .. MaxTime
    BY <1>1, <1>2, <1>5
  <2> QED BY <2>1, <2>2, TypeIsNext
<1> QED BY <1>3, <1>4, <1>5, StepsAre

-----------------------------------------------------------------------------
(***************************************************************************)
(* The two peers in step.  As long as the network has not failed and no    *)
(* limit has been exceeded, a peer's contexts keep to one course, from the *)
(* first key through one renewal after another, and the other peer's       *)
(* follow them, at most the reset that starts a renewal behind.            *)
(***************************************************************************)

\* The messages that a context has sent: none, a reset, or a reset and an auth message.
NoneSent == <<>>
ResetSent == <<"RESET">>
AuthSent == <<"RESET", "AUTH">>

\* How far the handshake of a context is.  An end that has what it needs to go on
\* does so when post_ack_action() is called next.
Shaken(e, c) ==
    LET own == IF e = Client THEN ResetSent ELSE NoneSent
        two == IF e = Client THEN AuthSent ELSE ResetSent
    IN  \/ /\ c.state = "WAIT_RESET" /\ c.got = 0 /\ c.with = 0
           /\ c.out = own /\ c.acked \in 0 .. Len(own)
        \/ /\ c.state = "WAIT_RESET_ACK" /\ c.got = 1 /\ c.with = 0
           /\ c.out = ResetSent /\ c.acked \in {0, 1}
        \/ /\ c.state = "WAIT_AUTH" /\ c.got = 1 /\ c.with = 0
           /\ c.out = two /\ c.acked \in 1 .. Len(two)
        \/ /\ c.state = "WAIT_AUTH_ACK" /\ c.got = 2 /\ c.with = c.num
           /\ c.out = AuthSent /\ c.acked \in {1, 2}
        \/ /\ c.state = "ACTIVE" /\ c.got = 2 /\ c.with = c.num
           /\ c.out = AuthSent /\ c.acked = 2

\* A context that nothing has gone wrong with, between two events.
Usual(e, c) ==
    /\ c \in Key /\ Shaken(e, c)
    /\ c.cur = "NONE" /\ c.invalid = "NONE" /\ c.fired = FALSE

\* What a context waits for in the course of its life.
Negotiates(c) ==
    /\ c.state # "ACTIVE" /\ c.next = "NEGOTIATE" /\ c.due = HandshakeWindow /\ c.age = 0
Waits(e, c) ==
    /\ c.state = "ACTIVE"
    /\ \/ c.next = "BECOME_PRIMARY" /\ c.due = BecomePrimary /\ c.age <= BecomePrimary
       \/ /\ e = Client /\ c.kid # 0
          /\ c.green = TRUE /\ c.next = "BECOME_PRIMARY"
          /\ c.due = BecomePrimary + 1 /\ c.age \in {BecomePrimary, BecomePrimary + 1}
       \/ /\ e = Client /\ c.kid # 0 /\ DataLimited = TRUE
          /\ c.green = FALSE /\ c.next = "PRIMARY_PENDING"
          /\ c.due = BecomePrimary + 2 * HandshakeWindow /\ c.age = BecomePrimary
Uses(e, c) ==
    /\ c.state = "ACTIVE" /\ c.next = "RENEGOTIATE" /\ c.due = Renegotiate(e)
    /\ c.age \in BecomePrimary .. RenegotiateSec
Leaves(c) ==
    /\ c.state = "ACTIVE" /\ c.next = "EXPIRE" /\ c.due = Expire

\* The newer of two contexts and the older one.
Newest(p, c) == c.num = p.nKeys /\ p.upcoming = NextKeyId(c.kid)
Follows(p, new, old) ==
    /\ Newest(p, new) /\ old.num + 1 = new.num
    /\ new.kid = NextKeyId(old.kid) /\ old.age = new.age + RenegotiateSec

\* A peer has its first key, or (the server, until it is asked for another) only one;
\* or it renews its key; or it has done so and the old one retires.
Single(e, p) ==
    /\ p.sec = NoKey /\ Newest(p, p.pri)
    /\ \/ /\ p.nKeys = 1 /\ p.pri.kid = 0 /\ (Negotiates(p.pri) \/ Waits(e, p.pri))
       \/ /\ (p.nKeys = 1 \/ (e = Server /\ p.pri.age = RenegotiateSec))
          /\ Uses(e, p.pri)
Renewal(e, p) ==
    /\ Usual(e, p.sec) /\ Follows(p, p.sec, p.pri)
    /\ \/ Negotiates(p.sec) /\ (Leaves(p.pri) \/ (e = Server /\ Uses(e, p.pri)))
       \/ Waits(e, p.sec) /\ Leaves(p.pri)
Renewed(e, p) ==
    /\ Usual(e, p.sec) /\ Follows(p, p.pri, p.sec)
    /\ Uses(e, p.pri) /\ Leaves(p.sec)
Course(e, p) ==
    /\ p \in Contexts /\ Usual(e, p.pri)
    /\ (Single(e, p) \/ Renewal(e, p) \/ Renewed(e, p))

\* The two ends of a key: each has received what the other has sent, as far as the
\* other knows at most.
Pair(c, s) ==
    /\ c.kid = s.kid /\ c.age = s.age
    /\ c.acked <= s.got /\ s.acked <= c.got
    /\ c.got <= Len(s.out) /\ s.got <= Len(c.out)

\* The client's contexts p and the server's q belong together; only the reset with which
\* the client asks for another key may still be on its way.
Ahead(p, q) ==
    /\ p.nKeys = q.nKeys + 1
    /\ p.sec.num = p.nKeys /\ p.sec.state = "WAIT_RESET" /\ p.sec.acked = 0
    /\ p.sec.kid = q.upcoming
Together(p, q) ==
    /\ \A c \in {p.pri, p.sec}, s \in {q.pri, q.sec} :
         (Defined(c) /\ Defined(s) /\ c.num = s.num => Pair(c, s))
    /\ (p.nKeys = q.nKeys \/ Ahead(p, q))

\* As long as neither the network has failed nor a limit been exceeded.
Undisturbed == outages = 0 /\ limits = 0
InStep ==
    Undisturbed =>
      /\ up = TRUE
      /\ \A e \in Peer : Course(e, peer[e]) /\ peer[e] \in Calm
      /\ Together(peer[Client], peer[Server])

\* The messages of a handshake as sequences.
LEMMA Letters ==
    /\ Len(NoneSent) = 0 /\ Len(ResetSent) = 1 /\ Len(AuthSent) = 2
    /\ Append(NoneSent, "RESET") = ResetSent /\ Append(ResetSent, "AUTH") = AuthSent
    /\ ResetSent[1] = "RESET" /\ AuthSent[1] = "RESET" /\ AuthSent[2] = "AUTH"
    /\ ResetSent # <<>> /\ AuthSent # <<>> /\ NoneSent = <<>>
<1>1. /\ Len(NoneSent) = 0 /\ Len(ResetSent) = 1 /\ Len(AuthSent) = 2
      /\ ResetSent[1] = "RESET" /\ AuthSent[1] = "RESET" /\ AuthSent[2] = "AUTH"
      /\ NoneSent = <<>>
  BY DEF NoneSent, ResetSent, AuthSent
<1>2. Append(NoneSent, "RESET") = ResetSent
  BY DEF NoneSent, ResetSent
<1>3. Append(ResetSent, "AUTH") = AuthSent
  <2> DEFINE s == Append(ResetSent, "AUTH")
  <2>1. ResetSent \in Seq({"RESET", "AUTH"}) /\ AuthSent \in Seq({"RESET", "AUTH"})
    BY DEF ResetSent, AuthSent
  <2>2. s \in Seq({"RESET", "AUTH"}) /\ Len(s) = 2 /\ s[1] = "RESET" /\ s[2] = "AUTH"
    <3>1. "AUTH" \in {"RESET", "AUTH"} /\ 1 \in 1 .. Len(ResetSent)
      BY <1>1
    <3>2. s \in Seq({"RESET", "AUTH"}) /\ Len(s) = Len(ResetSent) + 1
      BY <2>1, <3>1, AppendProperties
    <3>3. s[Len(ResetSent) + 1] = "AUTH"
      BY <2>1, <3>1, AppendProperties
    <3>4. s[1] = ResetSent[1]
      BY <2>1, <3>1, AppendProperties
    <3> QED BY <1>1, <3>2, <3>3, <3>4
  <2> HIDE DEF s
  <2>3. \A i \in 1 .. Len(s) : s[i] = AuthSent[i]
    BY <1>1, <2>2
  <2> QED BY <1>1, <2>1, <2>2, <2>3, SeqEqual DEF s
<1>4. ResetSent # <<>> /\ AuthSent # <<>>
  BY <1>1
<1> QED BY <1>1, <1>2, <1>3, <1>4

\* What the order of the durations gives.
LEMMA Durations ==
    /\ BecomePrimary + 1 < RenegotiateSec /\ KeyIdMask > 2
    /\ \A e : Renegotiate(e) \in Nat /\ Renegotiate(e) >= RenegotiateSec
    /\ Renegotiate(Client) = RenegotiateSec /\ Renegotiate(Server) > RenegotiateSec
    /\ Expire \in Nat /\ Expire = 2 * RenegotiateSec
  BY DurationAssumption, PeerAssumption, Constants DEF Renegotiate, Expire

\* Neither the next key ID nor the one after it is the key ID itself.
LEMMA NextKeyIdFacts ==
    ASSUME NEW kid \in 0 .. KeyIdMask
    PROVE  /\ NextKeyId(kid) \in 1 .. KeyIdMask
           /\ NextKeyId(kid) # kid /\ NextKeyId(NextKeyId(kid)) # kid
  BY Constants, Durations DEF NextKeyId

\* What does not change of a context but by a message or an acknowledgement.
Same(c, d) ==
    /\ d.num = c.num /\ d.kid = c.kid /\ d.age = c.age
    /\ d.acked = c.acked /\ d.got = c.got /\ Len(c.out) <= Len(d.out)

\* The fields of a context that nothing has gone wrong with.
LEMMA UsualIs ==
    ASSUME NEW e, NEW c, Usual(e, c)
    PROVE  /\ c \in Key /\ Defined(c) /\ c # NoKey /\ c.num \in Nat /\ c.num # 0
           /\ c.kid \in 0 .. KeyIdMask /\ c.age \in Nat /\ c.due \in Nat
           /\ c.acked \in Nat /\ c.got \in Nat /\ Len(c.out) \in Nat
           /\ c.acked <= Len(c.out) /\ Len(c.out) <= 2
           /\ c.cur = "NONE" /\ c.invalid = "NONE" /\ c.fired = FALSE
           /\ c.state = "ACTIVE" => c.with = c.num /\ c.acked = 2 /\ c.got = 2 /\ c.out = AuthSent
<1>1. c \in Key /\ Shaken(e, c) /\ c.cur = "NONE" /\ c.invalid = "NONE" /\ c.fired = FALSE
  BY DEF Usual
<1>2. c.out \in {NoneSent, ResetSent, AuthSent}
  BY <1>1 DEF Shaken
<1>3. Len(c.out) \in Nat /\ Len(c.out) <= 2
  BY <1>2, Letters
<1>4. c.acked <= Len(c.out)
  BY <1>1, KeyIs DEF WellFormed
<1>5. c.state = "ACTIVE" => c.with = c.num /\ c.acked = 2 /\ c.got = 2 /\ c.out = AuthSent
  BY <1>1 DEF Shaken
<1> QED BY <1>1, <1>3, <1>4, <1>5, KeyIs

\* Another event to wait for leaves a context as it was.
LEMMA Retimed ==
    ASSUME NEW e, NEW c, Usual(e, c), NEW next \in Event \ {"ACTIVE", "RENEGOTIATE_QUEUE", "NONE"},
           NEW due \in Nat, next = "BECOME_PRIMARY" => c.age <= due
    PROVE  LET d == SetEvent(c, "NONE", next, due)
           IN  /\ Usual(e, d) /\ Same(c, d) /\ d.next = next /\ d.due = due
               /\ d.state = c.state /\ d.green = c.green
<1> DEFINE d == SetEvent(c, "NONE", next, due)
<1>1. c \in Key /\ Shaken(e, c) /\ c.invalid = "NONE" /\ c.fired = FALSE
  BY DEF Usual
<1>2. "NONE" \in Event
  BY DEF Event
<1>3. d \in Key
  BY <1>1, <1>2, SetEventFacts
<1>4. /\ d.num = c.num /\ d.kid = c.kid /\ d.age = c.age /\ d.acked = c.acked /\ d.got = c.got
      /\ d.out = c.out /\ d.with = c.with /\ d.state = c.state /\ d.green = c.green
      /\ d.invalid = c.invalid /\ d.fired = c.fired
      /\ d.cur = "NONE" /\ d.next = next /\ d.due = due
  BY <1>1 DEF SetEvent, Key, KeyContext
<1> HIDE DEF d
<1>5. Shaken(e, d)
  BY <1>1, <1>4 DEF Shaken
<1>6. Len(c.out) <= Len(d.out)
  BY <1>4, UsualIs
<1>7. Usual(e, d) /\ Same(c, d)
  BY <1>1, <1>3, <1>4, <1>5, <1>6 DEF Usual, Same
<1> QED BY <1>4, <1>7 DEF d

\* The clearing of an event that was set along with the next.
LEMMA Cleared ==
    ASSUME NEW c \in Key, NEW cur, NEW next, NEW due
    PROVE  LET d == SetEvent(c, cur, next, due)
           IN  /\ d.cur = cur
               /\ [d EXCEPT !.cur = "NONE"] = SetEvent(c, "NONE", next, due)
  BY DEF SetEvent, Key, KeyContext

\* prepare_expire() makes an active context one that retires.
LEMMA Expires ==
    ASSUME NEW e, NEW c, Usual(e, c), c.state = "ACTIVE"
    PROVE  LET d == PrepareExpire(c, "NONE") IN Usual(e, d) /\ Leaves(d) /\ Same(c, d)
<1>1. PrepareExpire(c, "NONE") = SetEvent(c, "NONE", "EXPIRE", Expire)
  BY UsualIs DEF PrepareExpire
<1>2. "EXPIRE" \in Event \ {"ACTIVE", "RENEGOTIATE_QUEUE", "NONE"}
  BY DEF Event
<1>3. LET d == SetEvent(c, "NONE", "EXPIRE", Expire)
      IN  Usual(e, d) /\ Same(c, d) /\ d.next = "EXPIRE" /\ d.due = Expire /\ d.state = c.state
  <2>1. Expire \in Nat
    BY Durations
  <2> QED BY <1>2, <2>1, Retimed
<1> QED BY <1>1, <1>3 DEF Leaves

\* A context that has just gone active: what is left when that is dealt with.
Fresh(e, c) ==
    /\ c \in Key /\ c.cur = "ACTIVE"
    /\ LET k == [c EXCEPT !.cur = "NONE"]
       IN  Usual(e, k) /\ Same(c, k) /\ Waits(e, k) /\ k.age = 0

\* The fields of a context of the right type.
LEMMA KeyRecord ==
    ASSUME NEW c \in Key
    PROVE  c \in KeyContext /\ c.out \in Seq({"RESET", "AUTH"}) /\ Len(c.out) \in Nat
  BY DEF Key, KeyContext

\* post_ack_action() takes the handshake one step further, or does nothing.
LEMMA AckUsual ==
    ASSUME NEW e \in Peer, NEW c, Usual(e, c)
    PROVE  LET d == PostAck(e, c)
           IN  /\ c.state = "ACTIVE" => d = c
               /\ Negotiates(c) =>
                    /\ Same(c, d)
                    /\ \/ Usual(e, d) /\ Negotiates(d) /\ (c.state = "WAIT_RESET" => d = c)
                       \/ Fresh(e, d) /\ c.state # "WAIT_RESET"
<1> DEFINE d == PostAck(e, c)
           Goal == /\ Same(c, d)
                   /\ \/ Usual(e, d) /\ Negotiates(d) /\ (c.state = "WAIT_RESET" => d = c)
                      \/ Fresh(e, d) /\ c.state # "WAIT_RESET"
<1> SUFFICES (c.state = "ACTIVE" => d = c) /\ (Negotiates(c) => Goal)
  OBVIOUS
<1>1. /\ c \in Key /\ Shaken(e, c) /\ c.cur = "NONE" /\ c.invalid = "NONE" /\ c.fired = FALSE
      /\ c.acked \in Nat /\ Len(c.out) \in Nat /\ c.acked <= Len(c.out) /\ c.age \in Nat
      /\ Defined(c)
  BY UsualIs DEF Usual
<1>2. CASE c.acked < Len(c.out) \/ c.state \notin {"WAIT_RESET_ACK", "WAIT_AUTH_ACK"}
  <2>1. d = c
    BY <1>2 DEF PostAck
  <2> QED BY <1>1, <2>1 DEF Same
<1>3. CASE ~(c.acked < Len(c.out)) /\ c.state = "WAIT_RESET_ACK"
  <2> DEFINE out == IF e = Client THEN AuthSent ELSE ResetSent
  <2>1. c.got = 1 /\ c.with = 0 /\ c.out = ResetSent /\ c.acked = 1
    BY <1>1, <1>3, Letters DEF Shaken
  <2>2. d = [c EXCEPT !.state = "WAIT_AUTH", !.out = out]
    <3>1. d = [c EXCEPT !.state = "WAIT_AUTH",
                        !.out = IF e = Client THEN Append(@, "AUTH") ELSE @]
      BY <1>1, <1>3 DEF PostAck
    <3>2. c \in KeyContext
      BY <1>1, KeyRecord
    <3> QED BY <2>1, <3>1, <3>2, Letters DEF KeyContext
  <2>3. out \in {ResetSent, AuthSent} /\ Len(out) \in {1, 2}
    BY Letters
  <2> HIDE DEF out
  <2>4. /\ d.num = c.num /\ d.kid = c.kid /\ d.age = c.age /\ d.acked = 1 /\ d.got = 1
        /\ d.out = out /\ d.with = 0 /\ d.state = "WAIT_AUTH"
        /\ d.next = c.next /\ d.due = c.due /\ d.cur = "NONE" /\ d.invalid = "NONE"
        /\ d.fired = FALSE
    BY <1>1, <2>1, <2>2, KeyRecord DEF KeyContext
  <2>5. d \in Key
    BY <1>1, PostAckFacts
  <2> HIDE DEF d
  <2>6. Shaken(e, d)
    BY <2>4, Letters DEF Shaken, out
  <2>7. Same(c, d)
    BY <2>1, <2>3, <2>4, Letters DEF Same
  <2>8. Usual(e, d)
    BY <2>4, <2>5, <2>6 DEF Usual
  <2> QED BY <1>3, <2>4, <2>7, <2>8 DEF Negotiates
<1>4. CASE ~(c.acked < Len(c.out)) /\ c.state = "WAIT_AUTH_ACK"
  <2> DEFINE due == c.age + BecomePrimary
             a == SetEvent(c, "ACTIVE", "BECOME_PRIMARY", due)
             k == [d EXCEPT !.cur = "NONE"]
  <2>1. c.got = 2 /\ c.with = c.num /\ c.out = AuthSent /\ c.acked = 2
    BY <1>1, <1>4, Letters DEF Shaken
  <2>2. d = [a EXCEPT !.state = "ACTIVE"]
    BY <1>1, <1>4 DEF PostAck
  <2>3. c \in KeyContext /\ due \in Nat
    BY <1>1, KeyRecord, Constants
  <2>4. d = [c EXCEPT !.cur = "ACTIVE", !.next = "BECOME_PRIMARY", !.due = due, !.state = "ACTIVE"]
    BY <2>2, <2>3 DEF SetEvent, KeyContext
  <2> HIDE DEF a
  <2>5. d \in Key
    BY <1>1, PostAckFacts
  <2>6. /\ d.num = c.num /\ d.kid = c.kid /\ d.age = c.age /\ d.acked = 2 /\ d.got = 2
        /\ d.out = AuthSent /\ d.cur = "ACTIVE"
    BY <2>1, <2>3, <2>4 DEF KeyContext
  <2>7. /\ k.num = c.num /\ k.kid = c.kid /\ k.age = c.age /\ k.acked = 2 /\ k.got = 2
        /\ k.out = AuthSent /\ k.with = k.num /\ k.state = "ACTIVE"
        /\ k.next = "BECOME_PRIMARY" /\ k.due = due /\ k.cur = "NONE" /\ k.invalid = "NONE"
        /\ k.fired = FALSE
    BY <1>1, <2>1, <2>3, <2>4 DEF KeyContext
  <2>8. k \in Key
    BY <2>5, ResetEventFacts
  <2> HIDE DEF d, k
  <2>9. Usual(e, k)
    BY <2>7, <2>8 DEF Usual, Shaken
  <2>10. Same(c, d) /\ Same(d, k)
    BY <2>1, <2>6, <2>7, Letters DEF Same
  <2>11. Negotiates(c) => Waits(e, k) /\ k.age = 0
    BY <2>7, Constants DEF Negotiates, Waits, due
  <2>12. Negotiates(c) => Fresh(e, d)
    BY <2>5, <2>6, <2>9, <2>10, <2>11 DEF Fresh, k
  <2> QED BY <1>4, <2>10, <2>12
<1> QED BY <1>2, <1>3, <1>4

\* What is left of a context whose event is being taken.
Taken(c) == [c EXCEPT !.cur = "NONE"]

\* A handshake is still in time.
LEMMA NegotiatesOn ==
    ASSUME NEW e \in Peer, NEW c, Usual(e, c), Negotiates(c)
    PROVE  Fire(e, c) = c
  BY Constants DEF Negotiates, Fire, Due

\* What happens when a key becomes primary: nothing yet, or not before the server has
\* used it, or it is used.
LEMMA WaitsOn ==
    ASSUME NEW e \in Peer, NEW c, Usual(e, c), Waits(e, c)
    PROVE  LET f == Fire(e, c)
           IN  /\ f \in Key /\ Same(c, f)
               /\ \/ f.cur = "NONE" /\ Usual(e, f) /\ Waits(e, f) /\ ~Due(f)
                  \/ f.cur = "BECOME_PRIMARY" /\ Usual(e, Taken(f)) /\ Same(c, Taken(f))
                     /\ Uses(e, Taken(f)) /\ f.age <= BecomePrimary + 1
               /\ e = Server \/ c.kid = 0 \/ DataLimited = FALSE \/ c.green = TRUE
                  \/ f.cur = "NONE"
<1> DEFINE f == Fire(e, c)
<1>a. c \in Key /\ c.age \in Nat /\ c.due \in Nat /\ c.cur = "NONE" /\ Defined(c)
      /\ Len(c.out) \in Nat
  BY UsualIs
<1>1. c \in Key /\ c.age \in Nat /\ c.due \in Nat /\ c.cur = "NONE" /\ c.state = "ACTIVE"
      /\ Same(c, c) /\ Defined(c)
  BY <1>a DEF Waits, Same
<1>2. CASE ~Due(c)
  <2>1. f = c
    BY <1>2 DEF Fire
  <2> QED BY <1>1, <1>2, <2>1
<1>3. CASE Due(c)
  <2>1. c.next = "BECOME_PRIMARY" /\ c.age \in {BecomePrimary, BecomePrimary + 1}
    BY <1>1, <1>3, Constants DEF Waits, Due
  <2>2. CASE Defer(e, c)
    <3> DEFINE due == c.age + 2 * HandshakeWindow
    <3>1. f = SetEvent(c, "NONE", "PRIMARY_PENDING", due)
      BY <1>1, <1>3, <2>1, <2>2 DEF Fire
    <3>2. due \in Nat /\ due > c.age
      BY <1>1, Constants
    <3>3. "PRIMARY_PENDING" \in Event \ {"ACTIVE", "RENEGOTIATE_QUEUE", "NONE"}
      BY DEF Event
    <3>4. /\ Usual(e, f) /\ Same(c, f) /\ f.next = "PRIMARY_PENDING" /\ f.due = due
          /\ f.state = c.state /\ f.green = c.green
      BY <3>1, <3>2, <3>3, Retimed
    <3>5. c.green = FALSE /\ e = Client /\ DataLimited = TRUE /\ c.kid # 0
      <4>1. c.green \in BOOLEAN /\ DataLimited \in BOOLEAN
        BY <1>1, LimitAssumption DEF Key, KeyContext
      <4> QED BY <2>2, <4>1 DEF Defer
    <3>6. c.age = BecomePrimary
      BY <1>1, <1>3, <2>1, <3>5, Constants DEF Waits, Due
    <3>7. f.age = BecomePrimary /\ f.kid # 0
      BY <3>4, <3>5, <3>6 DEF Same
    <3>8. Waits(e, f)
      BY <1>1, <3>4, <3>5, <3>6, <3>7 DEF Waits
    <3> HIDE DEF f
    <3>9. ~Due(f)
      BY <1>1, <3>2, <3>4 DEF Due, Same
    <3>10. f \in Key /\ f.cur = "NONE"
      BY <3>4, UsualIs
    <3> QED BY <3>4, <3>8, <3>9, <3>10 DEF f
  <2>3. CASE ~Defer(e, c)
    <3> DEFINE k == SetEvent(c, "NONE", "RENEGOTIATE", Renegotiate(e))
    <3>1. f = SetEvent(c, "BECOME_PRIMARY", "RENEGOTIATE", Renegotiate(e))
      BY <1>1, <1>3, <2>1, <2>3 DEF Fire
    <3>2. /\ "BECOME_PRIMARY" \in Event
          /\ "RENEGOTIATE" \in Event \ {"ACTIVE", "RENEGOTIATE_QUEUE", "NONE"}
      BY DEF Event
    <3>3. Renegotiate(e) \in Nat
      BY Durations
    <3>4. f.cur = "BECOME_PRIMARY" /\ Taken(f) = k
      BY <1>1, <3>1, Cleared DEF Taken
    <3>5. f \in Key
      BY <1>1, FireFacts
    <3>6. /\ Usual(e, k) /\ Same(c, k) /\ k.next = "RENEGOTIATE" /\ k.due = Renegotiate(e)
          /\ k.state = c.state
      BY <3>2, <3>3, Retimed
    <3>7. Same(c, f) /\ f.age = c.age
      BY <1>1, <3>1, KeyRecord DEF Same, SetEvent, KeyContext
    <3>8. Uses(e, k)
      BY <1>1, <2>1, <3>6, Constants, Durations DEF Uses, Same
    <3>9. f.age <= BecomePrimary + 1
      BY <2>1, <3>7, Constants
    <3>10. e = Server \/ c.kid = 0 \/ DataLimited = FALSE \/ c.green = TRUE
      <4>1. c.green \in BOOLEAN /\ DataLimited \in BOOLEAN
        BY <1>1, LimitAssumption DEF Key, KeyContext
      <4> QED BY <2>3, <4>1 DEF Defer, Peer
    <3> QED BY <3>4, <3>5, <3>6, <3>7, <3>8, <3>9, <3>10
  <2> QED BY <2>2, <2>3
<1> QED BY <1>2, <1>3

\* A client's key has its successor requested in the end, a server's is never used for
\* as long as that.
LEMMA UsesOn ==
    ASSUME NEW e \in Peer, NEW c, Usual(e, c), Uses(e, c)
    PROVE  LET f == Fire(e, c)
           IN  /\ f \in Key
               /\ e = Server \/ c.age < RenegotiateSec => f = c
               /\ e = Client /\ c.age = RenegotiateSec =>
                    /\ f.cur = "RENEGOTIATE"
                    /\ Usual(e, Taken(f)) /\ Leaves(Taken(f)) /\ Same(c, Taken(f))
<1> DEFINE f == Fire(e, c)
<1>1. c \in Key /\ c.age \in Nat /\ c.age <= RenegotiateSec /\ c.due = Renegotiate(e)
      /\ c.cur = "NONE" /\ c.fired = FALSE /\ Defined(c) /\ c.next = "RENEGOTIATE"
      /\ c.state = "ACTIVE" /\ c.next \in Event
  <2>1. c \in Key /\ c.age \in Nat /\ c.cur = "NONE" /\ c.fired = FALSE /\ Defined(c)
    BY UsualIs
  <2>2. /\ c.state = "ACTIVE" /\ c.next = "RENEGOTIATE" /\ c.due = Renegotiate(e)
        /\ c.age <= RenegotiateSec
    BY Constants DEF Uses
  <2> QED BY <2>1, <2>2, KeyIs
<1>2. f \in Key
  BY <1>1, FireFacts
<1>3. ASSUME e = Server \/ c.age < RenegotiateSec
      PROVE  f = c
  <2>1. ~Due(c)
    BY <1>1, <1>3, Constants, Durations DEF Due
  <2> QED BY <2>1 DEF Fire
<1>4. ASSUME e = Client, c.age = RenegotiateSec
      PROVE  /\ f.cur = "RENEGOTIATE"
             /\ Usual(e, Taken(f)) /\ Leaves(Taken(f)) /\ Same(c, Taken(f))
  <2>1. Due(c)
    BY <1>1, <1>4, Constants, Durations DEF Due
  <2>2. f = SetEvent(c, "RENEGOTIATE", "EXPIRE", Expire)
    BY <1>1, <2>1 DEF Fire, PrepareExpire
  <2>3. "EXPIRE" \in Event \ {"ACTIVE", "RENEGOTIATE_QUEUE", "NONE"}
    BY DEF Event
  <2>4. Taken(f) = SetEvent(c, "NONE", "EXPIRE", Expire) /\ f.cur = "RENEGOTIATE"
    BY <1>1, <2>2, Cleared DEF Taken
  <2>5. Expire \in Nat
    BY Durations
  <2>6. LET k == SetEvent(c, "NONE", "EXPIRE", Expire)
        IN  Usual(e, k) /\ Same(c, k) /\ k.next = "EXPIRE" /\ k.due = Expire /\ k.state = c.state
    BY <2>3, <2>5, Retimed
  <2>7. LET k == Taken(f)
        IN  Usual(e, k) /\ Same(c, k) /\ k.next = "EXPIRE" /\ k.due = Expire /\ k.state = c.state
    BY <2>4, <2>6
  <2> QED BY <1>1, <2>4, <2>7 DEF Leaves
<1> QED BY <1>2, <1>3, <1>4

\* A context that retires waits for KEV_EXPIRE and for nothing else.
LEMMA LeavesOn ==
    ASSUME NEW e \in Peer, NEW c, Usual(e, c), Leaves(c)
    PROVE  LET f == Fire(e, c)
           IN  /\ f \in Key
               /\ c.age < Expire => f = c
               /\ f = c \/ f.cur = "EXPIRE"
<1>1. c \in Key /\ c.age \in Nat /\ c.due = Expire /\ c.next = "EXPIRE"
  BY UsualIs DEF Leaves
<1>2. Fire(e, c) \in Key
  BY <1>1, FireFacts
<1>3. c.age < Expire => Fire(e, c) = c
  BY <1>1, Durations DEF Due, Fire
<1>4. Fire(e, c) = c \/ Fire(e, c).cur = "EXPIRE"
  BY <1>1, FireFacts
<1> QED BY <1>2, <1>3, <1>4

-----------------------------------------------------------------------------
(* One round of flush() on contexts that keep to their course. *)

\* Contexts with another primary, or another secondary.
LEMMA PutPri ==
    ASSUME NEW p \in Contexts, NEW c \in Key
    PROVE  LET q == [p EXCEPT !.pri = c]
           IN  /\ q \in Contexts /\ q.pri = c /\ q.sec = p.sec
               /\ q.upcoming = p.upcoming /\ q.nKeys = p.nKeys
  BY DEF Contexts

LEMMA PutSec ==
    ASSUME NEW p \in Contexts, NEW c \in Key \cup {NoKey}
    PROVE  LET q == [p EXCEPT !.sec = c]
           IN  /\ q \in Contexts /\ q.pri = p.pri /\ q.sec = c
               /\ q.upcoming = p.upcoming /\ q.nKeys = p.nKeys
  BY DEF Contexts

\* The first key, or the next, has just gone active.
FreshFirst(e, p) ==
    /\ p \in Contexts /\ p.sec = NoKey
    /\ Fresh(e, p.pri) /\ Newest(p, p.pri) /\ p.nKeys = 1 /\ p.pri.kid = 0
FreshNext(e, p) ==
    /\ p \in Contexts /\ Usual(e, p.pri)
    /\ Fresh(e, p.sec) /\ Follows(p, p.sec, p.pri)
    /\ (Leaves(p.pri) \/ (e = Server /\ Uses(e, p.pri)))

\* No context is new, or the client has just begun to renew its key.
Kept(p, r) ==
    /\ r.nKeys = p.nKeys /\ r.upcoming = p.upcoming
    /\ \A d \in {r.pri, r.sec} :
         Defined(d) => \E c \in {p.pri, p.sec} : Defined(c) /\ Same(c, d)
    /\ Defined(p.sec) /\ p.sec.state = "WAIT_RESET" =>
         r.sec.state = "WAIT_RESET" /\ Same(p.sec, r.sec)
Renewing(e, p, r) ==
    /\ e = Client /\ Uses(e, p.pri) /\ Newest(p, p.pri)
    /\ r.nKeys = p.nKeys + 1 /\ Same(p.pri, r.pri)
    /\ r.sec.num = r.nKeys /\ r.sec.state = "WAIT_RESET" /\ r.sec.acked = 0
    /\ r.sec.kid = p.upcoming

\* A step that leaves a context or the contexts alone.
LEMMA SameSelf == \A c \in Key : Same(c, c)
  BY KeyRecord DEF Same

LEMMA KeptSelf == \A p \in Contexts : Kept(p, p)
<1> SUFFICES ASSUME NEW p \in Contexts PROVE Kept(p, p)
  OBVIOUS
<1>1. p.pri \in Key /\ (Defined(p.sec) => p.sec \in Key)
  BY ContextsAre
<1> QED BY <1>1, SameSelf DEF Kept

\* The contexts of a peer on its course.
LEMMA CourseIs ==
    ASSUME NEW e, NEW p, Course(e, p)
    PROVE  /\ p \in Contexts /\ Usual(e, p.pri) /\ Defined(p.pri)
           /\ p.sec = NoKey \/ Usual(e, p.sec)
           /\ Defined(p.sec) => Usual(e, p.sec)
           /\ p.pri.num \in Nat /\ p.sec.num \in Nat /\ p.nKeys \in Nat
<1>1. p \in Contexts /\ Usual(e, p.pri) /\ (p.sec = NoKey \/ Usual(e, p.sec))
  BY DEF Course, Single, Renewal, Renewed
<1>2. Defined(p.pri) /\ p.pri.num \in Nat /\ p.nKeys \in Nat
  BY <1>1, UsualIs, ContextsAre
<1>3. p.sec.num \in Nat /\ (Defined(p.sec) => Usual(e, p.sec))
  <2>1. NoKey.num \in Nat /\ ~Defined(NoKey)
    BY NoKeyRank DEF NoKey
  <2>2. CASE p.sec = NoKey
    BY <2>1, <2>2
  <2>3. CASE Usual(e, p.sec)
    BY <2>3, UsualIs
  <2> QED BY <1>1, <2>2, <2>3
<1> QED BY <1>1, <1>2, <1>3

\* post_ack_action() of both contexts.
LEMMA AckStage ==
    ASSUME NEW e \in Peer, NEW p, Course(e, p)
    PROVE  LET a == [p EXCEPT !.pri = PostAck(e, @), !.sec = PostAck(e, @)]
           IN  /\ Course(e, a) \/ FreshFirst(e, a) \/ FreshNext(e, a)
               /\ Kept(p, a)
<1> DEFINE c == PostAck(e, p.pri)
           d == PostAck(e, p.sec)
           a == [p EXCEPT !.pri = PostAck(e, @), !.sec = PostAck(e, @)]
           Goal == /\ Course(e, a) \/ FreshFirst(e, a) \/ FreshNext(e, a)
                   /\ Kept(p, a)
<1> SUFFICES Goal
  OBVIOUS
<1>1. p \in Contexts /\ Usual(e, p.pri) /\ (p.sec = NoKey \/ Usual(e, p.sec))
      /\ p.pri \in Key /\ Defined(p.pri)
  BY CourseIs, UsualIs
<1>2. a = [p EXCEPT !.pri = c, !.sec = d]
  BY <1>1 DEF Contexts
<1>3. c \in Key /\ d \in Key \cup {NoKey} /\ (p.sec = NoKey => d = NoKey)
  <2>1. \A k \in Key : PostAck(e, k) \in Key
    BY PostAckFacts
  <2>2. PostAck(e, NoKey) = NoKey
    BY NoKeyRank DEF PostAck
  <2> QED BY <1>1, <2>1, <2>2, UsualIs
<1>4. p.pri.state = "ACTIVE" => c = p.pri
  BY <1>1, AckUsual
<1>5. Usual(e, p.sec) /\ p.sec.state = "ACTIVE" => d = p.sec
  BY <1>1, AckUsual
<1>6. Negotiates(p.pri) => /\ Same(p.pri, c)
                           /\ \/ Usual(e, c) /\ Negotiates(c)
                              \/ Fresh(e, c)
  BY <1>1, AckUsual
<1>7. Usual(e, p.sec) /\ Negotiates(p.sec) =>
        /\ Same(p.sec, d)
        /\ \/ Usual(e, d) /\ Negotiates(d) /\ (p.sec.state = "WAIT_RESET" => d = p.sec)
           \/ Fresh(e, d) /\ p.sec.state # "WAIT_RESET"
  BY <1>1, AckUsual
<1> HIDE DEF a, c, d
<1>8. /\ a \in Contexts /\ a.pri = c /\ a.sec = d
      /\ a.upcoming = p.upcoming /\ a.nKeys = p.nKeys
  BY <1>1, <1>2, <1>3 DEF Contexts
<1>9. ASSUME c = p.pri, d = p.sec
      PROVE  Goal
  <2>1. a = p
    BY <1>1, <1>2, <1>9 DEF Contexts
  <2> QED BY <1>1, <2>1, KeptSelf
<1>10. CASE Single(e, p) /\ Negotiates(p.pri)
  <2>1. /\ p.sec = NoKey /\ d = NoKey /\ Newest(p, p.pri) /\ Same(p.pri, c)
        /\ p.nKeys = 1 /\ p.pri.kid = 0 /\ ~Defined(NoKey)
    BY <1>3, <1>6, <1>10, NoKeyRank DEF Single, Negotiates, Waits, Uses
  <2>2. Newest(a, c) /\ c.kid = 0
    BY <1>8, <2>1 DEF Newest, Same
  <2>3. Kept(p, a)
    BY <1>1, <1>8, <2>1 DEF Kept
  <2>4. CASE Usual(e, c) /\ Negotiates(c)
    <3>1. Single(e, a)
      BY <1>8, <2>1, <2>2, <2>4 DEF Single
    <3> QED BY <1>8, <2>3, <2>4, <3>1 DEF Course
  <2>5. CASE Fresh(e, c)
    BY <1>8, <2>1, <2>2, <2>3, <2>5 DEF FreshFirst
  <2> QED BY <1>6, <1>10, <2>4, <2>5
<1>11. CASE Single(e, p) /\ ~Negotiates(p.pri)
  <2>1. p.sec = NoKey /\ p.pri.state = "ACTIVE"
    BY <1>11 DEF Single, Waits, Uses
  <2> QED BY <1>3, <1>4, <1>9, <2>1
<1>12. CASE Renewal(e, p) /\ Negotiates(p.sec)
  <2>1. /\ Usual(e, p.sec) /\ Follows(p, p.sec, p.pri) /\ p.pri.state = "ACTIVE"
        /\ (Leaves(p.pri) \/ (e = Server /\ Uses(e, p.pri)))
    BY <1>12 DEF Renewal, Negotiates, Waits, Leaves, Uses
  <2>2. c = p.pri /\ Same(p.sec, d) /\ Same(c, c) /\ Defined(p.sec)
    BY <1>3, <1>4, <1>7, <1>12, <2>1, SameSelf, UsualIs
  <2>3. Follows(a, d, c)
    BY <1>8, <2>1, <2>2 DEF Follows, Newest, Same
  <2>4. Kept(p, a)
    BY <1>1, <1>7, <1>8, <1>12, <2>1, <2>2 DEF Kept, Fresh
  <2>5. CASE Usual(e, d) /\ Negotiates(d)
    <3>1. Renewal(e, a)
      BY <1>8, <2>1, <2>2, <2>3, <2>5 DEF Renewal
    <3> QED BY <1>1, <1>8, <2>2, <2>4, <3>1 DEF Course
  <2>6. CASE Fresh(e, d)
    BY <1>1, <1>8, <2>1, <2>2, <2>3, <2>4, <2>6 DEF FreshNext
  <2> QED BY <1>7, <1>12, <2>1, <2>5, <2>6
<1>13. CASE Renewal(e, p) /\ ~Negotiates(p.sec)
  <2>1. Usual(e, p.sec) /\ p.pri.state = "ACTIVE" /\ p.sec.state = "ACTIVE"
    BY <1>13 DEF Renewal, Waits, Leaves
  <2> QED BY <1>4, <1>5, <1>9, <2>1
<1>14. CASE Renewed(e, p)
  <2>1. Usual(e, p.sec) /\ p.pri.state = "ACTIVE" /\ p.sec.state = "ACTIVE"
    BY <1>14 DEF Renewed, Uses, Leaves
  <2> QED BY <1>4, <1>5, <1>9, <2>1
<1> QED BY <1>10, <1>11, <1>12, <1>13, <1>14 DEF Course

\* process_primary_event() for the events of the course.
LEMMA PrimaryEvent ==
    ASSUME NEW p \in Contexts, NEW f \in Key
    PROVE  LET b == ProcessPrimary([p EXCEPT !.pri = f])
               q == [p EXCEPT !.pri = Taken(f)]
           IN  /\ f.cur = "NONE" => b = [p EXCEPT !.pri = f]
               /\ f.cur = "ACTIVE" => b = [q EXCEPT !.actives = @ + 1]
               /\ f.cur = "RENEGOTIATE" => b = NewSecondary(q, TRUE)
               /\ f.cur \notin {"NONE", "ACTIVE", "RENEGOTIATE", "RENEGOTIATE_FORCE", "EXPIRE",
                                "NEGOTIATE"} => b = q
<1> DEFINE p1 == [p EXCEPT !.pri = f]
           b == ProcessPrimary(p1)
           k == Taken(f)
           q == [p EXCEPT !.pri = k]
           q1 == [p1 EXCEPT !.pri.cur = "NONE"]
           N(r) == [r EXCEPT !.pri = SetNextIfUnspecified(@)]
           ev == f.cur
<1>1. p1 \in Contexts /\ p1.pri = f
  BY PutPri
<1>2. k \in Key /\ q \in Contexts
  BY PutPri, ResetEventFacts DEF Taken
<1>3. q1 = q
  BY DEF Contexts, Taken
<1>a. ev = "NONE" => b = p1
  BY <1>1 DEF ProcessPrimary
<1>b. ev = "ACTIVE" => b = N([q1 EXCEPT !.actives = @ + 1])
  BY <1>1 DEF ProcessPrimary
<1>c. ev = "RENEGOTIATE" => b = N(NewSecondary(q1, TRUE))
  BY <1>1 DEF ProcessPrimary
<1>d. ev \notin {"NONE", "ACTIVE", "RENEGOTIATE", "RENEGOTIATE_FORCE", "EXPIRE", "NEGOTIATE"}
        => b = N(q1)
  BY <1>1 DEF ProcessPrimary
<1> HIDE DEF b, q1, q, k, p1
<1>4. \A r \in Contexts : N(r) = r
  BY ContextsAre, AlwaysSpecified
<1>5. [q EXCEPT !.actives = @ + 1] \in Contexts
  BY <1>2 DEF Contexts
<1>6. NewSecondary(q, TRUE) \in Contexts
  BY <1>2, NewSecondaryFacts
<1>7. /\ ev = "NONE" => b = p1
      /\ ev = "ACTIVE" => b = [q EXCEPT !.actives = @ + 1]
      /\ ev = "RENEGOTIATE" => b = NewSecondary(q, TRUE)
      /\ ev \notin {"NONE", "ACTIVE", "RENEGOTIATE", "RENEGOTIATE_FORCE", "EXPIRE", "NEGOTIATE"}
           => b = q
  BY <1>2, <1>3, <1>4, <1>5, <1>6, <1>a, <1>b, <1>c, <1>d
<1> QED BY <1>7 DEF b, q, k, p1

\* A new secondary: a reset to be sent, if this peer begins.
LEMMA NewSecondaryIs ==
    ASSUME NEW e \in Peer, NEW p \in Contexts
    PROVE  LET q == NewSecondary(p, e = Client)
               c == q.sec
           IN  /\ q \in Contexts /\ q.pri = p.pri
               /\ Usual(e, c) /\ Negotiates(c) /\ c.state = "WAIT_RESET" /\ c.acked = 0 /\ c.got = 0
               /\ c.out = (IF e = Client THEN ResetSent ELSE NoneSent)
               /\ c.num = p.nKeys + 1 /\ q.nKeys = p.nKeys + 1
               /\ c.kid = p.upcoming /\ q.upcoming = NextKeyId(c.kid)
<1> DEFINE q == NewSecondary(p, e = Client)
           c == NewContext(p.nKeys + 1, p.upcoming, e = Client)
           out == IF e = Client THEN ResetSent ELSE NoneSent
<1>1. q \in Contexts /\ q.pri = p.pri /\ q.sec \in Key
  BY NewSecondaryFacts
<1>2. q.sec = c /\ q.nKeys = p.nKeys + 1 /\ q.upcoming = NextKeyId(p.upcoming)
  BY DEF NewSecondary, Contexts
<1>3. /\ c.num = p.nKeys + 1 /\ c.kid = p.upcoming /\ c.state = "WAIT_RESET" /\ c.acked = 0
      /\ c.got = 0 /\ c.with = 0 /\ c.cur = "NONE" /\ c.next = "NEGOTIATE"
      /\ c.due = HandshakeWindow /\ c.age = 0 /\ c.invalid = "NONE" /\ c.fired = FALSE
      /\ c.out = out
  BY DEF NewContext, ResetSent, NoneSent
<1> HIDE DEF c
<1>4. Shaken(e, c)
  BY <1>3, Letters DEF Shaken
<1> HIDE DEF out, q
<1>5. Usual(e, c) /\ Negotiates(c)
  BY <1>1, <1>2, <1>3, <1>4 DEF Usual, Negotiates
<1> QED BY <1>1, <1>2, <1>3, <1>5 DEF q, out

\* Ages of a peer's two contexts.
LEMMA WaitsSoon ==
    ASSUME NEW e, NEW c, Usual(e, c), Waits(e, c) \/ Negotiates(c)
    PROVE  c.age <= BecomePrimary + 1 /\ c.age < RenegotiateSec
<1>1. c.age \in Nat
  BY UsualIs
<1>2. c.age <= BecomePrimary + 1
  BY <1>1, Constants DEF Waits, Negotiates
<1> QED BY <1>1, <1>2, Constants, Durations

\* Afterwards a client whose key has been in use for long enough has begun to renew it.
Settled(e, p) == e = Client /\ Uses(e, p.pri) => p.pri.age < RenegotiateSec

\* process_primary_event() of a peer on its course.
LEMMA PrimaryCourse ==
    ASSUME NEW e \in Peer, NEW p, Course(e, p) \/ FreshFirst(e, p) \/ FreshNext(e, p)
    PROVE  LET b == ProcessPrimary([p EXCEPT !.pri = Fire(e, @)])
           IN  /\ (Course(e, b) /\ Settled(e, b)) \/ FreshNext(e, b)
               /\ Kept(p, b) \/ Renewing(e, p, b)
<1> DEFINE f == Fire(e, p.pri)
           p1 == [p EXCEPT !.pri = f]
           b == ProcessPrimary(p1)
           q == [p EXCEPT !.pri = Taken(f)]
           Goal == /\ (Course(e, b) /\ Settled(e, b)) \/ FreshNext(e, b)
                   /\ Kept(p, b) \/ Renewing(e, p, b)
<1> SUFFICES Goal
  OBVIOUS
<1>1. p \in Contexts /\ p.pri \in Key /\ Defined(p.pri) /\ (Defined(p.sec) => p.sec \in Key)
  BY ContextsAre DEF Course, FreshFirst, FreshNext
<1>2. f \in Key /\ Taken(f) \in Key
  BY <1>1, FireFacts, ResetEventFacts DEF Taken
<1>3. /\ f.cur = "NONE" => b = p1
      /\ f.cur = "ACTIVE" => b = [q EXCEPT !.actives = @ + 1]
      /\ f.cur = "RENEGOTIATE" => b = NewSecondary(q, TRUE)
      /\ f.cur = "BECOME_PRIMARY" => b = q
  BY <1>1, <1>2, PrimaryEvent
<1>4. /\ q \in Contexts /\ q.pri = Taken(f) /\ q.sec = p.sec
      /\ q.upcoming = p.upcoming /\ q.nKeys = p.nKeys
  BY <1>1, <1>2, PutPri
<1>5. f = p.pri => p1 = p
  BY <1>1, ContextsAre
<1> HIDE DEF f, b, q, p1
<1>6. Kept(p, p)
  BY <1>1, KeptSelf
<1>7. ASSUME f = p.pri, p.pri.cur = "NONE", (Course(e, p) /\ Settled(e, p)) \/ FreshNext(e, p)
      PROVE  Goal
  BY <1>3, <1>5, <1>6, <1>7
<1>8. CASE FreshFirst(e, p)
  <2> DEFINE c == p.pri
             k == Taken(c)
  <2>1. /\ c.cur = "ACTIVE" /\ Usual(e, k) /\ Same(c, k) /\ Waits(e, k) /\ p.sec = NoKey
        /\ Newest(p, c) /\ p.nKeys = 1 /\ c.kid = 0
    BY <1>8 DEF FreshFirst, Fresh, Taken
  <2>2. f = c
    BY <2>1 DEF f, Fire
  <2>3. b = [q EXCEPT !.actives = @ + 1]
    BY <1>3, <2>1, <2>2
  <2>4. /\ b \in Contexts /\ b.pri = k /\ b.sec = NoKey
        /\ b.upcoming = p.upcoming /\ b.nKeys = p.nKeys
    BY <1>4, <2>1, <2>2, <2>3 DEF Contexts
  <2> HIDE DEF k, c
  <2>5. Newest(b, k) /\ k.kid = 0 /\ b.nKeys = 1
    BY <2>1, <2>4 DEF Newest, Same
  <2>6. Course(e, b)
    BY <2>1, <2>4, <2>5 DEF Course, Single
  <2>7. ~Defined(NoKey)
    BY NoKeyRank
  <2>8. Kept(p, b)
    BY <1>1, <2>1, <2>4, <2>7 DEF Kept, c
  <2>9. Settled(e, b)
    BY <2>1, <2>4 DEF Settled, Waits, Uses
  <2> QED BY <2>6, <2>8, <2>9
<1>9. CASE FreshNext(e, p)
  <2>1. Usual(e, p.pri) /\ p.pri.cur = "NONE"
    BY <1>9, UsualIs DEF FreshNext
  <2>2. CASE Leaves(p.pri)
    <3>1. p.sec.age = 0
      BY <1>9 DEF FreshNext, Fresh, Same
    <3>2. p.pri.age = RenegotiateSec
      BY <1>9, <3>1, Constants DEF FreshNext, Follows
    <3>3. f = p.pri
      BY <2>1, <2>2, <3>2, LeavesOn, Constants, Durations DEF f
    <3> QED BY <1>7, <1>9, <2>1, <3>3
  <2>3. CASE e = Server /\ Uses(e, p.pri)
    BY <1>7, <1>9, <2>1, <2>3, UsesOn DEF f
  <2> QED BY <1>9, <2>2, <2>3 DEF FreshNext
<1>10. CASE Course(e, p) /\ Negotiates(p.pri)
  <2>1. Usual(e, p.pri) /\ p.pri.cur = "NONE" /\ Settled(e, p)
    BY <1>10, CourseIs, UsualIs DEF Settled, Negotiates, Uses
  <2> QED BY <1>7, <1>10, <2>1, NegotiatesOn DEF f
<1>11. CASE Course(e, p) /\ Leaves(p.pri)
  <2>1. Renewal(e, p) /\ Usual(e, p.sec) /\ Usual(e, p.pri) /\ p.pri.cur = "NONE"
    BY <1>11, CourseIs, UsualIs
       DEF Course, Single, Renewed, Renewal, Leaves, Negotiates, Waits, Uses
  <2>2. p.sec.age < RenegotiateSec /\ p.sec.age \in Nat
    BY <2>1, WaitsSoon, UsualIs DEF Renewal
  <2>3. p.pri.age < Expire
    BY <2>1, <2>2, Constants, Durations DEF Renewal, Follows
  <2>4. f = p.pri
    BY <1>11, <2>1, <2>3, LeavesOn DEF f
  <2>5. Settled(e, p)
    BY <1>11 DEF Settled, Leaves, Uses
  <2> QED BY <1>7, <1>11, <2>1, <2>4, <2>5
<1>12. CASE Course(e, p) /\ Uses(e, p.pri) /\ (e = Server \/ p.pri.age < RenegotiateSec)
  <2>1. Usual(e, p.pri) /\ p.pri.cur = "NONE"
    BY <1>12, CourseIs, UsualIs
  <2>2. f = p.pri
    BY <1>12, <2>1, UsesOn DEF f
  <2>3. Settled(e, p)
    BY <1>12, PeerAssumption DEF Settled
  <2> QED BY <1>7, <1>12, <2>1, <2>2, <2>3
<1>13. CASE Course(e, p) /\ Uses(e, p.pri) /\ e = Client /\ ~(p.pri.age < RenegotiateSec)
  <2> DEFINE k == Taken(f)
  <2>1. Usual(e, p.pri) /\ p.pri.age = RenegotiateSec
    BY <1>13, CourseIs, Constants DEF Uses
  <2>2. f.cur = "RENEGOTIATE" /\ Usual(e, k) /\ Leaves(k) /\ Same(p.pri, k)
    BY <1>13, <2>1, UsesOn DEF f
  <2>3. Newest(p, p.pri)
    <3>1. ~Renewal(e, p)
      BY <1>13, PeerAssumption DEF Renewal, Leaves, Uses
    <3> QED BY <1>13, <3>1 DEF Course, Single, Renewed, Follows
  <2>4. b = NewSecondary(q, e = Client)
    <3>1. b = NewSecondary(q, TRUE) /\ (e = Client) = TRUE
      BY <1>3, <1>13, <2>2
    <3> QED BY <3>1
  <2>5. /\ b \in Contexts /\ b.pri = k /\ Usual(e, b.sec) /\ Negotiates(b.sec)
        /\ b.sec.state = "WAIT_RESET" /\ b.sec.acked = 0
        /\ b.sec.num = p.nKeys + 1 /\ b.nKeys = p.nKeys + 1
        /\ b.sec.kid = p.upcoming /\ b.upcoming = NextKeyId(b.sec.kid)
    BY <1>4, <2>4, NewSecondaryIs
  <2> HIDE DEF k
  <2>6. Follows(b, b.sec, k)
    <3>1. Newest(b, b.sec)
      BY <2>5 DEF Newest
    <3>2. k.num + 1 = b.sec.num /\ b.sec.kid = NextKeyId(k.kid)
      BY <2>2, <2>3, <2>5 DEF Newest, Same
    <3>3. k.age = b.sec.age + RenegotiateSec
      BY <2>1, <2>2, <2>5, Constants DEF Same, Negotiates
    <3> QED BY <3>1, <3>2, <3>3 DEF Follows
  <2>7. Course(e, b)
    BY <2>2, <2>5, <2>6 DEF Course, Renewal
  <2>8. Settled(e, b)
    BY <2>2, <2>5 DEF Settled, Leaves, Uses
  <2>9. Renewing(e, p, b)
    BY <1>13, <2>2, <2>3, <2>5 DEF Renewing
  <2> QED BY <2>7, <2>8, <2>9
<1>14. CASE Course(e, p) /\ Waits(e, p.pri)
  <2> DEFINE k == Taken(f)
  <2>1. Single(e, p) /\ p.nKeys = 1 /\ p.pri.kid = 0 /\ p.sec = NoKey /\ Newest(p, p.pri)
        /\ Usual(e, p.pri) /\ ~Defined(NoKey)
    BY <1>14, CourseIs, NoKeyRank DEF Course, Single, Renewed, Renewal, Leaves, Waits, Uses
  <2>2. /\ Same(p.pri, f)
        /\ \/ f.cur = "NONE" /\ Usual(e, f) /\ Waits(e, f)
           \/ f.cur = "BECOME_PRIMARY" /\ Usual(e, k) /\ Same(p.pri, k) /\ Uses(e, k)
              /\ f.age <= BecomePrimary + 1
    BY <1>14, <2>1, WaitsOn DEF f
  <2>3. CASE f.cur = "NONE"
    <3>1. b = p1
      BY <1>3, <2>3
    <3>2. /\ p1 \in Contexts /\ p1.pri = f /\ p1.sec = p.sec
          /\ p1.upcoming = p.upcoming /\ p1.nKeys = p.nKeys
      BY <1>1, <1>2, PutPri DEF p1
    <3>3. Newest(b, f) /\ f.kid = 0 /\ b.nKeys = 1
      BY <2>1, <2>2, <3>1, <3>2 DEF Newest, Same
    <3>4. Course(e, b)
      BY <2>1, <2>2, <2>3, <3>1, <3>2, <3>3 DEF Course, Single
    <3>5. Kept(p, b)
      BY <1>1, <2>1, <2>2, <3>1, <3>2 DEF Kept
    <3>6. Settled(e, b)
      BY <2>2, <2>3, <3>1, <3>2 DEF Settled, Waits, Uses
    <3> QED BY <3>4, <3>5, <3>6
  <2>4. CASE f.cur = "BECOME_PRIMARY"
    <3>1. b = q
      BY <1>3, <2>4
    <3> HIDE DEF k
    <3>2. Usual(e, k) /\ Same(p.pri, k) /\ Uses(e, k) /\ b.pri = k
      BY <1>4, <2>2, <2>4, <3>1 DEF k
    <3>3. Newest(b, k) /\ b.nKeys = 1
      BY <1>4, <2>1, <3>1, <3>2 DEF Newest, Same
    <3>4. Course(e, b)
      BY <1>4, <2>1, <3>1, <3>2, <3>3 DEF Course, Single
    <3>5. Kept(p, b)
      BY <1>1, <1>4, <2>1, <3>1, <3>2 DEF Kept
    <3>6. Settled(e, b)
      <4>1. p.pri.age <= BecomePrimary + 1 /\ p.pri.age < RenegotiateSec
        BY <1>14, <2>1, WaitsSoon
      <4> QED BY <3>2, <4>1 DEF Settled, Same
    <3> QED BY <3>4, <3>5, <3>6
  <2> QED BY <2>2, <2>3, <2>4
<1>15. Course(e, p) => Negotiates(p.pri) \/ Leaves(p.pri) \/ Uses(e, p.pri) \/ Waits(e, p.pri)
  BY DEF Course, Single, Renewal, Renewed
<1>16. e = Server \/ e = Client
  BY DEF Peer
<1> QED BY <1>8, <1>9, <1>10, <1>11, <1>12, <1>13, <1>14, <1>15, <1>16

\* The contexts c and d have taken the place of a peer's.
Puts(p, b, c, d) ==
    /\ b \in Contexts /\ b.pri = c /\ b.sec = d
    /\ b.upcoming = p.upcoming /\ b.nKeys = p.nKeys

\* process_secondary_event() for the events of the course.
LEMMA SecondaryEvent ==
    ASSUME NEW e \in Peer, NEW p \in Contexts, NEW f \in Key
    PROVE  LET b == ProcessSecondary(e, [p EXCEPT !.sec = f])
               old == PrepareExpire(p.pri, "NONE")
           IN  /\ f.cur = "NONE" => b = [p EXCEPT !.sec = f]
               /\ f.cur = "ACTIVE" => Puts(p, b, old, Taken(f))
               /\ f.cur = "BECOME_PRIMARY" /\ f.invalid = "NONE" => Puts(p, b, Taken(f), old)
               /\ f.cur = "EXPIRE" => Puts(p, b, p.pri, NoKey)
<1> DEFINE p1 == [p EXCEPT !.sec = f]
           b == ProcessSecondary(e, p1)
           k == Taken(f)
           q == [p EXCEPT !.sec = k]
           q1 == [p1 EXCEPT !.sec.cur = "NONE"]
           N(r) == IF Defined(r.sec) THEN [r EXCEPT !.sec = SetNextIfUnspecified(@)] ELSE r
           old == PrepareExpire(p.pri, "NONE")
           now == p1.sec.cur
           R == CASE now = "ACTIVE" -> [q1 EXCEPT !.pri = PrepareExpire(@, "NONE")]
                  [] now = "BECOME_PRIMARY" -> IF q1.sec.invalid = "NONE" THEN Promote(q1) ELSE q1
                  [] now = "EXPIRE" -> [q1 EXCEPT !.sec = NoKey]
                  [] now = "RENEGOTIATE_QUEUE" -> QueueRenegotiation(e, q1)
                  [] now \in Retry -> NewSecondary(q1, TRUE)
                  [] OTHER -> q1
<1>1. p1 \in Contexts /\ p1.sec = f /\ Defined(f)
  BY PutSec, KeyIs
<1>2. k \in Key /\ k.invalid = f.invalid
  BY ResetEventFacts DEF Taken
<1>3. /\ q \in Contexts /\ q.pri = p.pri /\ q.sec = k
      /\ q.upcoming = p.upcoming /\ q.nKeys = p.nKeys
  BY <1>2, PutSec
<1>4. q1 = q
  BY DEF Contexts, Taken
<1>a. now = "NONE" => b = p1
  BY <1>1 DEF ProcessSecondary
<1>b. now # "NONE" => b = N(R)
  BY <1>1 DEF ProcessSecondary
<1>5. now = f.cur
  BY <1>1
<1> HIDE DEF b, q1, q, k, p1, N, now
<1>6. f.cur = "ACTIVE" => b = N([q EXCEPT !.pri = old])
  BY <1>3, <1>4, <1>5, <1>b DEF Retry
<1>7. f.cur = "BECOME_PRIMARY" /\ f.invalid = "NONE" => b = N(Promote(q))
  BY <1>2, <1>3, <1>4, <1>5, <1>b DEF Retry
<1>8. f.cur = "EXPIRE" => b = N([q EXCEPT !.sec = NoKey])
  BY <1>4, <1>5, <1>b DEF Retry
<1>9. \A r \in Contexts : N(r) = r
  BY ContextsAre, AlwaysSpecified DEF N
<1>10. p.pri \in Key
  BY ContextsAre
<1>11. old \in Key
  BY <1>10, PrepareExpireFacts DEF Event
<1>12. Promote(q) = [q EXCEPT !.pri = k, !.sec = old]
  BY <1>3 DEF Promote
<1> HIDE DEF old
<1>13. Puts(p, [q EXCEPT !.pri = old], old, k)
  BY <1>2, <1>3, <1>11 DEF Contexts, Puts
<1>14. Puts(p, [q EXCEPT !.pri = k, !.sec = old], k, old)
  BY <1>2, <1>3, <1>11 DEF Contexts, Puts
<1>15. Puts(p, [q EXCEPT !.sec = NoKey], p.pri, NoKey)
  BY <1>3, <1>10 DEF Contexts, Puts
<1>16. \A r, c, d : Puts(p, r, c, d) => N(r) = r
  BY <1>9 DEF Puts
<1>17. /\ f.cur = "NONE" => b = p1
       /\ f.cur = "ACTIVE" => Puts(p, b, old, k)
       /\ f.cur = "BECOME_PRIMARY" /\ f.invalid = "NONE" => Puts(p, b, k, old)
       /\ f.cur = "EXPIRE" => Puts(p, b, p.pri, NoKey)
  BY <1>5, <1>6, <1>7, <1>8, <1>12, <1>13, <1>14, <1>15, <1>16, <1>a
<1> QED BY <1>17 DEF b, k, p1, old

\* process_secondary_event() of a peer on its course.
LEMMA SecondaryCourse ==
    ASSUME NEW e \in Peer, NEW p, (Course(e, p) /\ Settled(e, p)) \/ FreshNext(e, p)
    PROVE  LET b == ProcessSecondary(e, [p EXCEPT !.sec = Fire(e, @)])
           IN  Course(e, b) /\ Kept(p, b)
<1> DEFINE f == Fire(e, p.sec)
           p1 == [p EXCEPT !.sec = f]
           b == ProcessSecondary(e, p1)
           k == Taken(f)
           old == PrepareExpire(p.pri, "NONE")
           Goal == Course(e, b) /\ Kept(p, b)
<1> SUFFICES Goal
  OBVIOUS
<1>1. p \in Contexts /\ p.pri \in Key /\ Defined(p.pri) /\ (Defined(p.sec) => p.sec \in Key)
      /\ Usual(e, p.pri)
  BY ContextsAre DEF Course, FreshNext
<1>2. Kept(p, p)
  BY <1>1, KeptSelf
<1>3. CASE p.sec = NoKey
  <2>1. f = NoKey
    BY <1>3, NoKeyRank
  <2>2. p1 = p
    BY <1>1, <1>3, <2>1, ContextsAre
  <2>3. b = p
    BY <1>3, <2>2, NoKeyRank DEF ProcessSecondary
  <2>4. ~FreshNext(e, p)
    BY <1>3, UsualIs, NoKeyRank, KeyIs DEF FreshNext, Fresh
  <2> QED BY <1>2, <2>3, <2>4
<1>4. CASE p.sec # NoKey
  <2>1. p.sec \in Key /\ Defined(p.sec)
    BY <1>1, <1>4, ContextsAre
  <2>2. f \in Key /\ k \in Key
    BY <2>1, FireFacts, ResetEventFacts DEF Taken
  <2>4. /\ f.cur = "NONE" => b = p1
        /\ f.cur = "ACTIVE" => Puts(p, b, old, k)
        /\ f.cur = "BECOME_PRIMARY" /\ f.invalid = "NONE" => Puts(p, b, k, old)
        /\ f.cur = "EXPIRE" => Puts(p, b, p.pri, NoKey)
    <3>1. p \in Contexts /\ f \in Key
      BY <1>1, <2>2
    <3> HIDE DEF f
    <3> QED BY <3>1, SecondaryEvent
  <2>5. f = p.sec => p1 = p
    BY <1>1, ContextsAre
  <2>6. /\ p1 \in Contexts /\ p1.pri = p.pri /\ p1.sec = f
        /\ p1.upcoming = p.upcoming /\ p1.nKeys = p.nKeys
    BY <1>1, <2>2, PutSec
  <2>7. p.pri.state = "ACTIVE" => /\ old \in Key /\ Usual(e, old) /\ Leaves(old) /\ Same(p.pri, old)
    BY <1>1, Expires, UsualIs
  <2> HIDE DEF f, b, k, p1, old
  <2>8. ASSUME f = p.sec, p.sec.cur = "NONE", Course(e, p)
        PROVE  Goal
    BY <1>2, <2>4, <2>5, <2>8
  <2>9. CASE FreshNext(e, p)
    <3>1. /\ p.sec.cur = "ACTIVE" /\ Follows(p, p.sec, p.pri) /\ p.pri.state = "ACTIVE"
          /\ Usual(e, Taken(p.sec)) /\ Same(p.sec, Taken(p.sec)) /\ Waits(e, Taken(p.sec))
      BY <2>9 DEF FreshNext, Fresh, Taken, Leaves, Uses
    <3>2. f = p.sec
      BY <3>1 DEF f, Fire
    <3>4. /\ b \in Contexts /\ b.pri = old /\ b.sec = k
          /\ b.upcoming = p.upcoming /\ b.nKeys = p.nKeys
      BY <2>4, <3>1, <3>2 DEF Puts
    <3>5. Usual(e, k) /\ Same(p.sec, k) /\ Waits(e, k)
      BY <3>1, <3>2 DEF k
    <3>6. Follows(b, k, old)
      BY <2>7, <3>1, <3>4, <3>5 DEF Follows, Newest, Same
    <3>7. Course(e, b)
      BY <2>7, <3>1, <3>4, <3>5, <3>6 DEF Course, Renewal
    <3>8. p.sec.state # "WAIT_RESET"
      BY <3>1, <2>1, KeyRecord DEF Taken, Waits, KeyContext
    <3>9. Kept(p, b)
      BY <1>1, <2>1, <2>7, <3>1, <3>4, <3>5, <3>8 DEF Kept
    <3> QED BY <3>7, <3>9
  <2>10. CASE Course(e, p) /\ Settled(e, p) /\ Renewal(e, p) /\ Negotiates(p.sec)
    <3>1. Usual(e, p.sec) /\ p.sec.cur = "NONE"
      BY <2>10, UsualIs DEF Renewal
    <3> QED BY <2>8, <2>10, <3>1, NegotiatesOn DEF f
  <2>11. CASE Course(e, p) /\ Settled(e, p) /\ Renewal(e, p) /\ Waits(e, p.sec)
    <3>1. /\ Usual(e, p.sec) /\ Follows(p, p.sec, p.pri) /\ Leaves(p.pri)
          /\ p.pri.state = "ACTIVE" /\ p.sec.state = "ACTIVE"
      BY <2>11 DEF Renewal, Waits, Leaves, Negotiates
    <3>2. /\ Same(p.sec, f)
          /\ \/ f.cur = "NONE" /\ Usual(e, f) /\ Waits(e, f)
             \/ f.cur = "BECOME_PRIMARY" /\ Usual(e, k) /\ Same(p.sec, k) /\ Uses(e, k)
      BY <2>11, <3>1, WaitsOn DEF f, k
    <3>3. Same(p.pri, p.pri)
      BY <1>1, SameSelf
    <3>4. CASE f.cur = "NONE"
      <4>1. b = p1 /\ b.pri = p.pri /\ b.sec = f
        BY <2>4, <2>6, <3>4
      <4>2. Follows(b, f, p.pri)
        BY <2>6, <3>1, <3>2, <4>1 DEF Follows, Newest, Same
      <4>3. Course(e, b)
        BY <1>1, <2>6, <3>1, <3>2, <3>4, <4>1, <4>2 DEF Course, Renewal
      <4>4. Kept(p, b)
        BY <1>1, <2>1, <2>6, <3>1, <3>2, <3>3, <4>1 DEF Kept
      <4> QED BY <4>3, <4>4
    <3>5. CASE f.cur = "BECOME_PRIMARY"
      <4>1. f.invalid = "NONE"
        <5>1. f.invalid = Taken(f).invalid
          BY <2>2, ResetEventFacts DEF Taken
        <5> QED BY <3>2, <3>5, <5>1, UsualIs DEF k
      <4>3. /\ b \in Contexts /\ b.pri = k /\ b.sec = old
            /\ b.upcoming = p.upcoming /\ b.nKeys = p.nKeys
        BY <2>4, <3>5, <4>1 DEF Puts
      <4>4. Follows(b, k, old)
        BY <2>7, <3>1, <3>2, <3>5, <4>3 DEF Follows, Newest, Same
      <4>5. Course(e, b)
        BY <2>7, <3>1, <3>2, <3>5, <4>3, <4>4 DEF Course, Renewed
      <4>6. Kept(p, b)
        BY <1>1, <2>1, <2>7, <3>1, <3>2, <3>5, <4>3 DEF Kept
      <4> QED BY <4>5, <4>6
    <3> QED BY <3>2, <3>4, <3>5
  <2>12. CASE Course(e, p) /\ Settled(e, p) /\ Renewed(e, p)
    <3>1. /\ Usual(e, p.sec) /\ Follows(p, p.pri, p.sec) /\ Leaves(p.sec) /\ Uses(e, p.pri)
          /\ p.sec.cur = "NONE" /\ p.sec.state = "ACTIVE"
      BY <2>12, UsualIs DEF Renewed, Leaves
    <3>2. CASE f = p.sec
      BY <2>8, <2>12, <3>1, <3>2
    <3>3. CASE f # p.sec
      <4>1. f.cur = "EXPIRE" /\ ~(p.sec.age < Expire)
        BY <3>1, <3>3, LeavesOn DEF f
      <4>2. ~(p.pri.age < RenegotiateSec) /\ p.pri.age = RenegotiateSec
        <5>1. p.pri.age \in Nat /\ p.pri.age <= RenegotiateSec
          BY <1>1, <3>1, UsualIs, Constants DEF Uses
        <5>2. p.sec.age = p.pri.age + RenegotiateSec
          BY <3>1 DEF Follows
        <5> QED BY <4>1, <5>1, <5>2, Constants, Durations
      <4>3. e = Server
        BY <2>12, <3>1, <4>2 DEF Settled, Peer
      <4>5. /\ b \in Contexts /\ b.pri = p.pri /\ b.sec = NoKey
            /\ b.upcoming = p.upcoming /\ b.nKeys = p.nKeys
        BY <2>4, <4>1 DEF Puts
      <4>6. Single(e, b)
        BY <3>1, <4>2, <4>3, <4>5 DEF Single, Follows, Newest
      <4>7. Course(e, b)
        BY <1>1, <4>5, <4>6 DEF Course
      <4>8. Kept(p, b)
        BY <1>1, <3>1, <4>5, NoKeyRank, SameSelf DEF Kept
      <4> QED BY <4>7, <4>8
    <3> QED BY <3>2, <3>3
  <2>13. Course(e, p) => Renewal(e, p) \/ Renewed(e, p)
    BY <1>4 DEF Course, Single
  <2>14. Renewal(e, p) => Negotiates(p.sec) \/ Waits(e, p.sec)
    BY DEF Renewal
  <2> QED BY <2>9, <2>10, <2>11, <2>12, <2>13, <2>14
<1> QED BY <1>3, <1>4

\* What each round keeps flush() keeps.
LEMMA FlushKeeps ==
    ASSUME NEW e \in Peer, NEW S, S \subseteq Contexts, NEW p \in S,
           \A q \in S : Round(e, q) \in S
    PROVE  Flush(e, p) \in S /\ Flush(e, p) \in Calm
<1>1. PICK rounds :
        /\ Flush(e, p) = rounds[MaxRounds]
        /\ \A n \in 0 .. MaxRounds : rounds[n] = IF n = 0 THEN p ELSE Round(e, rounds[n - 1])
  BY FlushRounds
<1>2. MaxRounds \in Nat /\ MaxRounds # 0
  BY DEF MaxRounds
<1> DEFINE Good == {n \in 0 .. MaxRounds : rounds[n] \in S /\ (n # 0 => rounds[n] \in Calm)}
<1>3. 0 \in Good
  BY <1>1, <1>2
<1>4. ASSUME NEW n \in 1 .. MaxRounds, n - 1 \in Good
      PROVE  n \in Good
  <2>1. rounds[n - 1] \in S
    BY <1>4
  <2>2. n \in 0 .. MaxRounds /\ n # 0
    BY <1>2
  <2>3. rounds[n] = Round(e, rounds[n - 1])
    BY <1>1, <2>2
  <2>4. rounds[n] \in S /\ rounds[n] \in Calm
    BY <2>1, <2>3, RoundFacts
  <2> QED BY <2>2, <2>4
<1>5. MaxRounds \in Good
  <2>1. Good \in SUBSET (0 .. MaxRounds)
    OBVIOUS
  <2> HIDE DEF Good
  <2>2. Good = 0 .. MaxRounds
    BY <1>2, <1>3, <1>4, <2>1, UpTo
  <2> QED BY <1>2, <2>2
<1> QED BY <1>1, <1>2, <1>5

-----------------------------------------------------------------------------
(* The contexts of the two peers. *)

\* The newest context of a peer on its course, and the one it follows if there is one.
LEMMA Numbers ==
    ASSUME NEW e, NEW p, Course(e, p)
    PROVE  \E new \in {p.pri, p.sec} :
             /\ Usual(e, new) /\ Newest(p, new) /\ new.num = p.nKeys
             /\ \A c \in {p.pri, p.sec} : Defined(c) => c = new \/ Follows(p, new, c)
<1>1. Usual(e, p.pri) /\ (Defined(p.sec) => Usual(e, p.sec)) /\ ~Defined(NoKey)
  BY CourseIs, NoKeyRank
<1>2. CASE Single(e, p)
  BY <1>1, <1>2 DEF Single, Newest
<1>3. CASE Renewal(e, p)
  BY <1>1, <1>3 DEF Renewal, Follows, Newest
<1>4. CASE Renewed(e, p)
  BY <1>1, <1>4 DEF Renewed, Follows, Newest
<1> QED BY <1>2, <1>3, <1>4 DEF Course

\* No context is newer than nKeys, and the two are different.
LEMMA NumbersAre ==
    ASSUME NEW e, NEW p, Course(e, p)
    PROVE  /\ p.pri.num <= p.nKeys /\ p.sec.num <= p.nKeys
           /\ p.pri.num # p.sec.num /\ p.nKeys \in Nat /\ p.nKeys > 0
<1>1. p.pri.num \in Nat /\ p.sec.num \in Nat /\ p.nKeys \in Nat /\ p.pri.num # 0
      /\ (p.sec = NoKey \/ p.sec.num # 0)
  BY CourseIs, UsualIs
<1>2. NoKey.num = 0
  BY DEF NoKey
<1>3. CASE Single(e, p)
  BY <1>1, <1>2, <1>3 DEF Single, Newest
<1>4. CASE Renewal(e, p)
  BY <1>1, <1>4 DEF Renewal, Follows, Newest
<1>5. CASE Renewed(e, p)
  BY <1>1, <1>5 DEF Renewed, Follows, Newest
<1> QED BY <1>3, <1>4, <1>5 DEF Course

\* Together, as seen from the peer that takes a step.
Linked(e, p, other) == IF e = Client THEN Together(p, other) ELSE Together(other, p)

\* The ends of a key stay together while one of them does not change but in what it
\* has sent.
LEMMA PairKept ==
    ASSUME NEW c \in Key, NEW d \in Key, NEW s \in Key, Same(c, d)
    PROVE  (Pair(c, s) => Pair(d, s)) /\ (Pair(s, c) => Pair(s, d))
<1>1. /\ Len(c.out) \in Nat /\ Len(d.out) \in Nat /\ Len(s.out) \in Nat
      /\ c.acked \in Nat /\ d.acked \in Nat /\ s.acked \in Nat
      /\ c.got \in Nat /\ d.got \in Nat /\ s.got \in Nat
  BY KeyIs, KeyRecord
<1> QED BY <1>1 DEF Pair, Same

\* A step that makes no new context leaves the peers together.
LEMMA LinkedKept ==
    ASSUME NEW e \in Peer, NEW p \in Contexts, NEW r \in Contexts, NEW o \in Contexts,
           Linked(e, p, o), Kept(p, r)
    PROVE  Linked(e, r, o)
<1>1. \A q \in Contexts : \A c \in {q.pri, q.sec} : Defined(c) => c \in Key
  BY ContextsAre
<1>2. ASSUME NEW d \in {r.pri, r.sec}, Defined(d)
      PROVE  \E c \in {p.pri, p.sec} : c \in Key /\ Defined(c) /\ d \in Key /\ Same(c, d)
  BY <1>1, <1>2 DEF Kept
<1>3. r.nKeys = p.nKeys /\ r.upcoming = p.upcoming
  BY DEF Kept
<1>4. CASE e = Client
  <2>1. Together(p, o)
    BY <1>4 DEF Linked
  <2>2. ASSUME NEW d \in {r.pri, r.sec}, NEW s \in {o.pri, o.sec},
               Defined(d), Defined(s), d.num = s.num
        PROVE  Pair(d, s)
    <3>1. PICK c \in {p.pri, p.sec} : c \in Key /\ Defined(c) /\ d \in Key /\ Same(c, d)
      BY <1>2, <2>2
    <3>2. c.num = s.num /\ s \in Key
      BY <1>1, <2>2, <3>1 DEF Same
    <3>3. Pair(c, s)
      BY <2>1, <2>2, <3>1, <3>2 DEF Together
    <3> QED BY <3>1, <3>2, <3>3, PairKept
  <2>3. r.nKeys = o.nKeys \/ Ahead(r, o)
    <3>1. CASE p.nKeys = o.nKeys
      BY <1>3, <3>1
    <3>2. CASE Ahead(p, o)
      <4>1. p.nKeys = o.nKeys + 1 /\ p.sec.num = p.nKeys /\ p.sec.state = "WAIT_RESET"
            /\ p.sec.acked = 0 /\ p.sec.kid = o.upcoming
        BY <3>2 DEF Ahead
      <4>2. Defined(p.sec)
        <5>1. o.nKeys \in Nat
          BY ContextsAre
        <5> QED BY <4>1, <5>1 DEF Defined
      <4>3. r.sec.state = "WAIT_RESET" /\ Same(p.sec, r.sec)
        BY <4>1, <4>2 DEF Kept
      <4> QED BY <1>3, <4>1, <4>3 DEF Ahead, Same
    <3> QED BY <2>1, <3>1, <3>2 DEF Together
  <2>4. Together(r, o)
    BY <2>2, <2>3 DEF Together
  <2> QED BY <1>4, <2>4 DEF Linked
<1>5. CASE e # Client
  <2>1. Together(o, p)
    BY <1>5 DEF Linked
  <2>2. ASSUME NEW d \in {r.pri, r.sec}, NEW s \in {o.pri, o.sec},
               Defined(d), Defined(s), s.num = d.num
        PROVE  Pair(s, d)
    <3>1. PICK c \in {p.pri, p.sec} : c \in Key /\ Defined(c) /\ d \in Key /\ Same(c, d)
      BY <1>2, <2>2
    <3>2. s.num = c.num /\ s \in Key
      BY <1>1, <2>2, <3>1 DEF Same
    <3>3. Pair(s, c)
      BY <2>1, <2>2, <3>1, <3>2 DEF Together
    <3> QED BY <3>1, <3>2, <3>3, PairKept
  <2>3. o.nKeys = r.nKeys \/ Ahead(o, r)
    BY <1>3, <2>1 DEF Together, Ahead
  <2>4. Together(o, r)
    BY <2>2, <2>3 DEF Together
  <2> QED BY <1>5, <2>4 DEF Linked
<1> QED BY <1>4, <1>5

\* The client's request for another key is one step ahead of the server.
LEMMA LinkedRenewing ==
    ASSUME NEW p, Course(Client, p), NEW r \in Contexts, NEW o, Course(Server, o),
           Linked(Client, p, o), Renewing(Client, p, r)
    PROVE  Linked(Client, r, o)
<1>1. Together(p, o) /\ p \in Contexts /\ o \in Contexts /\ Defined(p.pri)
  BY CourseIs DEF Linked
<1>2. \A q \in Contexts : \A c \in {q.pri, q.sec} : Defined(c) => c \in Key
  BY ContextsAre
<1>3. /\ p.pri.num = p.nKeys /\ p.upcoming = NextKeyId(p.pri.kid)
      /\ r.nKeys = p.nKeys + 1 /\ Same(p.pri, r.pri)
      /\ r.sec.num = r.nKeys /\ r.sec.state = "WAIT_RESET" /\ r.sec.acked = 0
      /\ r.sec.kid = p.upcoming
  BY DEF Renewing, Newest
<1>4. p.nKeys = o.nKeys
  <2>1. p.sec.num # p.nKeys
    BY <1>3, NumbersAre
  <2> QED BY <1>1, <2>1 DEF Together, Ahead
<1>5. PICK new \in {o.pri, o.sec} : Usual(Server, new) /\ Newest(o, new) /\ new.num = o.nKeys
  BY Numbers
<1>6. new.kid = p.pri.kid
  <2>1. Defined(new)
    BY <1>5, UsualIs
  <2>2. Pair(p.pri, new)
    BY <1>1, <1>3, <1>4, <1>5, <2>1 DEF Together
  <2> QED BY <2>2 DEF Pair
<1>7. Ahead(r, o)
  BY <1>3, <1>4, <1>5, <1>6 DEF Ahead, Newest
<1>8. ASSUME NEW d \in {r.pri, r.sec}, NEW s \in {o.pri, o.sec},
             Defined(d), Defined(s), d.num = s.num
      PROVE  Pair(d, s)
  <2>1. s.num <= o.nKeys /\ s.num \in Nat /\ o.nKeys \in Nat
    BY NumbersAre, CourseIs
  <2>2. d = r.pri
    BY <1>3, <1>4, <1>8, <2>1
  <2>3. p.pri.num = s.num
    BY <1>3, <1>8, <2>2 DEF Same
  <2>4. Pair(p.pri, s)
    BY <1>1, <1>8, <2>3 DEF Together
  <2> QED BY <1>1, <1>2, <1>3, <1>8, <2>2, <2>4, PairKept
<1>9. Together(r, o)
  BY <1>7, <1>8 DEF Together
<1> QED BY <1>9 DEF Linked

\* A round of flush(), and flush(), keep a peer on its course and with the other.
LEMMA RoundCourse ==
    ASSUME NEW e \in Peer, NEW p, NEW o, Course(e, p), Course(Other(e), o), Linked(e, p, o)
    PROVE  Course(e, Round(e, p)) /\ Linked(e, Round(e, p), o)
<1> DEFINE a == [p EXCEPT !.pri = PostAck(e, @), !.sec = PostAck(e, @)]
           b == ProcessPrimary([a EXCEPT !.pri = Fire(e, @)])
           r == ProcessSecondary(e, [b EXCEPT !.sec = Fire(e, @)])
<1>1. Round(e, p) = r
  BY DEF Round
<1>2. (Course(e, a) \/ FreshFirst(e, a) \/ FreshNext(e, a)) /\ Kept(p, a)
  BY AckStage
<1> HIDE DEF a
<1>3. /\ (Course(e, b) /\ Settled(e, b)) \/ FreshNext(e, b)
      /\ Kept(a, b) \/ Renewing(e, a, b)
  BY <1>2, PrimaryCourse
<1> HIDE DEF b
<1>4. Course(e, r) /\ Kept(b, r)
  BY <1>3, SecondaryCourse
<1> HIDE DEF r
<1>5. p \in Contexts /\ a \in Contexts /\ b \in Contexts /\ r \in Contexts /\ o \in Contexts
  BY <1>2, <1>3, <1>4 DEF Course, FreshFirst, FreshNext
<1>6. Linked(e, a, o)
  BY <1>2, <1>5, LinkedKept
<1>7. Linked(e, b, o)
  <2>1. CASE Kept(a, b)
    BY <1>5, <1>6, <2>1, LinkedKept
  <2>2. CASE Renewing(e, a, b)
    <3>1. e = Client /\ Other(e) = Server /\ Uses(e, a.pri)
      BY <2>2 DEF Renewing, Other
    <3>2. ~FreshNext(e, a)
      BY <3>1, PeerAssumption DEF FreshNext, Leaves, Uses
    <3>3. ~FreshFirst(e, a)
      <4>1. ASSUME FreshFirst(e, a) PROVE FALSE
        <5>1. a.pri \in Key /\ Waits(e, Taken(a.pri)) /\ a.pri.next = "RENEGOTIATE"
          BY <3>1, <4>1 DEF FreshFirst, Fresh, Uses, Taken
        <5>2. Taken(a.pri).next = a.pri.next
          BY <5>1, ResetEventFacts DEF Taken
        <5> QED BY <5>1, <5>2 DEF Waits
      <4> QED BY <4>1
    <3> QED BY <1>2, <1>5, <1>6, <2>2, <3>1, <3>2, <3>3, LinkedRenewing
  <2> QED BY <1>3, <2>1, <2>2
<1>8. Linked(e, r, o)
  BY <1>4, <1>5, <1>7, LinkedKept
<1> QED BY <1>1, <1>4, <1>8

\* And so flush() keeps it on its course and with the other.
LEMMA FlushCourse ==
    ASSUME NEW e \in Peer, NEW p, NEW o, Course(e, p), Course(Other(e), o), Linked(e, p, o)
    PROVE  /\ Course(e, Flush(e, p)) /\ Linked(e, Flush(e, p), o)
           /\ Flush(e, p) \in Calm
<1> DEFINE S == {q \in Contexts : Course(e, q) /\ Linked(e, q, o)}
<1>1. S \subseteq Contexts /\ p \in S
  BY CourseIs
<1>2. \A q \in S : Round(e, q) \in S
  <2>1. ASSUME NEW q \in S
        PROVE  Course(e, Round(e, q)) /\ Linked(e, Round(e, q), o)
    BY RoundCourse
  <2> QED BY <2>1, CourseIs
<1>3. Flush(e, p) \in S /\ Flush(e, p) \in Calm
  <2> HIDE DEF S
  <2> QED BY <1>1, <1>2, FlushKeeps
<1> QED BY <1>3

\* The ends of a key, seen from either side.
LEMMA LinkedIs ==
    ASSUME NEW e \in Peer, NEW p, NEW o, Linked(e, p, o),
           NEW c \in {p.pri, p.sec}, NEW s \in {o.pri, o.sec}, Defined(c), Defined(s),
           c.num = s.num
    PROVE  Pair(c, s) /\ Pair(s, c)
  BY DEF Linked, Together, Pair

\* Key IDs do not recur among the contexts there are at a time, so that a packet finds
\* the context that is the other end of the one that sent it.
LEMMA KidsApart ==
    ASSUME NEW p, NEW q, Course(Client, p), Course(Server, q), Together(p, q),
           NEW c \in {p.pri, p.sec}, NEW s \in {q.pri, q.sec}, Defined(c), Defined(s)
    PROVE  c.kid = s.kid <=> c.num = s.num
<1>1. PICK n \in {p.pri, p.sec} :
        /\ Usual(Client, n) /\ Newest(p, n) /\ n.num = p.nKeys
        /\ \A d \in {p.pri, p.sec} : Defined(d) => d = n \/ Follows(p, n, d)
  BY Numbers
<1>2. PICK m \in {q.pri, q.sec} :
        /\ Usual(Server, m) /\ Newest(q, m) /\ m.num = q.nKeys
        /\ \A d \in {q.pri, q.sec} : Defined(d) => d = m \/ Follows(q, m, d)
  BY Numbers
<1>3. Usual(Client, c) /\ Usual(Server, s)
  BY CourseIs
<1>4. /\ c.num \in Nat /\ s.num \in Nat /\ n.num \in Nat /\ m.num \in Nat
      /\ c.kid \in 0 .. KeyIdMask /\ s.kid \in 0 .. KeyIdMask
      /\ n.kid \in 0 .. KeyIdMask /\ m.kid \in 0 .. KeyIdMask
      /\ Defined(n) /\ Defined(m)
  BY <1>1, <1>2, <1>3, UsualIs
<1>5. c.num = s.num => c.kid = s.kid
  BY DEF Together, Pair
<1>6. c = n \/ (c.num + 1 = n.num /\ n.kid = NextKeyId(c.kid))
  BY <1>1 DEF Follows
<1>7. s = m \/ (s.num + 1 = m.num /\ m.kid = NextKeyId(s.kid))
  BY <1>2 DEF Follows
<1>8. CASE p.nKeys = q.nKeys
  <2>1. n.num = m.num /\ n.kid = m.kid
    BY <1>1, <1>2, <1>4, <1>8 DEF Together, Pair
  <2>2. NextKeyId(c.kid) # c.kid /\ NextKeyId(s.kid) # s.kid
    BY <1>4, NextKeyIdFacts
  <2> QED BY <1>4, <1>5, <1>6, <1>7, <2>1, <2>2
<1>9. CASE Ahead(p, q)
  <2>1. p.sec.num = p.nKeys /\ p.sec.num = q.nKeys + 1 /\ p.sec.kid = q.upcoming
    BY <1>9 DEF Ahead
  <2>2. n = p.sec
    BY <1>1, <2>1, NumbersAre
  <2>3. n.num = m.num + 1 /\ n.kid = NextKeyId(m.kid)
    BY <1>1, <1>2, <2>1, <2>2 DEF Newest
  <2>4. CASE c = n
    <3>1. c.num # s.num
      BY <1>4, <1>7, <2>3, <2>4
    <3>2. NextKeyId(m.kid) # m.kid /\ NextKeyId(NextKeyId(s.kid)) # s.kid
      BY <1>4, NextKeyIdFacts
    <3>3. c.kid # s.kid
      BY <1>7, <2>3, <2>4, <3>2
    <3> QED BY <3>1, <3>3
  <2>5. CASE c # n
    <3>1. c.num = m.num
      BY <1>4, <1>6, <2>3, <2>5
    <3>2. c.kid = m.kid
      BY <1>4, <3>1 DEF Together, Pair
    <3>3. NextKeyId(s.kid) # s.kid
      BY <1>4, NextKeyIdFacts
    <3> QED BY <1>4, <1>5, <1>7, <3>1, <3>2, <3>3
  <2> QED BY <2>4, <2>5
<1> QED BY <1>8, <1>9 DEF Together

\* Undisturbed peers, and how a step of one of them keeps them so.
LEMMA InStepIs ==
    ASSUME InStep, Undisturbed, NEW e \in Peer
    PROVE  /\ Other(e) \in Peer /\ Other(Other(e)) = e /\ Other(e) # e
           /\ Course(e, peer[e]) /\ Course(Other(e), peer[Other(e)])
           /\ Linked(e, peer[e], peer[Other(e)])
           /\ peer[e] \in Contexts /\ peer[e] \in Calm /\ Running(e) /\ Running(Other(e))
<1>1. Other(e) \in Peer /\ Other(Other(e)) = e /\ Other(e) # e
  BY PeerAssumption DEF Other, Peer
<1>2. \A f \in Peer : Course(f, peer[f]) /\ peer[f] \in Calm
  BY DEF InStep
<1>3. Linked(e, peer[e], peer[Other(e)])
  BY PeerAssumption DEF InStep, Linked, Other, Peer
<1>4. \A f \in Peer : Running(f)
  BY <1>2, CourseIs, UsualIs DEF Running
<1> QED BY <1>1, <1>2, <1>3, <1>4, CourseIs

\* InStep of the next state, spelled out.
LEMMA InStepNext ==
    InStep' <=> ( Undisturbed =>
                    /\ up = TRUE
                    /\ \A e \in Peer : Course(e, peer[e]) /\ peer[e] \in Calm
                    /\ Together(peer[Client], peer[Server]) )'
  BY PTL DEF InStep

\* A call that hands flush() contexts on their course.
LEMMA FlushInStep ==
    ASSUME TypeOK, InStep, Undisturbed, NEW e \in Peer, NEW p,
           Course(e, p), Linked(e, p, peer[Other(e)]),
           peer' = [peer EXCEPT ![e] = Flush(e, p)], up' = up
    PROVE  InStep'
<1> DEFINE q == Flush(e, p)
           o == Other(e)
<1>1. /\ o \in Peer /\ o # e /\ Course(o, peer[o]) /\ peer[o] \in Calm
      /\ \A f \in Peer : f = e \/ f = o
  BY InStepIs DEF Other, Peer
<1>2. Course(e, q) /\ Linked(e, q, peer[o]) /\ q \in Calm
  BY <1>1, FlushCourse
<1> HIDE DEF q
<1>3. peer \in [Peer -> ProtoContext]
  BY DEF TypeOK
<1>4. peer'[e] = q /\ peer'[o] = peer[o]
  BY <1>1, <1>3 DEF q
<1>5. \A f \in Peer : Course(f, peer'[f]) /\ peer'[f] \in Calm
  BY <1>1, <1>2, <1>4
<1>6. Together(peer'[Client], peer'[Server])
  BY <1>1, <1>2, <1>4, PeerAssumption DEF Linked, Other, Peer
<1>7. up' = TRUE
  BY DEF InStep
<1> QED BY <1>5, <1>6, <1>7, InStepNext

-----------------------------------------------------------------------------
(* The steps of undisturbed peers. *)

\* The context that a packet of the other peer is for.
LEMMA SlotIs ==
    ASSUME InStep, Undisturbed, NEW e \in Peer,
           NEW from \in {peer[Other(e)].pri, peer[Other(e)].sec}, Defined(from)
    PROVE  LET s == Slot(e, from.kid)
           IN  /\ s # "none" => /\ s \in {"pri", "sec"} /\ Usual(e, peer[e][s])
                                /\ peer[e][s].num = from.num /\ Pair(peer[e][s], from)
               /\ \A t \in {"pri", "sec"} : peer[e][t].num = from.num => s = t
<1> DEFINE p == peer[e]
           o == peer[Other(e)]
           s == Slot(e, from.kid)
<1>1. /\ Course(e, p) /\ Course(Other(e), o) /\ Linked(e, p, o) /\ Defined(p.pri)
      /\ Other(e) \in Peer
  BY InStepIs, CourseIs
<1>2. Usual(Other(e), from) /\ from.num # 0 /\ from.kid \in 0 .. KeyIdMask
  BY <1>1, CourseIs, UsualIs
<1>3. ASSUME NEW c \in {p.pri, p.sec}, Defined(c)
      PROVE  c.kid = from.kid <=> c.num = from.num
  <2>1. CASE e = Client
    <3>1. Other(e) = Server
      BY <2>1 DEF Other
    <3> QED BY <1>1, <1>3, <2>1, <3>1, KidsApart DEF Linked
  <2>2. CASE e # Client
    <3>1. Other(e) = Client /\ e = Server
      BY <2>2 DEF Other, Peer
    <3> QED BY <1>1, <1>3, <2>2, <3>1, KidsApart DEF Linked
  <2> QED BY <2>1, <2>2
<1>4. Defined(p.sec) \/ (p.sec.kid # from.kid /\ p.sec.num # from.num)
  <2>1. p.sec = NoKey \/ Defined(p.sec)
    BY <1>1, CourseIs, UsualIs
  <2>2. NoKey.kid # from.kid /\ NoKey.num # from.num
    BY <1>2, Constants DEF NoKey
  <2> QED BY <2>1, <2>2
<1>5. p.pri.num # p.sec.num
  BY <1>1, NumbersAre
<1>6. s = IF from.kid = p.pri.kid THEN "pri" ELSE IF from.kid = p.sec.kid THEN "sec" ELSE "none"
  BY DEF Slot
<1> HIDE DEF s
<1>7. \A t \in {"pri", "sec"} : p[t].num = from.num => s = t
  BY <1>1, <1>3, <1>4, <1>5, <1>6
<1>8. s # "none" => s \in {"pri", "sec"} /\ p[s].num = from.num /\ p[s] \in {p.pri, p.sec}
                    /\ Defined(p[s])
  BY <1>1, <1>3, <1>4, <1>6
<1>9. s # "none" => Usual(e, p[s])
  BY <1>1, <1>8, CourseIs
<1>10. s # "none" => Pair(p[s], from)
  BY <1>1, <1>8, LinkedIs
<1> QED BY <1>7, <1>8, <1>9, <1>10 DEF s, p

\* A context goes on waiting for what it was waiting for.
Stays(e, c, d) ==
    /\ d.num = c.num /\ d.kid = c.kid /\ d.age = c.age
    /\ Negotiates(c) => Negotiates(d)
    /\ Waits(e, c) => Waits(e, d)
    /\ Uses(e, c) => Uses(e, d)
    /\ Leaves(c) => Leaves(d)

\* A context that goes on with its handshake leaves its peer on its course.
LEMMA StaysOnCourse ==
    ASSUME NEW e \in Peer, NEW p, NEW o, Course(e, p), Course(Other(e), o), Linked(e, p, o),
           NEW s \in {"pri", "sec"}, Defined(p[s]),
           NEW d, Usual(e, d), Stays(e, p[s], d),
           NEW from \in {o.pri, o.sec}, Defined(from), from.num = d.num, Pair(d, from)
    PROVE  LET q == [p EXCEPT ![s] = d]
           IN  Course(e, q) /\ Linked(e, q, o)
<1> DEFINE q == [p EXCEPT ![s] = d]
           c == p[s]
<1>1. /\ p \in Contexts /\ Usual(e, p.pri) /\ (Defined(p.sec) => Usual(e, p.sec))
      /\ Defined(p.pri) /\ d \in Key /\ Defined(d)
  BY CourseIs, UsualIs
<1>2. /\ q \in Contexts /\ q.nKeys = p.nKeys /\ q.upcoming = p.upcoming
      /\ s = "pri" => q.pri = d /\ q.sec = p.sec
      /\ s = "sec" => q.sec = d /\ q.pri = p.pri
  <2>1. CASE s = "pri"
    <3>1. q = [p EXCEPT !.pri = d]
      BY <2>1
    <3> HIDE DEF q
    <3> QED BY <1>1, <2>1, <3>1, PutPri
  <2>2. CASE s = "sec"
    <3>1. q = [p EXCEPT !.sec = d] /\ d \in Key \cup {NoKey}
      BY <1>1, <2>2
    <3> HIDE DEF q
    <3> QED BY <1>1, <2>2, <3>1, PutSec
  <2> QED BY <2>1, <2>2
<1> HIDE DEF q
<1>3. p.sec = NoKey => s = "pri"
  BY NoKeyRank
<1>4. Course(e, q)
  <2>1. CASE s = "pri"
    <3>1. q.pri = d /\ q.sec = p.sec
      BY <1>2, <2>1
    <3>2. Stays(e, p.pri, d)
      BY <2>1
    <3>3. Single(e, p) => Single(e, q)
      BY <1>2, <3>1, <3>2 DEF Single, Newest, Stays
    <3>4. Renewal(e, p) => Renewal(e, q)
      BY <1>2, <3>1, <3>2 DEF Renewal, Follows, Newest, Stays
    <3>5. Renewed(e, p) => Renewed(e, q)
      BY <1>2, <3>1, <3>2 DEF Renewed, Follows, Newest, Stays
    <3> QED BY <1>2, <3>1, <3>3, <3>4, <3>5 DEF Course
  <2>2. CASE s = "sec"
    <3>1. q.sec = d /\ q.pri = p.pri
      BY <1>2, <2>2
    <3>2. Stays(e, p.sec, d) /\ p.sec # NoKey
      BY <1>3, <2>2
    <3>3. ~Single(e, p)
      BY <3>2 DEF Single
    <3>4. Renewal(e, p) => Renewal(e, q)
      BY <1>2, <3>1, <3>2 DEF Renewal, Follows, Newest, Stays
    <3>5. Renewed(e, p) => Renewed(e, q)
      BY <1>2, <3>1, <3>2 DEF Renewed, Follows, Newest, Stays
    <3> QED BY <1>1, <1>2, <3>1, <3>3, <3>4, <3>5 DEF Course
  <2> QED BY <2>1, <2>2
<1>5. Other(e) \in Peer /\ o \in Contexts
  BY CourseIs DEF Other, Peer
<1>6. ASSUME NEW x \in {q.pri, q.sec}, NEW f \in {o.pri, o.sec}, Defined(x), Defined(f),
             x.num = f.num
      PROVE  Pair(x, f) /\ Pair(f, x)
  <2>1. CASE x = d
    <3>1. f = from
      BY <1>6, <2>1, NumbersAre
    <3> QED BY <2>1, <3>1 DEF Pair
  <2>2. CASE x # d
    <3>1. x \in {p.pri, p.sec}
      BY <1>2, <2>2
    <3> QED BY <1>6, <3>1, LinkedIs
  <2> QED BY <2>1, <2>2
<1>7. CASE e = Client
  <2>1. Ahead(p, o) => Ahead(q, o)
    <3>1. ASSUME Ahead(p, o) PROVE q.sec = p.sec
      <4>1. p.sec.num = o.nKeys + 1
        BY <3>1 DEF Ahead
      <4>2. from.num <= o.nKeys /\ from.num = p[s].num /\ o.nKeys \in Nat
        BY NumbersAre DEF Stays
      <4>3. s # "sec"
        BY <4>1, <4>2
      <4> QED BY <1>2, <4>3
    <3> QED BY <1>2, <3>1 DEF Ahead
  <2>2. p.nKeys = o.nKeys \/ Ahead(p, o)
    BY <1>7 DEF Linked, Together
  <2>3. Together(q, o)
    BY <1>2, <1>6, <2>1, <2>2 DEF Together
  <2> QED BY <1>4, <1>7, <2>3 DEF Linked, q
<1>8. CASE e # Client
  <2>1. o.nKeys = p.nKeys \/ Ahead(o, p)
    BY <1>8 DEF Linked, Together
  <2>2. o.nKeys = q.nKeys \/ Ahead(o, q)
    BY <1>2, <2>1 DEF Ahead
  <2>3. Together(o, q)
    BY <1>6, <2>2 DEF Together
  <2> QED BY <1>4, <1>8, <2>3 DEF Linked, q
<1> QED BY <1>7, <1>8

\* A message takes the handshake to the next state.
LEMMA RecvUsual ==
    ASSUME NEW e \in Peer, NEW c, NEW from, Usual(e, c), Usual(Other(e), from),
           c.num = from.num, Pair(c, from), Readable(c, from)
    PROVE  LET d == RecvMessage(e, c, from)
           IN  Usual(e, d) /\ Stays(e, c, d) /\ Pair(d, from)
<1> DEFINE d == RecvMessage(e, c, from)
           n == c.got + 1
           Goal == Usual(e, d) /\ Stays(e, c, d) /\ Pair(d, from)
<1> SUFFICES Goal
  OBVIOUS
<1>1. /\ c \in Key /\ Shaken(e, c) /\ c.cur = "NONE" /\ c.invalid = "NONE" /\ c.fired = FALSE
      /\ from \in Key /\ Shaken(Other(e), from)
      /\ c.got \in Nat /\ c.acked \in Nat /\ from.acked \in Nat /\ from.got \in Nat
      /\ Len(c.out) \in Nat /\ Len(from.out) \in Nat /\ Len(from.out) <= 2
      /\ c.num # 0 /\ c.num \in Nat
  BY UsualIs DEF Usual
<1>2. n <= Len(from.out) /\ (from.out[n] = "AUTH" => c.state = "WAIT_AUTH")
  BY DEF Readable
<1>3. from.out \in {NoneSent, ResetSent, AuthSent}
  BY <1>1 DEF Shaken
<1>4. d \in Key
  <2>1. from \in KeyContext
    BY <1>1, KeyRecord
  <2> QED BY <1>1, <1>2, <2>1, RecvMessageFacts
<1>5. c.got = 0 \/ c.got = 1
  BY <1>1, <1>2
<1>6. ASSUME c.state # "ACTIVE", d.state # "ACTIVE", d.got = n, Shaken(e, d),
             Len(d.out) \in Nat, Len(c.out) <= Len(d.out),
             d.num = c.num, d.kid = c.kid, d.age = c.age, d.acked = c.acked,
             d.next = c.next, d.due = c.due,
             d.cur = "NONE", d.invalid = "NONE", d.fired = FALSE
      PROVE  Goal
  <2> HIDE DEF d
  <2>1. Usual(e, d)
    BY <1>4, <1>6 DEF Usual
  <2>2. Stays(e, c, d)
    BY <1>6 DEF Stays, Negotiates, Waits, Uses, Leaves
  <2>3. Pair(d, from)
    <3>1. /\ c.kid = from.kid /\ c.age = from.age /\ c.acked <= from.got /\ from.acked <= c.got
          /\ from.got <= Len(c.out)
      BY DEF Pair
    <3> QED BY <1>1, <1>2, <1>6, <3>1 DEF Pair
  <2> QED BY <2>1, <2>2, <2>3
<1> DEFINE b == [c EXCEPT !.got = n]
<1>7. /\ b \in KeyContext
      /\ b.num = c.num /\ b.kid = c.kid /\ b.age = c.age /\ b.acked = c.acked /\ b.got = n
      /\ b.next = c.next /\ b.due = c.due /\ b.out = c.out /\ b.state = c.state
      /\ b.with = c.with /\ b.cur = "NONE" /\ b.invalid = "NONE" /\ b.fired = FALSE
  <2>1. c \in KeyContext /\ n \in Nat
    BY <1>1, KeyRecord
  <2> HIDE DEF n
  <2> QED BY <1>1, <2>1 DEF KeyContext
<1>8. d = IF from.out[n] = "RESET"
          THEN IF c.state # "WAIT_RESET" THEN b
               ELSE [b EXCEPT !.state = "WAIT_RESET_ACK",
                              !.out = IF e = Server THEN Append(@, "RESET") ELSE @]
          ELSE [b EXCEPT !.state = "WAIT_AUTH_ACK", !.with = from.num,
                         !.out = IF e = Server THEN Append(@, "AUTH") ELSE @]
  BY <1>7 DEF RecvMessage
<1> HIDE DEF b
<1>9. CASE c.got = 0
  <2>1. from.out \in {ResetSent, AuthSent} /\ from.out[n] = "RESET"
    BY <1>2, <1>3, <1>9, Letters
  <2>2. c.state = "WAIT_RESET" /\ c.with = 0 /\ c.acked \in 0 .. Len(c.out)
        /\ c.out = (IF e = Client THEN ResetSent ELSE NoneSent)
    BY <1>1, <1>9 DEF Shaken
  <2>3. (IF e = Server THEN Append(c.out, "RESET") ELSE c.out) = ResetSent
    BY <2>2, PeerAssumption, Letters DEF Peer
  <2>4. d = [b EXCEPT !.state = "WAIT_RESET_ACK", !.out = ResetSent]
    <3>1. d = [b EXCEPT !.state = "WAIT_RESET_ACK",
                        !.out = IF e = Server THEN Append(@, "RESET") ELSE @]
      BY <1>8, <2>1, <2>2
    <3> HIDE DEF d
    <3> QED BY <1>7, <2>3, <3>1 DEF KeyContext
  <2> HIDE DEF d
  <2>5. /\ d.num = c.num /\ d.kid = c.kid /\ d.age = c.age /\ d.acked = c.acked /\ d.got = n
        /\ d.next = c.next /\ d.due = c.due /\ d.out = ResetSent /\ d.state = "WAIT_RESET_ACK"
        /\ d.with = 0 /\ d.cur = "NONE" /\ d.invalid = "NONE" /\ d.fired = FALSE
    BY <1>7, <2>2, <2>4 DEF KeyContext
  <2>6. c.acked \in {0, 1} /\ Len(c.out) <= Len(ResetSent)
    <3>1. Len(c.out) \in {0, 1}
      BY <2>2, Letters
    <3> QED BY <1>1, <2>2, <3>1, Letters
  <2>7. Shaken(e, d)
    BY <1>9, <2>5, <2>6 DEF Shaken
  <2>8. d.state # "ACTIVE" /\ Len(d.out) \in Nat /\ Len(c.out) <= Len(d.out)
    BY <2>5, <2>6, Letters
  <2> HIDE DEF Goal
  <2> QED BY <1>6, <2>2, <2>5, <2>7, <2>8
<1>10. CASE c.got = 1
  <2>1. from.out = AuthSent /\ from.out[n] = "AUTH"
    BY <1>1, <1>2, <1>3, <1>10, Letters
  <2>2. c.state = "WAIT_AUTH"
    BY <1>2, <2>1
  <2>3. c.out = (IF e = Client THEN AuthSent ELSE ResetSent) /\ c.acked \in 1 .. Len(c.out)
    BY <1>1, <2>2 DEF Shaken
  <2>4. (IF e = Server THEN Append(c.out, "AUTH") ELSE c.out) = AuthSent
    BY <2>3, PeerAssumption, Letters DEF Peer
  <2>5. d = [b EXCEPT !.state = "WAIT_AUTH_ACK", !.with = c.num, !.out = AuthSent]
    <3>1. d = [b EXCEPT !.state = "WAIT_AUTH_ACK", !.with = from.num,
                        !.out = IF e = Server THEN Append(@, "AUTH") ELSE @]
      BY <1>8, <2>1, <2>2
    <3> HIDE DEF d
    <3> QED BY <1>7, <2>4, <3>1 DEF KeyContext
  <2> HIDE DEF d
  <2>6. /\ d.num = c.num /\ d.kid = c.kid /\ d.age = c.age /\ d.acked = c.acked /\ d.got = n
        /\ d.next = c.next /\ d.due = c.due /\ d.out = AuthSent /\ d.state = "WAIT_AUTH_ACK"
        /\ d.with = c.num /\ d.cur = "NONE" /\ d.invalid = "NONE" /\ d.fired = FALSE
    BY <1>7, <2>5 DEF KeyContext
  <2>7. c.acked \in {1, 2} /\ Len(c.out) <= Len(AuthSent)
    <3>1. Len(c.out) \in {1, 2}
      BY <2>3, Letters
    <3> QED BY <1>1, <2>3, <3>1, Letters
  <2>8. Shaken(e, d)
    BY <1>10, <2>6, <2>7 DEF Shaken
  <2>9. d.state # "ACTIVE" /\ Len(d.out) \in Nat /\ Len(c.out) <= Len(d.out)
    BY <2>6, <2>7, Letters
  <2> HIDE DEF Goal
  <2> QED BY <1>6, <2>2, <2>6, <2>8, <2>9
<1> QED BY <1>5, <1>9, <1>10

\* An acknowledgement reaches the end that waits for it.
LEMMA AckedUsual ==
    ASSUME NEW e \in Peer, NEW c, NEW from, Usual(e, c), Usual(Other(e), from),
           Pair(c, from), c.acked < from.got, from.got <= Len(c.out)
    PROVE  LET d == [c EXCEPT !.acked = from.got]
           IN  Usual(e, d) /\ Stays(e, c, d) /\ Pair(d, from)
<1> DEFINE d == [c EXCEPT !.acked = from.got]
<1>1. /\ c \in Key /\ Shaken(e, c) /\ c.cur = "NONE" /\ c.invalid = "NONE" /\ c.fired = FALSE
      /\ c.acked \in Nat /\ from.got \in Nat /\ Len(c.out) \in Nat /\ c.got \in Nat
      /\ Len(from.out) \in Nat /\ from.acked \in Nat
  BY UsualIs DEF Usual
<1>2. c.state # "ACTIVE"
  <2>1. c.state = "ACTIVE" => c.acked = Len(c.out)
    BY <1>1, KeyIs DEF WellFormed
  <2> QED BY <1>1, <2>1
<1>3. d \in Key
  BY <1>1, <1>2 DEF Key, KeyContext, WellFormed, Timely
<1>4. /\ d.num = c.num /\ d.kid = c.kid /\ d.age = c.age /\ d.acked = from.got /\ d.got = c.got
      /\ d.out = c.out /\ d.with = c.with /\ d.state = c.state /\ d.next = c.next
      /\ d.due = c.due /\ d.cur = "NONE" /\ d.invalid = "NONE" /\ d.fired = FALSE
  BY <1>1, KeyRecord DEF KeyContext
<1> HIDE DEF d
<1>5. Shaken(e, d)
  <2>1. d.acked \in 0 .. Len(d.out) /\ d.acked > 0
    BY <1>1, <1>4
  <2>2. /\ d.out = ResetSent => d.acked = 1
        /\ d.out = AuthSent => d.acked \in {1, 2}
    <3>1. /\ d.out = ResetSent => Len(d.out) = 1
          /\ d.out = AuthSent => Len(d.out) = 2
      BY Letters
    <3>2. d.acked \in Nat /\ d.acked <= Len(d.out) /\ d.acked > 0
      BY <1>1, <1>4
    <3>3. Len(d.out) = 1 => d.acked = 1
      BY <3>2
    <3>4. Len(d.out) = 2 => d.acked \in {1, 2}
      BY <3>2
    <3> HIDE DEF d
    <3> QED BY <3>1, <3>3, <3>4
  <2>3. CASE c.state = "WAIT_RESET"
    BY <1>1, <1>4, <2>1, <2>3 DEF Shaken
  <2>4. CASE c.state = "WAIT_RESET_ACK"
    BY <1>1, <1>4, <2>2, <2>4 DEF Shaken
  <2>5. CASE c.state = "WAIT_AUTH"
    <3>1. d.acked \in 1 .. Len(d.out)
      BY <2>1
    <3> QED BY <1>1, <1>4, <2>5, <3>1 DEF Shaken
  <2>6. CASE c.state = "WAIT_AUTH_ACK"
    BY <1>1, <1>4, <2>2, <2>6 DEF Shaken
  <2> QED BY <1>1, <1>2, <2>3, <2>4, <2>5, <2>6 DEF Shaken
<1>6. Usual(e, d)
  BY <1>3, <1>4, <1>5 DEF Usual
<1>7. Stays(e, c, d)
  BY <1>2, <1>4 DEF Stays, Negotiates, Waits, Uses, Leaves
<1>8. Pair(d, from)
  BY <1>1, <1>4 DEF Pair
<1> QED BY <1>6, <1>7, <1>8 DEF d

\* The first data packet on a key lets a client that waits for it go on.
LEMMA GreenUsual ==
    ASSUME NEW e \in Peer, NEW c, NEW from, Usual(e, c), Usual(Other(e), from),
           c.state = "ACTIVE", Pair(c, from)
    PROVE  LET g == [c EXCEPT !.green = TRUE]
               d == IF g.next = "PRIMARY_PENDING"
                    THEN SetEvent(g, "NONE", "BECOME_PRIMARY", g.age + 1) ELSE g
           IN  Usual(e, d) /\ Stays(e, c, d) /\ Pair(d, from)
<1> DEFINE g == [c EXCEPT !.green = TRUE]
           later == SetEvent(g, "NONE", "BECOME_PRIMARY", g.age + 1)
           d == IF g.next = "PRIMARY_PENDING" THEN later ELSE g
           Goal == Usual(e, d) /\ Stays(e, c, d) /\ Pair(d, from)
<1> SUFFICES Goal
  OBVIOUS
<1>1. /\ c \in Key /\ Shaken(e, c) /\ c.cur = "NONE" /\ c.invalid = "NONE" /\ c.fired = FALSE
      /\ from \in Key /\ c.age \in Nat
  BY UsualIs DEF Usual
<1>2. g \in Key
  BY <1>1 DEF Key, KeyContext, WellFormed, Timely
<1>3. /\ g.num = c.num /\ g.kid = c.kid /\ g.age = c.age /\ g.acked = c.acked /\ g.got = c.got
      /\ g.out = c.out /\ g.with = c.with /\ g.state = c.state /\ g.next = c.next
      /\ g.due = c.due /\ g.cur = "NONE" /\ g.invalid = "NONE" /\ g.fired = FALSE
      /\ g.green = TRUE
  BY <1>1, KeyRecord DEF KeyContext
<1> HIDE DEF g
<1>4. Usual(e, g)
  <2>1. Shaken(e, g)
    BY <1>1, <1>3 DEF Shaken
  <2> QED BY <1>2, <1>3, <2>1 DEF Usual
<1>5. Same(c, g)
  BY <1>1, <1>3, KeyRecord DEF Same
<1>6. CASE g.next = "PRIMARY_PENDING"
  <2>1. "BECOME_PRIMARY" \in Event \ {"ACTIVE", "RENEGOTIATE_QUEUE", "NONE"}
        /\ g.age + 1 \in Nat /\ g.age <= g.age + 1
    BY <1>1, <1>3 DEF Event
  <2>2. /\ Usual(e, d) /\ Same(g, d) /\ d.next = "BECOME_PRIMARY" /\ d.due = g.age + 1
        /\ d.state = g.state /\ d.green = g.green
    BY <1>4, <1>6, <2>1, Retimed
  <2> HIDE DEF d
  <2>3. /\ d.num = c.num /\ d.kid = c.kid /\ d.age = c.age /\ d.state = "ACTIVE"
        /\ d.green = TRUE /\ d.next = "BECOME_PRIMARY" /\ d.due = c.age + 1
    BY <1>3, <2>2 DEF Same
  <2>4. Stays(e, c, d)
    BY <1>1, <1>3, <1>6, <2>3 DEF Stays, Negotiates, Waits, Uses, Leaves
  <2>7. d \in Key
    BY <2>2, UsualIs
  <2>5. Same(c, d) /\ d \in Key
    <3>1. Len(c.out) \in Nat /\ Len(g.out) \in Nat /\ Len(d.out) \in Nat
      BY <1>1, <1>2, <2>7, KeyRecord
    <3> QED BY <1>5, <2>2, <2>7, <3>1 DEF Same
  <2>6. Pair(d, from)
    BY <1>1, <2>5, PairKept
  <2> QED BY <2>2, <2>4, <2>6
<1>7. CASE g.next # "PRIMARY_PENDING"
  <2>1. d = g
    BY <1>7
  <2>2. Stays(e, c, g)
    BY <1>3, <1>7 DEF Stays, Negotiates, Waits, Uses, Leaves
  <2>3. Pair(g, from)
    BY <1>1, <1>2, <1>5, PairKept
  <2> QED BY <1>4, <2>1, <2>2, <2>3
<1> QED BY <1>6, <1>7

\* The steps of a peer.
LEMMA HousekeepingInStep ==
    ASSUME TypeOK, InStep, Undisturbed, NEW e \in Peer, Housekeeping(e)
    PROVE  InStep'
<1>1. Course(e, peer[e]) /\ Linked(e, peer[e], peer[Other(e)])
  BY InStepIs
<1>2. peer' = [peer EXCEPT ![e] = Flush(e, peer[e])] /\ up' = up
  BY DEF Housekeeping
<1> QED BY <1>1, <1>2, FlushInStep

\* The contexts that send are those of the other peer's course.
LEMMA SenderIs ==
    ASSUME InStep, Undisturbed, NEW e \in Peer, NEW from \in Senders(Other(e))
    PROVE  /\ from \in {peer[Other(e)].pri, peer[Other(e)].sec} /\ Defined(from)
           /\ Usual(Other(e), from)
<1>1. from \in {peer[Other(e)].pri, peer[Other(e)].sec} /\ Defined(from)
  BY DEF Senders
<1>2. Course(Other(e), peer[Other(e)])
  BY InStepIs
<1> QED BY <1>1, <1>2, CourseIs

LEMMA ReceiveInStep ==
    ASSUME TypeOK, InStep, Undisturbed, NEW e \in Peer, NEW from \in Senders(Other(e)),
           Receive(e, from)
    PROVE  InStep'
<1> DEFINE s == Slot(e, from.kid)
           c == peer[e][s]
           d == RecvMessage(e, c, from)
           p == [peer[e] EXCEPT ![s] = d]
<1>1. /\ s # "none" /\ Readable(c, from)
      /\ peer' = [peer EXCEPT ![e] = Flush(e, p)] /\ up' = up
  BY DEF Receive, CanReceive
<1>2. /\ from \in {peer[Other(e)].pri, peer[Other(e)].sec} /\ Defined(from)
      /\ Usual(Other(e), from)
  BY SenderIs
<1>3. s \in {"pri", "sec"} /\ Usual(e, c) /\ c.num = from.num /\ Pair(c, from)
  BY <1>1, <1>2, SlotIs
<1> HIDE DEF s
<1>4. Usual(e, d) /\ Stays(e, c, d) /\ Pair(d, from)
  <2> HIDE DEF c
  <2> QED BY <1>1, <1>2, <1>3, RecvUsual
<1> HIDE DEF d
<1>5. Course(e, peer[e]) /\ Course(Other(e), peer[Other(e)]) /\ Linked(e, peer[e], peer[Other(e)])
  BY InStepIs
<1>6. Defined(c) /\ from.num = d.num
  BY <1>3, <1>4, UsualIs DEF Stays
<1>7. Course(e, p) /\ Linked(e, p, peer[Other(e)])
  BY <1>2, <1>3, <1>4, <1>5, <1>6, StaysOnCourse
<1> HIDE DEF p
<1> QED BY <1>1, <1>7, FlushInStep

LEMMA ReceiveAckInStep ==
    ASSUME TypeOK, InStep, Undisturbed, NEW e \in Peer, NEW from \in Senders(Other(e)),
           ReceiveAck(e, from)
    PROVE  InStep'
<1> DEFINE s == Slot(e, from.kid)
           c == peer[e][s]
           d == [c EXCEPT !.acked = from.got]
           p == [peer[e] EXCEPT ![s] = d]
<1>1. /\ s # "none" /\ c.acked < from.got /\ from.got <= Len(c.out)
      /\ peer' = [peer EXCEPT ![e] = Flush(e, p)] /\ up' = up
  <2>1. peer \in [Peer -> ProtoContext]
    BY DEF TypeOK
  <2> QED BY <2>1 DEF ReceiveAck, CanAck
<1>2. /\ from \in {peer[Other(e)].pri, peer[Other(e)].sec} /\ Defined(from)
      /\ Usual(Other(e), from)
  BY SenderIs
<1>3. s \in {"pri", "sec"} /\ Usual(e, c) /\ c.num = from.num /\ Pair(c, from)
  BY <1>1, <1>2, SlotIs
<1> HIDE DEF s
<1>4. Usual(e, d) /\ Stays(e, c, d) /\ Pair(d, from)
  <2> HIDE DEF c
  <2> QED BY <1>1, <1>2, <1>3, AckedUsual
<1> HIDE DEF d
<1>5. Course(e, peer[e]) /\ Course(Other(e), peer[Other(e)]) /\ Linked(e, peer[e], peer[Other(e)])
  BY InStepIs
<1>6. Defined(c) /\ from.num = d.num
  BY <1>3, <1>4, UsualIs DEF Stays
<1>7. Course(e, p) /\ Linked(e, p, peer[Other(e)])
  BY <1>2, <1>3, <1>4, <1>5, <1>6, StaysOnCourse
<1> HIDE DEF p
<1> QED BY <1>1, <1>7, FlushInStep

LEMMA TurnGreenInStep ==
    ASSUME TypeOK, InStep, Undisturbed, NEW e \in Peer, TurnGreen(e)
    PROVE  InStep'
<1> DEFINE from == peer[Other(e)].pri
           s == Slot(e, from.kid)
           c == peer[e][s]
           g == [c EXCEPT !.green = TRUE]
           d == IF g.next = "PRIMARY_PENDING"
                THEN SetEvent(g, "NONE", "BECOME_PRIMARY", g.age + 1) ELSE g
           p == [peer[e] EXCEPT ![s] = d]
<1>1. /\ s # "none" /\ c.state = "ACTIVE"
      /\ peer' = [peer EXCEPT ![e] = Flush(e, p)] /\ up' = up
  <2>1. peer \in [Peer -> ProtoContext]
    BY DEF TypeOK
  <2> QED BY <2>1 DEF TurnGreen, CanTurnGreen
<1>2. /\ from \in {peer[Other(e)].pri, peer[Other(e)].sec} /\ Defined(from)
      /\ Usual(Other(e), from)
  BY InStepIs, CourseIs
<1> HIDE DEF from
<1>3. s \in {"pri", "sec"} /\ Usual(e, c) /\ c.num = from.num /\ Pair(c, from)
  BY <1>1, <1>2, SlotIs
<1> HIDE DEF s
<1>4. Usual(e, d) /\ Stays(e, c, d) /\ Pair(d, from)
  <2> HIDE DEF c
  <2> QED BY <1>1, <1>2, <1>3, GreenUsual
<1> HIDE DEF d
<1>5. Course(e, peer[e]) /\ Course(Other(e), peer[Other(e)]) /\ Linked(e, peer[e], peer[Other(e)])
  BY InStepIs
<1>6. Defined(c) /\ from.num = d.num
  BY <1>3, <1>4, UsualIs DEF Stays
<1>7. Course(e, p) /\ Linked(e, p, peer[Other(e)])
  BY <1>2, <1>3, <1>4, <1>5, <1>6, StaysOnCourse
<1> HIDE DEF p
<1> QED BY <1>1, <1>7, FlushInStep

\* A context that still negotiates is the newest of its peer.
LEMMA NewestNegotiates ==
    ASSUME NEW e, NEW p, Course(e, p), NEW c \in {p.pri, p.sec}, Defined(c),
           c.state # "ACTIVE"
    PROVE  c.num = p.nKeys /\ c.age = 0 /\ (c = p.sec => Renewal(e, p))
<1>1. ~Defined(NoKey)
  BY NoKeyRank
<1>2. CASE Single(e, p)
  BY <1>1, <1>2 DEF Single, Newest, Negotiates, Waits, Uses
<1>3. CASE Renewal(e, p)
  BY <1>3 DEF Renewal, Follows, Newest, Negotiates, Waits, Uses, Leaves
<1>4. CASE Renewed(e, p)
  BY <1>4 DEF Renewed, Uses, Leaves
<1> QED BY <1>2, <1>3, <1>4 DEF Course

\* A peer has an end of each key that the other one has negotiated, and a request for
\* another reaches the server when it has used its key for as long as the client.
LEMMA SoftResetIs ==
    ASSUME InStep, Undisturbed, NEW e \in Peer, NEW from \in Senders(Other(e)),
           CanSoftReset(e, from)
    PROVE  LET p == peer[e]
               o == peer[Other(e)]
           IN  /\ e = Server /\ Ahead(o, p) /\ from = o.sec
               /\ Uses(e, p.pri) /\ Newest(p, p.pri) /\ p.pri.age = RenegotiateSec
               /\ from.age = 0 /\ from.num = p.nKeys + 1 /\ from.kid = p.upcoming
               /\ from.state = "WAIT_RESET" /\ from.acked = 0 /\ from.out[1] = "RESET"
<1> DEFINE p == peer[e]
           o == peer[Other(e)]
<1>1. Slot(e, from.kid) = "none" /\ from.kid = p.upcoming /\ from.acked = 0
      /\ from.out[1] = "RESET"
  BY DEF CanSoftReset
<1>2. from \in {o.pri, o.sec} /\ Defined(from) /\ Usual(Other(e), from)
  BY SenderIs
<1>3. Course(e, p) /\ Course(Other(e), o) /\ Linked(e, p, o)
  BY InStepIs
<1>4. from.state # "ACTIVE"
  <2>1. from.state = "ACTIVE" => from.acked = 2
    BY <1>2, UsualIs
  <2> QED BY <1>1, <2>1
<1>5. from.num = o.nKeys /\ from.age = 0 /\ (from = o.sec => Renewal(Other(e), o))
  BY <1>2, <1>3, <1>4, NewestNegotiates
<1>6. p.pri.num # from.num /\ p.sec.num # from.num
  <2>1. \A t \in {"pri", "sec"} : p[t].num # from.num
    BY <1>1, <1>2, SlotIs
  <2> QED BY <2>1
<1> HIDE DEF p, o
<1>7. PICK n \in {p.pri, p.sec} : Usual(e, n) /\ Newest(p, n) /\ n.num = p.nKeys
  BY <1>3, Numbers
<1>8. p.nKeys # o.nKeys
  BY <1>5, <1>6, <1>7
<1>9. e = Server
  <2>1. ASSUME e = Client PROVE FALSE
    <3>1. Other(e) = Server /\ Together(p, o)
      BY <1>3, <2>1 DEF Linked, Other
    <3>2. p.nKeys = o.nKeys + 1 /\ p.sec.num = p.nKeys
      BY <1>8, <3>1 DEF Together, Ahead
    <3>3. p.nKeys \in Nat /\ o.nKeys \in Nat /\ p.pri.num # p.sec.num /\ p.pri.num <= p.nKeys
          /\ p.pri.num \in Nat
      BY <1>3, NumbersAre, CourseIs
    <3>4. Renewal(e, p) \/ Renewed(e, p)
      <4>1. ~Single(e, p)
        BY <3>2, <3>3 DEF Single, NoKey
      <4> QED BY <1>3, <4>1 DEF Course
    <3>5. p.pri.num + 1 = p.sec.num
      BY <3>2, <3>3, <3>4 DEF Renewal, Renewed, Follows, Newest
    <3> QED BY <1>5, <1>6, <3>2, <3>3, <3>5
  <2> QED BY <2>1 DEF Peer
<1>10. Other(e) = Client /\ Together(o, p) /\ Course(Client, o) /\ Renegotiate(e) \in Nat
  BY <1>3, <1>9, PeerAssumption, Durations DEF Linked, Other
<1>11. Ahead(o, p)
  BY <1>8, <1>10 DEF Together
<1>12. o.sec.num = o.nKeys /\ o.nKeys = p.nKeys + 1 /\ o.sec.state = "WAIT_RESET"
       /\ o.sec.acked = 0
  BY <1>11 DEF Ahead
<1>13. from = o.sec
  BY <1>2, <1>3, <1>5, <1>12, NumbersAre
<1>14. Follows(o, o.sec, o.pri) /\ o.pri.age = RenegotiateSec
  <2>1. Follows(o, o.sec, o.pri)
    BY <1>5, <1>13 DEF Renewal
  <2> QED BY <1>5, <1>13, <2>1, Constants DEF Follows
<1>15. n.age = RenegotiateSec
  <2>1. o.pri.num = n.num /\ Defined(n) /\ Defined(o.pri)
    <3>1. Defined(n) /\ Defined(o.pri) /\ o.pri.num \in Nat /\ p.nKeys \in Nat
      BY <1>3, <1>7, CourseIs, UsualIs
    <3>2. o.pri.num + 1 = p.nKeys + 1
      BY <1>12, <1>14 DEF Follows
    <3> QED BY <1>7, <3>1, <3>2
  <2>2. Pair(o.pri, n)
    BY <1>7, <1>10, <2>1 DEF Together
  <2> QED BY <1>14, <2>2 DEF Pair
<1>16. ~Waits(e, n) /\ ~Negotiates(n)
  BY <1>7, <1>15, WaitsSoon, Constants
<1>17. n = p.pri /\ Uses(e, p.pri)
  <2>1. CASE Single(e, p)
    <3>1. n = p.pri
      BY <1>7, <2>1, UsualIs DEF Single
    <3> QED BY <1>16, <2>1, <3>1 DEF Single
  <2>2. CASE Renewal(e, p)
    <3>1. n = p.sec
      BY <1>3, <1>7, <2>2, NumbersAre DEF Renewal, Follows, Newest
    <3> QED BY <1>16, <2>2, <3>1 DEF Renewal
  <2>3. CASE Renewed(e, p)
    BY <1>3, <1>7, <2>3, NumbersAre DEF Renewed, Follows, Newest
  <2> QED BY <1>3, <2>1, <2>2, <2>3 DEF Course
<1> QED BY <1>1, <1>5, <1>7, <1>9, <1>11, <1>12, <1>13, <1>15, <1>17 DEF p, o

LEMMA SoftResetInStep ==
    ASSUME TypeOK, InStep, Undisturbed, NEW e \in Peer, NEW from \in Senders(Other(e)),
           SoftReset(e, from)
    PROVE  InStep'
<1> DEFINE p == peer[e]
           o == peer[Other(e)]
           q == NewSecondary(p, FALSE)
           c == q.sec
           d == RecvMessage(e, c, from)
           r == [q EXCEPT !.sec = d]
<1>1. peer' = [peer EXCEPT ![e] = Flush(e, r)] /\ up' = up
  BY DEF SoftReset
<1>2. /\ e = Server /\ Ahead(o, p) /\ from = o.sec
      /\ Uses(e, p.pri) /\ Newest(p, p.pri) /\ p.pri.age = RenegotiateSec
      /\ from.age = 0 /\ from.num = p.nKeys + 1 /\ from.kid = p.upcoming
      /\ from.state = "WAIT_RESET" /\ from.acked = 0 /\ from.out[1] = "RESET"
  BY SoftResetIs DEF SoftReset
<1>3. Usual(Other(e), from) /\ Defined(from)
  BY SenderIs
<1>4. Course(e, p) /\ Course(Other(e), o) /\ Linked(e, p, o)
  BY InStepIs
<1>5. p \in Contexts /\ Usual(e, p.pri) /\ Defined(p.pri) /\ p.nKeys \in Nat
  BY <1>4, CourseIs
<1> HIDE DEF p, o
<1>6. /\ q \in Contexts /\ q.pri = p.pri
      /\ Usual(e, c) /\ Negotiates(c) /\ c.acked = 0 /\ c.got = 0
      /\ c.num = p.nKeys + 1 /\ q.nKeys = p.nKeys + 1
      /\ c.kid = p.upcoming /\ q.upcoming = NextKeyId(c.kid)
  <2>1. (e = Client) = FALSE
    BY <1>2, PeerAssumption
  <2> QED BY <1>5, <2>1, NewSecondaryIs
<1> HIDE DEF q
<1>7. from.got = 0 /\ from.out = ResetSent /\ Len(from.out) = 1
  <2>1. Other(e) = Client
    BY <1>2, PeerAssumption DEF Other
  <2>2. Shaken(Client, from)
    BY <1>3, <2>1 DEF Usual
  <2>3. from.got = 0 /\ from.out = ResetSent
    BY <1>2, <2>2 DEF Shaken
  <2> QED BY <2>3, Letters
<1>8. Pair(c, from) /\ Readable(c, from)
  <2>1. Len(c.out) \in Nat /\ c.age = 0
    BY <1>6, UsualIs DEF Negotiates
  <2>2. Pair(c, from)
    BY <1>2, <1>6, <1>7, <2>1 DEF Pair
  <2>3. Readable(c, from)
    BY <1>2, <1>6, <1>7 DEF Readable
  <2> QED BY <2>2, <2>3
<1>9. Usual(e, d) /\ Stays(e, c, d) /\ Pair(d, from)
  <2>1. c.num = from.num
    BY <1>2, <1>6
  <2> HIDE DEF c
  <2> QED BY <1>3, <1>6, <1>8, <2>1, RecvUsual
<1>10. d.num = p.nKeys + 1 /\ d.kid = p.upcoming /\ d.age = 0 /\ Negotiates(d)
  BY <1>6, <1>9 DEF Stays, Negotiates
<1> HIDE DEF c, d
<1>11. /\ r \in Contexts /\ r.pri = p.pri /\ r.sec = d /\ r.nKeys = p.nKeys + 1
       /\ r.upcoming = NextKeyId(d.kid)
  <2>1. d \in Key \cup {NoKey}
    BY <1>9, UsualIs
  <2> QED BY <1>6, <1>10, <2>1, PutSec
<1> HIDE DEF r
<1>12. Course(e, r)
  <2>1. Follows(r, d, p.pri)
    BY <1>2, <1>10, <1>11, Constants DEF Follows, Newest
  <2>2. Renewal(e, r)
    BY <1>2, <1>9, <1>10, <1>11, <2>1 DEF Renewal
  <2> QED BY <1>5, <1>11, <2>2 DEF Course
<1>13. Together(o, r)
  <2>1. o.nKeys = p.nKeys + 1 /\ o.pri.num # from.num /\ p.pri.num # p.nKeys + 1
    <3>1. o.nKeys = p.nKeys + 1
      BY <1>2 DEF Ahead
    <3>2. p.pri.num = p.nKeys
      BY <1>2 DEF Newest
    <3> QED BY <1>2, <1>4, <1>5, <3>1, <3>2, NumbersAre
  <2>2. ASSUME NEW x \in {o.pri, o.sec}, NEW y \in {p.pri, d}, Defined(x), Defined(y),
               x.num = y.num
        PROVE  Pair(x, y)
    <3>1. CASE y = d
      <4>1. x = from
        BY <1>2, <1>10, <2>1, <2>2, <3>1
      <4> QED BY <1>9, <3>1, <4>1 DEF Pair
    <3>2. CASE y = p.pri
      BY <1>4, <2>2, <3>2, LinkedIs
    <3> QED BY <3>1, <3>2
  <2> QED BY <1>11, <2>1, <2>2 DEF Together
<1>14. Linked(e, r, o)
  BY <1>2, <1>13, PeerAssumption DEF Linked
<1> QED BY <1>1, <1>12, <1>14, FlushInStep DEF o, p

-----------------------------------------------------------------------------
(* What a tick in which everything arrives finds. *)

\* A context that nothing has come due for grows older.
LEMMA OlderUsual ==
    ASSUME NEW e \in Peer, NEW c, Usual(e, c), ~Due(c)
    PROVE  LET d == Older(c)
           IN  /\ Usual(e, d) /\ d.num = c.num /\ d.kid = c.kid /\ d.age = c.age + 1
               /\ d.acked = c.acked /\ d.got = c.got /\ d.out = c.out /\ d.state = c.state
               /\ d.next = c.next /\ d.due = c.due /\ d.green = c.green
               /\ Quiet(c) => Quiet(d)
<1> DEFINE n == c.age + 1
           d == [c EXCEPT !.age = n]
<1>1. /\ c \in Key /\ Shaken(e, c) /\ c.cur = "NONE" /\ c.invalid = "NONE" /\ c.fired = FALSE
      /\ Defined(c) /\ c.age \in Nat /\ c.due \in Nat
  BY UsualIs DEF Usual
<1>2. Older(c) = d /\ n \in Nat
  BY <1>1, KeyRecord DEF Older, KeyContext
<1>3. c.next = "BECOME_PRIMARY" => n <= c.due
  BY <1>1 DEF Due
<1> HIDE DEF n
<1>4. /\ d \in KeyContext
      /\ d.num = c.num /\ d.kid = c.kid /\ d.age = n /\ d.acked = c.acked /\ d.got = c.got
      /\ d.out = c.out /\ d.with = c.with /\ d.state = c.state /\ d.next = c.next
      /\ d.due = c.due /\ d.cur = "NONE" /\ d.invalid = "NONE" /\ d.fired = FALSE
      /\ d.green = c.green
  BY <1>1, <1>2, KeyRecord DEF KeyContext
<1> HIDE DEF d
<1>5. WellFormed(d)
  <2>1. WellFormed(c)
    BY <1>1, KeyIs
  <2> QED BY <1>1, <1>4, <2>1 DEF WellFormed
<1>6. d \in Key
  BY <1>3, <1>4, <1>5 DEF Key, Timely
<1>7. Shaken(e, d)
  BY <1>1, <1>4 DEF Shaken
<1>8. Usual(e, d)
  BY <1>4, <1>6, <1>7 DEF Usual
<1>9. Quiet(c) => Quiet(d)
  BY <1>4 DEF Quiet
<1> QED BY <1>2, <1>4, <1>8, <1>9 DEF n

\* Two ends that have nothing left to send to each other have finished the handshake.
LEMMA HandshakeDone ==
    ASSUME NEW c, NEW s, Usual(Client, c), Usual(Server, s), c.num = s.num, Pair(c, s),
           Quiet(c), Quiet(s), ~Readable(c, s), ~Readable(s, c),
           ~(c.acked < s.got), ~(s.acked < c.got)
    PROVE  c.state = "ACTIVE" /\ s.state = "ACTIVE"
<1>1. /\ Shaken(Client, c) /\ Shaken(Server, s) /\ Client # Server
      /\ c.acked \in Nat /\ c.got \in Nat /\ s.acked \in Nat /\ s.got \in Nat
  BY UsualIs, PeerAssumption DEF Usual
<1>2. c.acked = s.got /\ s.acked = c.got
  BY <1>1 DEF Pair
<1>3. c.with \in {0, c.num} /\ s.with \in {0, c.num}
  BY <1>1 DEF Shaken
<1>4. /\ c.got = 0 => s.out = NoneSent
      /\ c.got = 1 /\ c.state = "WAIT_AUTH" => s.out # AuthSent
  <2>1. s.out \in {NoneSent, ResetSent, AuthSent}
    BY <1>1 DEF Shaken
  <2>2. s.acked < c.got + 1
    BY <1>1, <1>2
  <2>3. ASSUME c.got = 0, s.out # NoneSent PROVE FALSE
    <3>1. 1 <= Len(s.out) /\ s.out[1] = "RESET" /\ c.got + 1 = 1
      BY <2>1, <2>3, Letters
    <3> QED BY <2>2, <3>1 DEF Readable
  <2>4. ASSUME c.got = 1, c.state = "WAIT_AUTH", s.out = AuthSent PROVE FALSE
    <3>1. 2 <= Len(s.out) /\ c.got + 1 = 2
      BY <2>4, Letters
    <3> QED BY <1>3, <2>2, <2>4, <3>1 DEF Readable
  <2> QED BY <2>3, <2>4
<1>5. /\ s.got = 0 => c.out = NoneSent
      /\ s.got = 1 /\ s.state = "WAIT_AUTH" => c.out # AuthSent
  <2>1. c.out \in {NoneSent, ResetSent, AuthSent}
    BY <1>1 DEF Shaken
  <2>2. c.acked < s.got + 1
    BY <1>1, <1>2
  <2>3. ASSUME s.got = 0, c.out # NoneSent PROVE FALSE
    <3>1. 1 <= Len(c.out) /\ c.out[1] = "RESET" /\ s.got + 1 = 1
      BY <2>1, <2>3, Letters
    <3> QED BY <2>2, <3>1 DEF Readable
  <2>4. ASSUME s.got = 1, s.state = "WAIT_AUTH", c.out = AuthSent PROVE FALSE
    <3>1. 2 <= Len(c.out) /\ s.got + 1 = 2
      BY <2>4, Letters
    <3> QED BY <1>3, <2>2, <2>4, <3>1 DEF Readable
  <2> QED BY <2>3, <2>4
<1>6. NoneSent # ResetSent /\ NoneSent # AuthSent /\ ResetSent # AuthSent
  BY Letters
<1>7. /\ s.state = "WAIT_RESET" => s.acked = 0
      /\ s.state = "WAIT_RESET_ACK" => s.acked = 0
      /\ s.state = "WAIT_AUTH" => s.acked = 1
  <2>1. s.state = "WAIT_RESET" => s.acked \in 0 .. Len(NoneSent)
    BY <1>1 DEF Shaken
  <2>2. s.state = "WAIT_RESET_ACK" => s.acked \in {0, 1} /\ s.out = ResetSent
    BY <1>1 DEF Shaken
  <2>3. s.state = "WAIT_AUTH" => s.acked \in 1 .. Len(ResetSent)
    BY <1>1 DEF Shaken
  <2>4. s.state = "WAIT_RESET_ACK" => s.acked < Len(s.out)
    BY DEF Quiet
  <2> QED BY <1>1, <2>1, <2>2, <2>3, <2>4, Letters
<1>8. c.state # "WAIT_RESET"
  BY <1>1, <1>2, <1>4, <1>5, <1>6 DEF Shaken
<1>9. c.state # "WAIT_RESET_ACK"
  <2>1. ASSUME c.state = "WAIT_RESET_ACK" PROVE FALSE
    <3>1. c.got = 1 /\ c.acked = 0
      BY <1>1, <2>1, Letters DEF Shaken, Quiet
    <3>2. s.got = 0 /\ s.acked = 1
      BY <1>2, <3>1
    <3> QED BY <1>1, <3>2, Letters DEF Shaken
  <2> QED BY <2>1
<1>10. c.state # "WAIT_AUTH"
  <2>1. ASSUME c.state = "WAIT_AUTH" PROVE FALSE
    <3>1. c.got = 1 /\ c.out = AuthSent
      BY <1>1, <2>1 DEF Shaken
    <3>2. s.acked = 1 /\ s.out # AuthSent
      BY <1>2, <1>4, <2>1, <3>1
    <3>3. s.state = "WAIT_AUTH" /\ s.got = 1
      BY <1>1, <1>7, <3>2 DEF Shaken
    <3> QED BY <1>5, <3>1, <3>3
  <2> QED BY <2>1
<1>11. c.state # "WAIT_AUTH_ACK"
  <2>1. ASSUME c.state = "WAIT_AUTH_ACK" PROVE FALSE
    <3>1. c.got = 2 /\ c.out = AuthSent /\ c.acked \in {1, 2} /\ c.acked < Len(c.out)
      BY <1>1, <2>1 DEF Shaken, Quiet
    <3>2. s.got = 1 /\ s.acked = 2
      BY <1>2, <3>1, Letters
    <3>3. s.state \in {"WAIT_RESET_ACK", "WAIT_AUTH"}
      BY <1>1, <3>2 DEF Shaken
    <3> QED BY <1>7, <3>2, <3>3
  <2> QED BY <2>1
<1>12. c.state = "ACTIVE" /\ c.got = 2
  BY <1>1, <1>8, <1>9, <1>10, <1>11 DEF Shaken
<1>13. s.state \in {"WAIT_AUTH_ACK", "ACTIVE"}
  <2>1. s.acked = 2
    BY <1>2, <1>12
  <2> QED BY <1>1, <2>1, Letters DEF Shaken
<1>14. s.state # "WAIT_AUTH_ACK"
  <2>1. ASSUME s.state = "WAIT_AUTH_ACK" PROVE FALSE
    <3>1. s.out = AuthSent /\ s.acked = 2
      BY <1>1, <1>2, <1>12, <2>1 DEF Shaken
    <3> QED BY <2>1, <3>1, Letters DEF Quiet
  <2> QED BY <2>1
<1> QED BY <1>12, <1>13, <1>14

\* Everything that may arrive has done so, and nothing is due.
AtTick == InStep /\ Undisturbed /\ \A e \in Peer : Arrived(e) /\ Handled(e)

\* When time passes, two ends have read and acknowledged what the other has sent.
LEMMA Delivered ==
    ASSUME AtTick, NEW e \in Peer,
           NEW c \in {peer[e].pri, peer[e].sec}, Defined(c),
           NEW from \in {peer[Other(e)].pri, peer[Other(e)].sec}, Defined(from),
           c.num = from.num
    PROVE  /\ Usual(e, c) /\ Usual(Other(e), from) /\ Pair(c, from) /\ Quiet(c) /\ ~Due(c)
           /\ ~Readable(c, from) /\ ~(c.acked < from.got)
<1> DEFINE s == Slot(e, from.kid)
<1>1. InStep /\ Undisturbed /\ Arrived(e) /\ Handled(e)
  BY DEF AtTick
<1>2. /\ Course(e, peer[e]) /\ Course(Other(e), peer[Other(e)])
      /\ Linked(e, peer[e], peer[Other(e)]) /\ peer[e] \in Calm
      /\ Running(e) /\ Running(Other(e)) /\ Other(e) \in Peer
  BY <1>1, InStepIs
<1>3. Usual(e, c) /\ Usual(Other(e), from)
  BY <1>2, CourseIs
<1>4. Pair(c, from)
  BY <1>2, LinkedIs
<1>5. Quiet(c) /\ ~Due(c)
  BY <1>1, <1>2 DEF Calm, Handled, Due
<1>6. from \in Senders(Other(e))
  <2>1. from.invalid = "NONE"
    BY <1>3, UsualIs
  <2> QED BY <1>2, <2>1 DEF Senders
<1>7. s # "none" /\ peer[e][s] = c
  <2>1. CASE c = peer[e].pri
    <3>1. s = "pri"
      BY <1>1, <2>1, SlotIs
    <3> QED BY <2>1, <3>1
  <2>2. CASE c = peer[e].sec
    <3>1. s = "sec"
      BY <1>1, <2>2, SlotIs
    <3> QED BY <2>2, <3>1
  <2> QED BY <2>1, <2>2
<1>8. peer[e][s].invalid = "NONE" /\ from.got <= Len(peer[e][s].out)
  <2>1. c.invalid = "NONE" /\ from.got <= Len(c.out)
    BY <1>3, <1>4, UsualIs DEF Pair
  <2> QED BY <1>7, <2>1
<1>9. ~CanReceive(e, from) /\ ~CanAck(e, from)
  BY <1>1, <1>6 DEF Arrived
<1>10. ~Readable(peer[e][s], from) /\ ~(peer[e][s].acked < from.got)
  <2> HIDE DEF s
  <2>1. CanReceive(e, from) <=> /\ Running(e) /\ s # "none" /\ peer[e][s].invalid = "NONE"
                                /\ Readable(peer[e][s], from)
    BY DEF CanReceive, s
  <2>2. CanAck(e, from) <=> /\ Running(e) /\ s # "none" /\ peer[e][s].invalid = "NONE"
                            /\ peer[e][s].acked < from.got /\ from.got <= Len(peer[e][s].out)
    BY DEF CanAck, s
  <2> QED BY <1>2, <1>7, <1>8, <1>9, <2>1, <2>2
<1> HIDE DEF s
<1>11. ~Readable(c, from) /\ ~(c.acked < from.got)
  BY <1>7, <1>10
<1> QED BY <1>3, <1>4, <1>5, <1>11

\* The server knows of each key that the client has asked for.
LEMMA NoneAhead ==
    ASSUME AtTick
    PROVE  peer[Client].nKeys = peer[Server].nKeys
<1> DEFINE o == peer[Client]
           p == peer[Server]
<1>1. /\ InStep /\ Undisturbed /\ Arrived(Server) /\ Together(o, p)
      /\ Server \in Peer /\ Client \in Peer /\ Other(Server) = Client
  BY PeerAssumption DEF AtTick, InStep, Peer, Other
<1>2. Course(Server, p) /\ Course(Client, o) /\ Running(Server) /\ Running(Client)
  BY <1>1, InStepIs
<1>3. ASSUME Ahead(o, p) PROVE FALSE
  <2> DEFINE from == o.sec
  <2>1. /\ o.nKeys = p.nKeys + 1 /\ from.num = o.nKeys /\ from.state = "WAIT_RESET"
        /\ from.acked = 0 /\ from.kid = p.upcoming
    BY <1>3 DEF Ahead
  <2>2. /\ p.pri.num \in Nat /\ p.sec.num \in Nat /\ p.nKeys \in Nat
        /\ p.pri.num <= p.nKeys /\ p.sec.num <= p.nKeys
    BY <1>2, CourseIs, NumbersAre
  <2>3. Defined(from)
    BY <2>1, <2>2 DEF Defined
  <2>4. Usual(Client, from) /\ from.invalid = "NONE"
    BY <1>2, <2>3, CourseIs, UsualIs
  <2>5. from \in Senders(Other(Server))
    BY <1>1, <1>2, <2>3, <2>4 DEF Senders
  <2>6. from.out # <<>> /\ from.out[1] = "RESET"
    <3>1. from.out = ResetSent
      BY <2>1, <2>4 DEF Usual, Shaken
    <3> QED BY <3>1, Letters
  <2>7. Slot(Server, from.kid) = "none"
    <3> DEFINE s == Slot(Server, from.kid)
    <3>1. s # "none" => s \in {"pri", "sec"} /\ peer[Server][s].num = from.num
      BY <1>1, <2>3, SlotIs
    <3> HIDE DEF s
    <3>2. p.pri.num # from.num /\ p.sec.num # from.num
      BY <2>1, <2>2
    <3>3. s = "none"
      BY <3>1, <3>2
    <3> QED BY <3>3 DEF s
  <2>8. CanSoftReset(Server, from)
    BY <1>2, <2>1, <2>6, <2>7 DEF CanSoftReset
  <2>9. ~CanSoftReset(Server, from)
    BY <1>1, <2>5 DEF Arrived
  <2> QED BY <2>8, <2>9
<1> QED BY <1>1, <1>3 DEF Together

\* A peer's newest key has an other end, and whatever was begun has been finished.
LEMMA NewestPair ==
    ASSUME AtTick, NEW e \in Peer
    PROVE  \E n \in {peer[e].pri, peer[e].sec}, m \in {peer[Other(e)].pri, peer[Other(e)].sec} :
             /\ Defined(n) /\ Defined(m) /\ Newest(peer[e], n) /\ Newest(peer[Other(e)], m)
             /\ n.num = m.num /\ n.num = peer[e].nKeys /\ n.age = m.age
             /\ n.state = "ACTIVE" /\ m.state = "ACTIVE"
<1>1. /\ Course(e, peer[e]) /\ Course(Other(e), peer[Other(e)]) /\ Other(e) \in Peer
      /\ Other(Other(e)) = e /\ (e = Client => Other(e) = Server)
      /\ (e # Client => e = Server /\ Other(e) = Client)
  BY InStepIs DEF AtTick, Other, Peer
<1>2. peer[e].nKeys = peer[Other(e)].nKeys
  BY <1>1, NoneAhead
<1>3. PICK n \in {peer[e].pri, peer[e].sec} :
        Usual(e, n) /\ Newest(peer[e], n) /\ n.num = peer[e].nKeys
  BY <1>1, Numbers
<1>4. PICK m \in {peer[Other(e)].pri, peer[Other(e)].sec} :
        Usual(Other(e), m) /\ Newest(peer[Other(e)], m) /\ m.num = peer[Other(e)].nKeys
  BY <1>1, Numbers
<1>5. Defined(n) /\ Defined(m) /\ n.num = m.num
  BY <1>2, <1>3, <1>4, UsualIs
<1>6. /\ Pair(n, m) /\ Quiet(n) /\ ~Readable(n, m) /\ ~(n.acked < m.got)
  BY <1>5, Delivered
<1>7. /\ Pair(m, n) /\ Quiet(m) /\ ~Readable(m, n) /\ ~(m.acked < n.got)
  BY <1>1, <1>5, Delivered
<1>8. n.state = "ACTIVE" /\ m.state = "ACTIVE"
  <2>1. CASE e = Client
    BY <1>1, <1>3, <1>4, <1>5, <1>6, <1>7, <2>1, HandshakeDone
  <2>2. CASE e # Client
    BY <1>1, <1>3, <1>4, <1>5, <1>6, <1>7, <2>2, HandshakeDone
  <2> QED BY <2>1, <2>2
<1> QED BY <1>3, <1>4, <1>5, <1>6, <1>8 DEF Pair

\* When time passes, no handshake is under way.
LEMMA AllActive ==
    ASSUME AtTick, NEW e \in Peer, NEW c \in {peer[e].pri, peer[e].sec}, Defined(c)
    PROVE  c.state = "ACTIVE"
<1>1. PICK n \in {peer[e].pri, peer[e].sec} : n.num = peer[e].nKeys /\ n.state = "ACTIVE"
  BY NewestPair
<1>2. Course(e, peer[e])
  BY InStepIs DEF AtTick
<1>3. c.state # "ACTIVE" => c.num = peer[e].nKeys
  BY <1>2, NewestNegotiates
<1>4. c.num = n.num => c = n
  BY <1>2, NumbersAre
<1> QED BY <1>1, <1>3, <1>4

\* The newest key of a peer is about to be used, or is.
LEMMA NewestIs ==
    ASSUME AtTick, NEW e \in Peer, NEW n \in {peer[e].pri, peer[e].sec}, Newest(peer[e], n)
    PROVE  Waits(e, n) \/ (Uses(e, n) /\ n = peer[e].pri)
<1> DEFINE p == peer[e]
<1>1. Course(e, p)
  BY InStepIs DEF AtTick
<1>2. n.num = p.nKeys /\ p.nKeys > 0 /\ p.nKeys \in Nat
  BY <1>1, NumbersAre DEF Newest
<1>3. n.state = "ACTIVE"
  BY <1>2, AllActive DEF Defined
<1>4. CASE Single(e, p)
  <2>1. n = p.pri
    BY <1>2, <1>4 DEF Single, NoKey
  <2> QED BY <1>3, <1>4, <2>1 DEF Single, Negotiates
<1>5. CASE Renewal(e, p)
  <2>1. n = p.sec
    BY <1>1, <1>2, <1>5, NumbersAre DEF Renewal, Follows, Newest
  <2> QED BY <1>3, <1>5, <2>1 DEF Renewal, Negotiates
<1>6. CASE Renewed(e, p)
  BY <1>1, <1>2, <1>6, NumbersAre DEF Renewed, Follows, Newest
<1> QED BY <1>1, <1>4, <1>5, <1>6 DEF Course

\* A client renews its key in time, and no later than it does the server's is in use.
LEMMA NewestAge ==
    ASSUME AtTick, NEW e \in Peer, NEW n \in {peer[e].pri, peer[e].sec}, Newest(peer[e], n)
    PROVE  n.age < RenegotiateSec
<1>1. ASSUME NEW m \in {peer[Client].pri, peer[Client].sec}, Newest(peer[Client], m), Defined(m)
      PROVE  m.age < RenegotiateSec
  <2>1. Client \in Peer /\ Course(Client, peer[Client]) /\ Handled(Client) /\ Running(Client)
    BY InStepIs DEF AtTick, Peer
  <2>2. Usual(Client, m) /\ ~Due(m)
    BY <1>1, <2>1, CourseIs DEF Handled
  <2>3. Waits(Client, m) \/ Uses(Client, m)
    BY <1>1, <2>1, NewestIs
  <2>4. CASE Waits(Client, m)
    BY <2>2, <2>4, WaitsSoon
  <2>5. CASE Uses(Client, m)
    BY <1>1, <2>2, <2>5, UsualIs, Durations, Constants DEF Uses, Due
  <2> QED BY <2>3, <2>4, <2>5
<1>2. PICK k \in {peer[e].pri, peer[e].sec}, m \in {peer[Other(e)].pri, peer[Other(e)].sec} :
        /\ Defined(k) /\ Defined(m) /\ Newest(peer[e], k) /\ Newest(peer[Other(e)], m)
        /\ k.num = peer[e].nKeys /\ k.age = m.age
  BY NewestPair
<1>3. k = n
  <2>1. Course(e, peer[e])
    BY InStepIs DEF AtTick
  <2> QED BY <1>2, <2>1, NumbersAre DEF Newest
<1>4. e = Client \/ Other(e) = Client
  BY DEF Other
<1> QED BY <1>1, <1>2, <1>3, <1>4

\* A client that waits for the server to use the key first has been told that it does.
LEMMA NonePending ==
    ASSUME AtTick, NEW e \in Peer, NEW n \in {peer[e].pri, peer[e].sec}, Newest(peer[e], n)
    PROVE  n.next # "PRIMARY_PENDING"
<1>1. SUFFICES ASSUME n.next = "PRIMARY_PENDING" PROVE FALSE
  OBVIOUS
<1>2. Waits(e, n) \/ (Uses(e, n) /\ n = peer[e].pri)
  BY NewestIs
<1>3. /\ e = Client /\ DataLimited = TRUE /\ n.green = FALSE /\ n.state = "ACTIVE"
      /\ n.age = BecomePrimary
  BY <1>1, <1>2 DEF Waits, Uses
<1>4. PICK k \in {peer[e].pri, peer[e].sec}, m \in {peer[Other(e)].pri, peer[Other(e)].sec} :
        /\ Defined(k) /\ Defined(m) /\ Newest(peer[e], k) /\ Newest(peer[Other(e)], m)
        /\ k.num = m.num /\ k.num = peer[e].nKeys /\ k.age = m.age /\ m.state = "ACTIVE"
  BY NewestPair
<1>5. /\ Course(e, peer[e]) /\ Other(e) \in Peer /\ Running(e) /\ Running(Other(e))
      /\ Other(e) # e /\ InStep /\ Undisturbed /\ Handled(Other(e)) /\ Arrived(e)
  BY InStepIs DEF AtTick
<1>6. k = n /\ Usual(e, n)
  BY <1>4, <1>5, NumbersAre, CourseIs DEF Newest
<1>7. m = peer[Other(e)].pri
  <2>1. Waits(Other(e), m) \/ (Uses(Other(e), m) /\ m = peer[Other(e)].pri)
    BY <1>4, <1>5, NewestIs
  <2>2. ~Waits(Other(e), m)
    <3>1. ~Due(m)
      BY <1>4, <1>5 DEF Handled
    <3>2. m.age = BecomePrimary
      BY <1>3, <1>4, <1>6
    <3> QED BY <1>3, <1>4, <1>5, <3>1, <3>2, Constants DEF Waits, Due
  <2> QED BY <2>1, <2>2
<1> DEFINE s == Slot(e, m.kid)
<1>8. s # "none" /\ peer[e][s] = n
  <2>1. CASE n = peer[e].pri
    <3>1. s = "pri"
      BY <1>4, <1>5, <1>6, <2>1, SlotIs
    <3> QED BY <2>1, <3>1
  <2>2. CASE n = peer[e].sec
    <3>1. s = "sec"
      BY <1>4, <1>5, <1>6, <2>2, SlotIs
    <3> QED BY <2>2, <3>1
  <2> QED BY <2>1, <2>2
<1>9. n.invalid = "NONE" /\ n.with = m.num
  BY <1>3, <1>4, <1>6, UsualIs
<1>10. CanTurnGreen(e)
  <2> HIDE DEF s
  <2>1. CanTurnGreen(e) <=>
          /\ DataLimited /\ Running(e) /\ Running(Other(e)) /\ m.state = "ACTIVE"
          /\ s # "none" /\ peer[e][s].invalid = "NONE" /\ peer[e][s].state = "ACTIVE"
          /\ peer[e][s].with = m.num /\ ~peer[e][s].green
    BY <1>7 DEF CanTurnGreen, s
  <2>2. peer[e][s].invalid = "NONE" /\ peer[e][s].state = "ACTIVE"
        /\ peer[e][s].with = m.num /\ ~peer[e][s].green /\ DataLimited
    BY <1>3, <1>8, <1>9
  <2> QED BY <1>4, <1>5, <1>8, <2>1, <2>2
<1> QED BY <1>5, <1>10 DEF Arrived

\* Contexts of age one more are still on their course.
LEMMA AgedCourse ==
    ASSUME AtTick, NEW e \in Peer
    PROVE  LET p == peer[e]
               q == [p EXCEPT !.pri = Older(@), !.sec = Older(@)]
           IN  /\ Course(e, q) /\ q \in Calm
               /\ q.pri = Older(p.pri) /\ q.sec = Older(p.sec) /\ q.nKeys = p.nKeys
<1> DEFINE p == peer[e]
           c == Older(p.pri)
           d == Older(p.sec)
           q == [p EXCEPT !.pri = Older(@), !.sec = Older(@)]
<1>1. /\ Course(e, p) /\ p \in Calm /\ Handled(e) /\ Running(e)
      /\ p \in Contexts /\ Usual(e, p.pri) /\ Defined(p.pri) /\ p.nKeys \in Nat
      /\ (p.sec = NoKey \/ Usual(e, p.sec)) /\ (Defined(p.sec) => Usual(e, p.sec))
  BY InStepIs, CourseIs DEF AtTick
<1>2. ~Due(p.pri) /\ ~Due(p.sec)
  BY <1>1 DEF Handled
<1>3. Quiet(p.pri) /\ (Defined(p.sec) => Quiet(p.sec))
  BY <1>1 DEF Calm
<1>4. \A x \in {p.pri, p.sec} : Newest(p, x) =>
        /\ Waits(e, x) \/ (Uses(e, x) /\ x = p.pri)
        /\ x.age < RenegotiateSec /\ x.next # "PRIMARY_PENDING"
  BY NewestIs, NewestAge, NonePending
<1>5. Defined(p.sec) => p.sec.state = "ACTIVE"
  BY AllActive
<1> HIDE DEF p
<1>6. /\ Usual(e, c) /\ c.num = p.pri.num /\ c.kid = p.pri.kid /\ c.age = p.pri.age + 1
      /\ c.state = p.pri.state /\ c.next = p.pri.next /\ c.due = p.pri.due
      /\ c.green = p.pri.green /\ Quiet(c)
  BY <1>1, <1>2, <1>3, OlderUsual
<1>7. ASSUME Usual(e, p.sec)
      PROVE  /\ Usual(e, d) /\ d.num = p.sec.num /\ d.kid = p.sec.kid /\ d.age = p.sec.age + 1
             /\ d.state = p.sec.state /\ d.next = p.sec.next /\ d.due = p.sec.due
             /\ d.green = p.sec.green /\ Quiet(d)
  <2>1. Quiet(p.sec)
    BY <1>3, <1>7, UsualIs
  <2> QED BY <1>2, <1>7, <2>1, OlderUsual
<1>8. p.sec = NoKey => d = NoKey
  BY NoKeyRank DEF Older
<1>9. /\ c \in Key /\ d \in Key \cup {NoKey}
  BY <1>1, <1>6, <1>7, <1>8, UsualIs
<1>10. q = [p EXCEPT !.pri = c, !.sec = d]
  BY <1>1 DEF Contexts
<1> HIDE DEF c, d, q
<1>11. /\ q \in Contexts /\ q.pri = c /\ q.sec = d /\ q.nKeys = p.nKeys
       /\ q.upcoming = p.upcoming
  BY <1>1, <1>9, <1>10 DEF Contexts
<1>12. q \in Calm
  <2>1. Defined(d) => Quiet(d)
    BY <1>1, <1>7, <1>8, NoKeyRank
  <2> QED BY <1>6, <1>11, <2>1 DEF Calm
<1>13. ASSUME NEW x, NEW y, Usual(e, x), y.age = x.age + 1, y.state = x.state,
              y.next = x.next, y.due = x.due, y.green = x.green, y.kid = x.kid, ~Due(x)
       PROVE  /\ Waits(e, x) /\ x.next # "PRIMARY_PENDING" => Waits(e, y)
              /\ Uses(e, x) /\ x.age < RenegotiateSec => Uses(e, y)
              /\ Leaves(x) => Leaves(y)
  <2>1. x.age \in Nat /\ x.due \in Nat /\ Defined(x)
    BY <1>13, UsualIs
  <2>2. ASSUME Waits(e, x), x.next # "PRIMARY_PENDING" PROVE Waits(e, y)
    <3>1. x.age < x.due
      BY <1>13, <2>1, <2>2 DEF Due, Waits
    <3> QED BY <1>13, <2>1, <2>2, <3>1, Constants DEF Waits
  <2>3. ASSUME Uses(e, x), x.age < RenegotiateSec PROVE Uses(e, y)
    BY <1>13, <2>1, <2>3, Constants DEF Uses
  <2>4. ASSUME Leaves(x) PROVE Leaves(y)
    BY <1>13, <2>4 DEF Leaves
  <2> QED BY <2>2, <2>3, <2>4
<1>14. Course(e, q)
  <2>1. CASE Single(e, p)
    <3>1. Newest(p, p.pri) /\ p.sec = NoKey /\ p.pri.age < RenegotiateSec
          /\ p.pri.next # "PRIMARY_PENDING"
      BY <1>4, <2>1 DEF Single
    <3>2. Newest(q, c) /\ q.sec = NoKey
      BY <1>6, <1>8, <1>11, <3>1 DEF Newest
    <3>3. Waits(e, p.pri) \/ Uses(e, p.pri)
      BY <1>4, <3>1
    <3>4. CASE Waits(e, p.pri)
      <4>1. p.nKeys = 1 /\ p.pri.kid = 0
        BY <2>1, <3>4 DEF Single, Waits, Uses
      <4>2. Waits(e, c)
        BY <1>1, <1>2, <1>6, <1>13, <3>1, <3>4
      <4>3. Single(e, q)
        BY <1>6, <1>11, <3>2, <4>1, <4>2 DEF Single
      <4> QED BY <1>6, <1>11, <4>3 DEF Course
    <3>5. CASE Uses(e, p.pri)
      <4>1. p.nKeys = 1
        <5>1. p.pri.age \in Nat
          BY <1>1, UsualIs
        <5>2. p.pri.age # RenegotiateSec
          BY <3>1, <5>1, Constants
        <5> QED BY <2>1, <5>2 DEF Single
      <4>2. Uses(e, c)
        BY <1>1, <1>2, <1>6, <1>13, <3>1, <3>5
      <4>3. Single(e, q)
        BY <1>11, <3>2, <4>1, <4>2 DEF Single
      <4> QED BY <1>6, <1>11, <4>3 DEF Course
    <3> QED BY <3>3, <3>4, <3>5
  <2>2. CASE Renewal(e, p)
    <3>1. Usual(e, p.sec) /\ Follows(p, p.sec, p.pri) /\ Newest(p, p.sec)
      BY <2>2 DEF Renewal, Follows
    <3>2. p.sec.state = "ACTIVE"
      BY <1>5, <3>1, UsualIs
    <3>3. Waits(e, p.sec) /\ Leaves(p.pri) /\ p.sec.next # "PRIMARY_PENDING"
      BY <1>4, <2>2, <3>1, <3>2 DEF Renewal, Negotiates
    <3>4. Waits(e, d) /\ Usual(e, d)
      BY <1>2, <1>7, <1>13, <3>1, <3>3
    <3>5. Leaves(c)
      BY <1>1, <1>2, <1>6, <1>13, <3>3
    <3>6. Follows(q, d, c)
      <4>1. p.sec.age \in Nat /\ p.pri.age \in Nat
        BY <1>1, <3>1, UsualIs
      <4> QED BY <1>6, <1>7, <1>11, <3>1, <4>1, Constants DEF Follows, Newest
    <3>7. Renewal(e, q)
      BY <1>11, <3>4, <3>5, <3>6 DEF Renewal
    <3> QED BY <1>6, <1>11, <3>7 DEF Course
  <2>3. CASE Renewed(e, p)
    <3>1. Usual(e, p.sec) /\ Follows(p, p.pri, p.sec) /\ Newest(p, p.pri)
          /\ Uses(e, p.pri) /\ Leaves(p.sec)
      BY <2>3 DEF Renewed, Follows
    <3>2. Uses(e, c)
      BY <1>1, <1>2, <1>4, <1>6, <1>13, <3>1
    <3>3. Leaves(d) /\ Usual(e, d)
      BY <1>2, <1>7, <1>13, <3>1
    <3>4. Follows(q, c, d)
      <4>1. p.sec.age \in Nat /\ p.pri.age \in Nat
        BY <1>1, <3>1, UsualIs
      <4> QED BY <1>6, <1>7, <1>11, <3>1, <4>1, Constants DEF Follows, Newest
    <3>5. Renewed(e, q)
      BY <1>11, <3>2, <3>3, <3>4 DEF Renewed
    <3> QED BY <1>6, <1>11, <3>5 DEF Course
  <2> QED BY <1>1, <2>1, <2>2, <2>3 DEF Course
<1> QED BY <1>11, <1>12, <1>14 DEF c, d, p, q

\* The passing of time keeps undisturbed peers in step.
LEMMA TickInStep ==
    ASSUME TypeOK, InStep, Undisturbed, Tick
    PROVE  InStep'
<1> DEFINE aged(e) == [peer[e] EXCEPT !.pri = Older(@), !.sec = Older(@)]
<1>1. up = TRUE
  BY DEF InStep
<1>2. AtTick
  BY <1>1 DEF AtTick, Tick
<1>3. peer' = [e \in Peer |-> aged(e)]
  BY DEF Tick
<1>4. ASSUME Undisturbed' PROVE up' = TRUE
  <2>1. outages = 0 /\ outages' = 0
    BY <1>4 DEF Undisturbed
  <2>2. up' = TRUE \/ outages' = outages + 1
    BY DEF Tick
  <2> QED BY <2>1, <2>2
<1>5. ASSUME NEW e \in Peer
      PROVE  /\ Course(e, aged(e)) /\ aged(e) \in Calm
             /\ aged(e).pri = Older(peer[e].pri) /\ aged(e).sec = Older(peer[e].sec)
             /\ aged(e).nKeys = peer[e].nKeys
  BY <1>2, AgedCourse
<1> HIDE DEF aged
<1>6. \A e \in Peer : peer'[e] = aged(e)
  BY <1>3
<1>7. \A e \in Peer : Course(e, peer'[e]) /\ peer'[e] \in Calm
  BY <1>5, <1>6
<1>8. /\ Client \in Peer /\ Server \in Peer /\ Together(peer[Client], peer[Server])
      /\ Other(Client) = Server /\ Other(Server) = Client
      /\ Course(Client, peer[Client]) /\ Course(Server, peer[Server])
  BY PeerAssumption DEF InStep, Peer, Other
<1>9. ASSUME NEW e \in Peer, NEW x \in {peer[e].pri, peer[e].sec}, Defined(Older(x))
      PROVE  /\ Defined(x) /\ Older(x).num = x.num /\ Older(x).kid = x.kid
             /\ Older(x).age = x.age + 1 /\ Older(x).acked = x.acked /\ Older(x).got = x.got
             /\ Older(x).out = x.out
  <2>1. Defined(x)
    BY <1>9 DEF Older
  <2>2. Usual(e, x)
    BY <2>1, InStepIs, CourseIs
  <2>3. ~Due(x)
    <3>1. Handled(e) /\ Running(e)
      BY <1>2, InStepIs DEF AtTick
    <3> QED BY <3>1 DEF Handled
  <2> QED BY <2>1, <2>2, <2>3, OlderUsual
<1>10. ASSUME NEW x \in {peer[Client].pri, peer[Client].sec},
              NEW y \in {peer[Server].pri, peer[Server].sec},
              Defined(Older(x)), Defined(Older(y)), Older(x).num = Older(y).num
       PROVE  Pair(Older(x), Older(y))
  <2>1. Defined(x) /\ Defined(y) /\ x.num = y.num
    BY <1>8, <1>9, <1>10
  <2>2. Pair(x, y)
    BY <1>8, <2>1 DEF Together
  <2> QED BY <1>8, <1>9, <1>10, <2>2 DEF Pair
<1>11. peer'[Client].nKeys = peer'[Server].nKeys
  BY <1>2, <1>5, <1>6, <1>8, NoneAhead
<1>12. Together(peer'[Client], peer'[Server])
  BY <1>5, <1>6, <1>8, <1>10, <1>11 DEF Together
<1> QED BY <1>4, <1>7, <1>12, InStepNext

\* The contexts that a peer starts with.
LEMMA FirstContexts ==
    ASSUME NEW e \in Peer
    PROVE  LET p == [pri |-> NewContext(1, 0, e = Client), sec |-> NoKey,
                     upcoming |-> 1, nKeys |-> 1, actives |-> 0]
           IN  /\ Course(e, p) /\ p \in Calm
               /\ p.sec = NoKey /\ p.nKeys = 1
               /\ p.pri.kid = 0 /\ p.pri.age = 0 /\ p.pri.acked = 0 /\ p.pri.got = 0
               /\ Len(p.pri.out) \in Nat
<1> DEFINE c == NewContext(1, 0, e = Client)
           out == IF e = Client THEN ResetSent ELSE NoneSent
           p == [pri |-> c, sec |-> NoKey, upcoming |-> 1, nKeys |-> 1, actives |-> 0]
<1>1. c \in Key
  <2>1. 1 \in Nat \ {0} /\ 0 \in 0 .. KeyIdMask /\ (e = Client) \in BOOLEAN
    BY Constants
  <2> QED BY <2>1, NewContextFacts
<1>2. /\ c.num = 1 /\ c.kid = 0 /\ c.state = "WAIT_RESET" /\ c.acked = 0
      /\ c.got = 0 /\ c.with = 0 /\ c.cur = "NONE" /\ c.next = "NEGOTIATE"
      /\ c.due = HandshakeWindow /\ c.age = 0 /\ c.invalid = "NONE" /\ c.fired = FALSE
      /\ c.out = out
  BY DEF NewContext, ResetSent, NoneSent
<1> HIDE DEF c
<1>3. Shaken(e, c)
  BY <1>2, Letters DEF Shaken
<1> HIDE DEF out
<1>4. Usual(e, c) /\ Negotiates(c) /\ Quiet(c)
  BY <1>1, <1>2, <1>3 DEF Usual, Negotiates, Quiet
<1>5. /\ p \in Contexts /\ p.pri = c /\ p.sec = NoKey /\ p.upcoming = 1 /\ p.nKeys = 1
  BY <1>1, Constants DEF Contexts
<1> HIDE DEF p
<1>6. NextKeyId(0) = 1
  BY Constants DEF NextKeyId
<1>7. Single(e, p)
  BY <1>2, <1>4, <1>5, <1>6 DEF Single, Newest
<1>8. Course(e, p)
  BY <1>4, <1>5, <1>7 DEF Course
<1>9. p \in Calm
  BY <1>4, <1>5, NoKeyRank DEF Calm
<1>10. Len(c.out) \in Nat
  BY <1>4, UsualIs
<1> QED BY <1>2, <1>5, <1>8, <1>9, <1>10 DEF p, c

\* So the peers begin,
LEMMA InitInStep ==
    ASSUME Init
    PROVE  InStep
<1> DEFINE p(e) == [pri |-> NewContext(1, 0, e = Client), sec |-> NoKey,
                    upcoming |-> 1, nKeys |-> 1, actives |-> 0]
<1>1. (Undisturbed => up = TRUE) /\ peer = [e \in Peer |-> p(e)]
  <2>1. (up = TRUE /\ outages = 0) \/ outages = 1
    BY DEF Init
  <2> QED BY <2>1 DEF Init, Undisturbed
<1>2. ASSUME NEW e \in Peer
      PROVE  /\ Course(e, p(e)) /\ p(e) \in Calm
             /\ p(e).sec = NoKey /\ p(e).nKeys = 1
             /\ p(e).pri.kid = 0 /\ p(e).pri.age = 0 /\ p(e).pri.acked = 0 /\ p(e).pri.got = 0
             /\ Len(p(e).pri.out) \in Nat
  BY FirstContexts
<1> HIDE DEF p
<1>3. /\ peer[Client] = p(Client) /\ peer[Server] = p(Server)
      /\ Client \in Peer /\ Server \in Peer /\ \A e \in Peer : peer[e] = p(e)
  BY <1>1 DEF Peer
<1> DEFINE c == peer[Client]
           s == peer[Server]
<1>4. /\ c.sec = NoKey /\ c.nKeys = 1 /\ c.pri.kid = 0 /\ c.pri.age = 0 /\ c.pri.acked = 0
      /\ c.pri.got = 0 /\ Len(c.pri.out) \in Nat
  BY <1>2, <1>3
<1>5. /\ s.sec = NoKey /\ s.nKeys = 1 /\ s.pri.kid = 0 /\ s.pri.age = 0 /\ s.pri.acked = 0
      /\ s.pri.got = 0 /\ Len(s.pri.out) \in Nat
  BY <1>2, <1>3
<1> HIDE DEF c, s
<1>6. Pair(c.pri, s.pri)
  BY <1>4, <1>5 DEF Pair
<1>7. Together(c, s)
  BY <1>4, <1>5, <1>6, NoKeyRank DEF Together
<1>8. \A e \in Peer : Course(e, peer[e]) /\ peer[e] \in Calm
  BY <1>2, <1>3
<1> QED BY <1>1, <1>7, <1>8 DEF InStep, c, s

\* and so they go on: only a tick and an exceeded limit disturb them.
LEMMA InStepStep ==
    ASSUME TypeOK, TypeOK', InStep, [Next]_vars
    PROVE  InStep'
<1>1. SUFFICES ASSUME Undisturbed' PROVE InStep'
  BY InStepNext DEF Undisturbed
<1>2. /\ outages \in Nat /\ limits \in Nat /\ outages' = 0 /\ limits' = 0
  BY <1>1 DEF TypeOK, Undisturbed
<1>3. CASE Tick
  <2>1. Undisturbed
    <3>1. outages = outages' \/ outages' = outages + 1
      BY <1>3 DEF Tick
    <3>2. limits' = limits
      BY <1>3 DEF Tick
    <3> QED BY <1>2, <3>1, <3>2 DEF Undisturbed
  <2> QED BY <1>3, <2>1, TickInStep
<1>4. CASE UNCHANGED vars
  <2>1. Undisturbed
    BY <1>1, <1>4 DEF Undisturbed, vars
  <2> QED BY <1>4, <2>1, InStepNext DEF InStep, vars
<1>5. ASSUME NEW e \in Peer, Housekeeping(e)
      PROVE  InStep'
  <2>1. Undisturbed
    BY <1>1, <1>5 DEF Undisturbed, Housekeeping
  <2> QED BY <1>5, <2>1, HousekeepingInStep
<1>6. ASSUME NEW e \in Peer, TurnGreen(e)
      PROVE  InStep'
  <2>1. Undisturbed
    BY <1>1, <1>6 DEF Undisturbed, TurnGreen
  <2> QED BY <1>6, <2>1, TurnGreenInStep
<1>7. ASSUME NEW e \in Peer, NEW s \in {"pri", "sec"}, LimitExceeded(e, s)
      PROVE  InStep'
  <2>1. limits' = limits + 1
    BY <1>7 DEF LimitExceeded
  <2> QED BY <1>2, <2>1
<1>8. ASSUME NEW e \in Peer, NEW c \in Senders(Other(e)), Receive(e, c)
      PROVE  InStep'
  <2>1. Undisturbed
    BY <1>1, <1>8 DEF Undisturbed, Receive
  <2> QED BY <1>8, <2>1, ReceiveInStep
<1>9. ASSUME NEW e \in Peer, NEW c \in Senders(Other(e)), SoftReset(e, c)
      PROVE  InStep'
  <2>1. Undisturbed
    BY <1>1, <1>9 DEF Undisturbed, SoftReset
  <2> QED BY <1>9, <2>1, SoftResetInStep
<1>10. ASSUME NEW e \in Peer, NEW c \in Senders(Other(e)), ReceiveAck(e, c)
      PROVE  InStep'
  <2>1. Undisturbed
    BY <1>1, <1>10 DEF Undisturbed, ReceiveAck
  <2> QED BY <1>10, <2>1, ReceiveAckInStep
<1> QED BY <1>3, <1>4, <1>5, <1>6, <1>7, <1>8, <1>9, <1>10 DEF Next

\* A primary that is not the first key has been negotiated some time ago.
LEMMA PrimaryUsed ==
    ASSUME NEW e, NEW p, Course(e, p), p.pri.num > 1
    PROVE  /\ p.pri.state = "ACTIVE" /\ p.pri.age \in Nat /\ p.pri.age > 0
           /\ p.pri.num = p.nKeys \/ (Renewal(e, p) /\ p.pri.num + 1 = p.nKeys)
<1>1. p.pri.age \in Nat /\ p.pri.num \in Nat /\ (Defined(p.sec) => p.sec.age \in Nat)
  BY CourseIs, UsualIs
<1>2. CASE Single(e, p)
  BY <1>1, <1>2, Constants DEF Single, Newest, Uses
<1>3. CASE Renewal(e, p)
  <2>1. p.sec.age \in Nat /\ Follows(p, p.sec, p.pri) /\ p.pri.state = "ACTIVE"
    BY <1>3, UsualIs DEF Renewal, Leaves, Uses
  <2> QED BY <1>1, <1>3, <2>1, Constants DEF Follows, Newest
<1>4. CASE Renewed(e, p)
  BY <1>1, <1>4, Constants DEF Renewed, Follows, Newest, Uses
<1> QED BY <1>2, <1>3, <1>4 DEF Course

\* The newest end of a server's key that the client has asked to replace is in use.
LEMMA AheadAge ==
    ASSUME NEW o, NEW p, Course(Client, o), Course(Server, p), Together(o, p), Ahead(o, p)
    PROVE  ~Renewal(Server, p)
<1>1. SUFFICES ASSUME Renewal(Server, p) PROVE FALSE
  OBVIOUS
<1>2. /\ o.nKeys = p.nKeys + 1 /\ o.sec.num = o.nKeys /\ o.sec.state = "WAIT_RESET"
      /\ o.nKeys \in Nat /\ p.nKeys \in Nat
  BY CourseIs DEF Ahead
<1>3. Defined(o.sec)
  BY <1>2 DEF Defined
<1>4. Renewal(Client, o) /\ o.sec.age = 0
  BY <1>2, <1>3, NewestNegotiates
<1>5. o.pri.num + 1 = o.sec.num /\ o.pri.age = RenegotiateSec
  BY <1>4, Constants DEF Renewal, Follows
<1>6. /\ Usual(Server, p.sec) /\ p.sec.num = p.nKeys
      /\ (Waits(Server, p.sec) \/ Negotiates(p.sec))
  BY <1>1 DEF Renewal, Follows, Newest
<1>7. p.sec.age \in Nat /\ p.sec.age < RenegotiateSec
  BY <1>6, UsualIs, WaitsSoon
<1>8. Defined(o.pri) /\ Defined(p.sec) /\ o.pri.num = p.sec.num
  <2>1. Defined(o.pri) /\ Defined(p.sec) /\ o.pri.num \in Nat
    BY <1>6, CourseIs, UsualIs
  <2> QED BY <1>2, <1>5, <1>6, <2>1
<1>9. Pair(o.pri, p.sec)
  BY <1>8 DEF Together
<1> QED BY <1>5, <1>7, <1>9, Constants DEF Pair

\* The other end of the key that a peer transmits on.
LEMMA TransmitEnd ==
    ASSUME InStep, Undisturbed, NEW e \in Peer, peer[e].pri.num > 1
    PROVE  \E m \in {peer[Other(e)].pri, peer[Other(e)].sec} :
             Defined(m) /\ m.num = peer[e].pri.num /\ m.state = "ACTIVE"
<1> DEFINE p == peer[e]
           o == peer[Other(e)]
           k == p.pri
           Goal == \E m \in {o.pri, o.sec} :
                     Defined(m) /\ m.num = k.num /\ m.state = "ACTIVE"
<1> SUFFICES Goal
  OBVIOUS
<1>1. /\ Course(e, p) /\ Course(Other(e), o) /\ Linked(e, p, o)
      /\ (e = Client => Other(e) = Server /\ Together(p, o))
      /\ (e # Client => e = Server /\ Other(e) = Client /\ Together(o, p))
  BY InStepIs DEF Other, Peer, Linked
<1> HIDE DEF p, o
<1>2. /\ k.state = "ACTIVE" /\ k.age \in Nat /\ k.age > 0
      /\ k.num = p.nKeys \/ (Renewal(e, p) /\ k.num + 1 = p.nKeys)
  BY <1>1, PrimaryUsed DEF p
<1>3. /\ p.nKeys \in Nat /\ o.nKeys \in Nat /\ k.num \in Nat /\ k.num > 1 /\ Defined(k)
      /\ p.sec.num # k.num
  BY <1>1, CourseIs, NumbersAre DEF p
<1>4. CASE o.nKeys = k.num
  <2>1. PICK m \in {o.pri, o.sec} : Usual(Other(e), m) /\ m.num = o.nKeys
    BY <1>1, Numbers
  <2>2. Defined(m)
    BY <2>1, UsualIs
  <2>3. Pair(k, m)
    BY <1>1, <1>3, <1>4, <2>1, <2>2, LinkedIs
  <2>4. m.age > 0
    BY <1>2, <2>3 DEF Pair
  <2>5. m.state = "ACTIVE"
    BY <1>1, <2>2, <2>4, NewestNegotiates
  <2> QED BY <1>4, <2>1, <2>2, <2>5
<1>5. CASE o.nKeys = k.num + 1
  <2>1. ~Single(Other(e), o)
    <3>1. SUFFICES ASSUME Single(Other(e), o) PROVE FALSE
      OBVIOUS
    <3>2. Other(e) = Server /\ o.pri.age = RenegotiateSec /\ o.pri.num = o.nKeys
      BY <1>3, <1>5, <3>1 DEF Single, Newest
    <3>3. e = Client /\ Together(p, o)
      BY <1>1, <3>2, PeerAssumption
    <3>4. p.nKeys = o.nKeys /\ Renewal(e, p)
      BY <1>2, <1>3, <1>5, <3>3 DEF Together, Ahead
    <3>5. /\ Usual(e, p.sec) /\ p.sec.num = p.nKeys
          /\ (Waits(e, p.sec) \/ Negotiates(p.sec))
      BY <3>4 DEF Renewal, Follows, Newest
    <3>6. p.sec.age \in Nat /\ p.sec.age < RenegotiateSec /\ Defined(p.sec)
      BY <3>5, UsualIs, WaitsSoon
    <3>7. Pair(p.sec, o.pri)
      BY <1>1, <3>2, <3>4, <3>5, <3>6, CourseIs, LinkedIs
    <3> QED BY <3>2, <3>6, <3>7, Constants DEF Pair
  <2>2. CASE Renewal(Other(e), o)
    <3>1. o.pri.num + 1 = o.nKeys /\ o.pri.state = "ACTIVE"
      BY <2>2 DEF Renewal, Follows, Newest, Leaves, Uses
    <3>2. o.pri.num \in Nat /\ Defined(o.pri)
      BY <1>1, CourseIs
    <3> QED BY <1>3, <1>5, <3>1, <3>2
  <2>3. CASE Renewed(Other(e), o)
    <3>1. o.sec.num + 1 = o.nKeys /\ o.sec.state = "ACTIVE" /\ Usual(Other(e), o.sec)
      BY <2>3 DEF Renewed, Follows, Newest, Leaves
    <3>2. o.sec.num \in Nat /\ Defined(o.sec)
      BY <3>1, UsualIs
    <3> QED BY <1>3, <1>5, <3>1, <3>2
  <2> QED BY <1>1, <2>1, <2>2, <2>3 DEF Course
<1>6. o.nKeys = k.num \/ o.nKeys = k.num + 1
  <2>1. CASE e = Client
    <3>1. p.nKeys = o.nKeys \/ (p.nKeys = o.nKeys + 1 /\ p.sec.num = p.nKeys)
      BY <1>1, <2>1 DEF Together, Ahead
    <3> QED BY <1>2, <1>3, <3>1
  <2>2. CASE e # Client
    <3>1. p.nKeys = o.nKeys \/ (o.nKeys = p.nKeys + 1 /\ ~Renewal(e, p))
      <4>1. Ahead(o, p) => ~Renewal(e, p)
        BY <1>1, <2>2, AheadAge
      <4> QED BY <1>1, <2>2, <4>1 DEF Together, Ahead
    <3> QED BY <1>2, <1>3, <3>1
  <2> QED BY <2>1, <2>2
<1> QED BY <1>4, <1>5, <1>6

\* What undisturbed peers give of the two properties.
LEMMA StepTransmits ==
    ASSUME InStep
    PROVE  TransmitKeyKnown
<1> SUFFICES ASSUME NEW e \in Peer, outages = 0, limits = 0, peer[e].pri.num > 1
             PROVE  LET k == peer[e].pri
                    IN  /\ k.state = "ACTIVE"
                        /\ \E c \in Senders(Other(e)) :
                             c.state = "ACTIVE" /\ c.kid = k.kid /\ c.with = k.num
                             /\ k.with = c.num
  BY DEF TransmitKeyKnown
<1> DEFINE k == peer[e].pri
<1>1. Undisturbed
  BY DEF Undisturbed
<1>2. /\ Course(e, peer[e]) /\ Course(Other(e), peer[Other(e)]) /\ Running(Other(e))
      /\ Linked(e, peer[e], peer[Other(e)])
  BY <1>1, InStepIs
<1>3. k.state = "ACTIVE"
  BY <1>2, PrimaryUsed
<1>4. PICK m \in {peer[Other(e)].pri, peer[Other(e)].sec} :
        Defined(m) /\ m.num = k.num /\ m.state = "ACTIVE"
  BY <1>1, TransmitEnd
<1>5. Usual(Other(e), m) /\ Usual(e, k) /\ Defined(k)
  BY <1>2, <1>4, CourseIs
<1>6. Pair(k, m)
  BY <1>2, <1>4, <1>5, LinkedIs
<1>7. m.with = m.num /\ k.with = k.num /\ m.invalid = "NONE"
  BY <1>3, <1>4, <1>5, UsualIs
<1>8. m \in Senders(Other(e))
  BY <1>2, <1>4, <1>7 DEF Senders
<1>9. m.kid = k.kid
  BY <1>6 DEF Pair
<1> HIDE DEF k
<1>10. \E c \in Senders(Other(e)) :
         c.state = "ACTIVE" /\ c.kid = k.kid /\ c.with = k.num /\ k.with = c.num
  BY <1>4, <1>7, <1>8, <1>9
<1> QED BY <1>3, <1>10 DEF k

LEMMA StepInTime ==
    ASSUME InStep, limits = 0
    PROVE  NegotiatedInTime
<1> SUFFICES ASSUME outages = 0, NEW e \in Peer, NEW c \in {peer[e].pri, peer[e].sec},
                    Defined(c), c.age >= HandshakeWindow
             PROVE  c.state = "ACTIVE"
  BY DEF NegotiatedInTime
<1>1. Undisturbed
  BY DEF Undisturbed
<1>2. Course(e, peer[e])
  BY <1>1, InStepIs
<1>3. c.state # "ACTIVE" => c.age = 0
  BY <1>2, NewestNegotiates
<1> QED BY <1>3, Constants

-----------------------------------------------------------------------------
(* The theorems. *)

\* Whatever the durations, outages and limits, and however often key IDs recur, the
\* contexts of both peers keep to their type: a primary is never missing, no
\* acknowledgement runs ahead of what was sent, a key is active only when agreed and
\* acknowledged, and a valid context always waits for something (validate_event(),
\* set_next_if_unspecified()).
THEOREM TypeCorrect == Spec => []TypeOK
<1>1. Init => TypeOK
  BY InitTypes
<1>2. TypeOK /\ [Next]_vars => TypeOK'
  BY TypeStep
<1> QED BY <1>1, <1>2, PTL DEF Spec

\* Where a handshake is given up before its key would expire, the loop of flush() and
\* process_events() ends, in at most MaxRounds rounds and with nothing left that is due,
\* whatever message, acknowledgement, data packet, limit or timer brought it about.
THEOREM FlushLoopEnds ==
    ASSUME HandshakeWindow < Expire
    PROVE  Spec => FlushEnds
<1>1. Init => TypeOK /\ Order
  BY InitTypes, InitOrder
<1>2. TypeOK /\ Order /\ [Next]_vars => TypeOK' /\ Order'
  BY TypeStep
<1>3. TypeOK /\ Order /\ [Next]_vars =>
        [\A e \in Peer : peer'[e] # peer[e] /\ time' = time => Idle(peer'[e])]_vars
  BY TypeStep
<1> QED BY <1>1, <1>2, <1>3, PTL DEF Spec, FlushEnds

\* As long as the network has not failed and no key limit has been exceeded, both peers
\* go from key to key on one course and together, however often key IDs recur: each has
\* the other end of the key the other has negotiated, at the same stage but for what is
\* still on its way, and only the client asks for another.  Proved by cases on the rounds
\* of flush() and on what a tick finds delivered.
THEOREM PeersInStep == Spec => []InStep
<1>1. Init => InStep
  BY InitInStep
<1>2. TypeOK /\ TypeOK' /\ InStep /\ [Next]_vars => InStep'
  BY InStepStep
<1> QED BY <1>1, <1>2, TypeCorrect, PTL DEF Spec

\* "we still wait for KEV_BECOME_PRIMARY event ... before we use it": whatever the
\* durations, a peer that transmits on a negotiated key has finished its handshake, and
\* the other peer has finished its own with the same key and key ID.
THEOREM TransmitKeyIsKnown == Spec => []TransmitKeyKnown
<1>1. InStep => TransmitKeyKnown
  BY StepTransmits
<1> QED BY <1>1, PeersInStep, PTL

\* "SSL/TLS negotiation must complete by this time": over a network that has not failed,
\* and as long as no key limit has been exceeded, a handshake is finished before
\* HandshakeWindow has passed, however short that is.  Only the client asks for one then.
THEOREM NegotiationInTime == Spec => [](limits = 0 => NegotiatedInTime)
<1>1. InStep => (limits = 0 => NegotiatedInTime)
  BY StepInTime
<1> QED BY <1>1, PeersInStep, PTL

\* So it is for good between peers that never exceed a limit.
THEOREM NegotiationInTimeUnlimited ==
    ASSUME Limited = {}
    PROVE  Spec => []NegotiatedInTime
<1>1. Init => limits = 0
  BY DEF Init
<1>2. limits = 0 /\ [Next]_vars => (limits = 0)'
  BY DEF Next, vars, Tick, Housekeeping, Receive, SoftReset, ReceiveAck, TurnGreen, LimitExceeded
<1> QED BY <1>1, <1>2, NegotiationInTime, PTL DEF Spec
=============================================================================
