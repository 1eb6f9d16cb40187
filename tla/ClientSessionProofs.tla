------------------------ MODULE ClientSessionProofs ------------------------
(***************************************************************************)
(* What ClientSession promises, for any number of sessions, replies, parts *)
(* and messages.  First, where each operation of PacketTunnel leaves the   *)
(* tunnel and what the system will have installed when it has done all     *)
(* that it was asked; then the sessions above it.                          *)
(***************************************************************************)
EXTENDS ClientSession, TLAPS

-----------------------------------------------------------------------------
(* The tunnel. *)

Staged(t) == {i \in DOMAIN t.requests : t.requests[i].next # "done"}

\* The settings that will be installed when nothing is left to apply: those of
\* the last request that has a second stage, or of the last request, or of none.
EndsAt(t, settings) ==
    \/ \E i \in Staged(t) :
          t.requests[i].next = settings /\ \A j \in Staged(t) : j <= i
    \/ Staged(t) = {} /\ t.requests # <<>> /\ t.requests[Len(t.requests)].set = settings
    \/ t.requests = <<>> /\ t.installed = settings

\* What Append, Head and Tail do, in the form that the provers take.
LEMMA Queue ==
    ASSUME NEW S, NEW q \in Seq(S)
    PROVE  /\ Len(q) \in Nat /\ DOMAIN q = 1 .. Len(q)
           /\ \A r \in S : /\ Append(q, r) \in Seq(S)
                           /\ Len(Append(q, r)) = Len(q) + 1
                           /\ DOMAIN Append(q, r) = 1 .. Len(q) + 1
                           /\ Append(q, r)[Len(q) + 1] = r
                           /\ \A i \in 1 .. Len(q) : Append(q, r)[i] = q[i]
           /\ q # <<>> => /\ Len(q) >= 1 /\ Head(q) = q[1] /\ Head(q) \in S
                          /\ Tail(q) \in Seq(S) /\ Len(Tail(q)) = Len(q) - 1
                          /\ DOMAIN Tail(q) = 1 .. Len(q) - 1
                          /\ \A i \in 1 .. Len(q) - 1 : Tail(q)[i] = q[i + 1]
           /\ Len(q) = 0 <=> q = <<>>
  OBVIOUS

\* A tunnel with other requests is otherwise the same.
LEMMA WithRequests ==
    ASSUME NEW t \in Tunnel, NEW q \in Requests
    PROVE  LET u == [t EXCEPT !.requests = q]
           IN  /\ u \in Tunnel /\ u.requests = q /\ u.installed = t.installed
               /\ u.persist = t.persist /\ u.bridge = t.bridge /\ u.made = t.made
               /\ u.sd = t.sd /\ u.options = t.options /\ u.io = t.io
  BY DEF Tunnel

\* A request in two stages decides where the settings end.
LEMMA RequestFacts ==
    ASSUME NEW t \in Tunnel, NEW settings \in SomeSettings
    PROVE  LET u == Request(t, NoSettings, settings)
           IN  /\ u \in Tunnel /\ EndsAt(u, settings)
               /\ u.persist = t.persist /\ u.bridge = t.bridge /\ u.made = t.made
               /\ u.sd = t.sd /\ u.options = t.options /\ u.io = t.io
<1> DEFINE q == t.requests
           r == [set |-> NoSettings, next |-> settings]
           u == Request(t, NoSettings, settings)
           S == [set : SomeSettings, next : SomeSettings \cup {"done"}]
<1>1. NoSettings \in SomeSettings /\ settings # "done"
  BY SettingsAssumption DEF SomeSettings
<1>2. r \in S /\ r.next = settings
  BY <1>1
<1>3. q \in Seq(S) /\ Requests = Seq(S)
  BY DEF Tunnel, Requests
<1>4. u = [t EXCEPT !.requests = Append(q, r)]
  BY DEF Request
<1> HIDE DEF S, q, r, u
<1>5. /\ Append(q, r) \in Requests /\ DOMAIN Append(q, r) = 1 .. Len(q) + 1 /\ Len(q) \in Nat
      /\ Append(q, r)[Len(q) + 1] = r
  BY <1>2, <1>3, Queue
<1>6. NoSettings \in SomeSettings
  BY <1>1
<1>7. /\ u \in Tunnel /\ u.requests = Append(q, r)
      /\ u.persist = t.persist /\ u.bridge = t.bridge /\ u.made = t.made
      /\ u.sd = t.sd /\ u.options = t.options /\ u.io = t.io
  BY <1>4, <1>5, <1>6, WithRequests
<1>8. Len(q) + 1 \in Staged(u) /\ \A j \in Staged(u) : j <= Len(q) + 1
  BY <1>1, <1>2, <1>5, <1>7 DEF Staged
<1>9. EndsAt(u, settings)
  BY <1>2, <1>5, <1>7, <1>8 DEF EndsAt
<1> QED BY <1>7, <1>9 DEF u

\* Applying a request changes nothing of where the tunnel ends.
LEMMA ApplyFacts ==
    ASSUME NEW t \in Tunnel, t.requests # <<>>
    PROVE  LET u == ApplyNext(t)
           IN  /\ u \in Tunnel
               /\ u.persist = t.persist /\ u.bridge = t.bridge /\ u.made = t.made
               /\ u.sd = t.sd /\ u.options = t.options /\ u.io = t.io
               /\ \A settings : EndsAt(t, settings) => EndsAt(u, settings)
<1> DEFINE q == t.requests
           u == ApplyNext(t)
           next == Head(q).next
           second == [set |-> next, next |-> "done"]
           d == [t EXCEPT !.installed = Head(q).set, !.requests = Tail(q)]
           S == [set : SomeSettings, next : SomeSettings \cup {"done"}]
<1>1. q \in Seq(S) /\ q # <<>> /\ Requests = Seq(S)
  BY DEF Tunnel, Requests
<1> HIDE DEF S
<1>2. /\ Len(q) \in Nat /\ Len(q) >= 1 /\ Head(q) = q[1] /\ DOMAIN q = 1 .. Len(q)
      /\ Head(q) \in S
      /\ Tail(q) \in Seq(S) /\ Len(Tail(q)) = Len(q) - 1 /\ DOMAIN Tail(q) = 1 .. Len(q) - 1
      /\ \A i \in 1 .. Len(q) - 1 : Tail(q)[i] = q[i + 1]
  BY <1>1, Queue
<1>a. Head(q).set \in SomeSettings /\ next \in SomeSettings \cup {"done"}
  BY <1>2 DEF S
<1>b. Tail(q) \in Requests
  BY <1>1, <1>2
<1> HIDE DEF q
<1>3. /\ d \in Tunnel /\ d.requests = Tail(q) /\ d.installed = Head(q).set
      /\ d.persist = t.persist /\ d.bridge = t.bridge /\ d.made = t.made
      /\ d.sd = t.sd /\ d.options = t.options /\ d.io = t.io
  BY <1>a, <1>b DEF d, Tunnel
<1> HIDE DEF d
<1>4. CASE next = "done"
  <2>1. u = d
    BY <1>4 DEF ApplyNext, d, q
  <2>2. ASSUME NEW settings, EndsAt(t, settings)
        PROVE  EndsAt(d, settings)
    <3>1. \A i \in 1 .. Len(q) - 1 : i \in Staged(d) <=> i + 1 \in Staged(t)
      BY <1>2, <1>3 DEF Staged, q
    <3>2. Staged(d) \subseteq 1 .. Len(q) - 1 /\ Staged(t) \subseteq 1 .. Len(q)
      BY <1>2, <1>3 DEF Staged, q
    <3>3. 1 \notin Staged(t)
      BY <1>2, <1>4 DEF Staged, q
    <3>4. CASE \E i \in Staged(t) :
                 t.requests[i].next = settings /\ \A j \in Staged(t) : j <= i
      <4>1. PICK i \in Staged(t) :
                 t.requests[i].next = settings /\ \A j \in Staged(t) : j <= i
        BY <3>4
      <4>2. i - 1 \in 1 .. Len(q) - 1 /\ i = (i - 1) + 1
        BY <1>2, <3>2, <3>3, <4>1
      <4>3. i - 1 \in Staged(d) /\ d.requests[i - 1].next = settings
        BY <1>2, <1>3, <3>1, <4>1, <4>2 DEF q
      <4>4. \A j \in Staged(d) : j <= i - 1
        BY <1>2, <3>1, <3>2, <4>1, <4>2
      <4> QED BY <4>3, <4>4 DEF EndsAt
    <3>5. CASE Staged(t) = {} /\ q[Len(q)].set = settings
      <4>1. Staged(d) = {}
        BY <1>2, <3>1, <3>2, <3>5
      <4>2. CASE Len(q) = 1
        <5>1. d.requests = <<>>
          BY <1>2, <1>3, <4>2, Queue
        <5> QED BY <1>2, <1>3, <3>5, <4>2, <5>1 DEF EndsAt
      <4>3. CASE Len(q) > 1
        <5>1. Len(q) - 1 \in 1 .. Len(q) - 1
          BY <1>2, <4>3
        <5>2. d.requests # <<>>
          <6>1. d.requests \in Seq(S) /\ Len(d.requests) # 0
            BY <1>2, <1>3, <4>3
          <6> QED BY <6>1, Queue
        <5>3. d.requests[Len(d.requests)] = q[Len(q)]
          BY <1>2, <1>3, <5>1
        <5> QED BY <3>5, <4>1, <5>2, <5>3 DEF EndsAt
      <4> QED BY <1>2, <4>2, <4>3
    <3> QED BY <1>1, <2>2, <3>4, <3>5 DEF EndsAt, q
  <2> QED BY <1>3, <2>1, <2>2
<1>5. CASE next # "done"
  <2>1. u = [d EXCEPT !.requests = Append(Tail(q), second)]
    <3>1. u = [d EXCEPT !.requests = Append(d.requests, second)]
      BY <1>5 DEF ApplyNext, Request, d, q
    <3> QED BY <1>3, <3>1
  <2>2. second \in S /\ second.set = next /\ second.next = "done"
    BY <1>a, <1>5 DEF S
  <2> HIDE DEF second, u
  <2>3. /\ Append(Tail(q), second) \in Requests
        /\ Len(Append(Tail(q), second)) = Len(q) /\ DOMAIN Append(Tail(q), second) = 1 .. Len(q)
        /\ Append(Tail(q), second)[Len(q)] = second
        /\ \A i \in 1 .. Len(q) - 1 : Append(Tail(q), second)[i] = q[i + 1]
    <3>1. Len(Tail(q)) + 1 = Len(q)
      BY <1>2
    <3> QED BY <1>1, <1>2, <2>2, <3>1, Queue
  <2>4. d.installed \in SomeSettings
    BY <1>3, <1>a
  <2>5. /\ u \in Tunnel /\ u.requests = Append(Tail(q), second)
        /\ u.persist = t.persist /\ u.bridge = t.bridge /\ u.made = t.made
        /\ u.sd = t.sd /\ u.options = t.options /\ u.io = t.io
    BY <1>3, <2>1, <2>3, <2>4, WithRequests
  <2>6. ASSUME NEW settings, EndsAt(t, settings)
        PROVE  EndsAt(u, settings)
    <3>1. \A i \in 1 .. Len(q) - 1 : i \in Staged(u) <=> i + 1 \in Staged(t)
      BY <1>2, <2>3, <2>5 DEF Staged, q
    <3>2. Staged(u) \subseteq 1 .. Len(q) - 1 /\ Staged(t) \subseteq 1 .. Len(q)
      BY <1>2, <2>2, <2>3, <2>5 DEF Staged, q
    <3>3. 1 \in Staged(t)
      BY <1>2, <1>5 DEF Staged, q
    <3>4. PICK i \in Staged(t) :
               t.requests[i].next = settings /\ \A j \in Staged(t) : j <= i
      BY <1>1, <2>6, <3>3 DEF EndsAt, q
    <3>5. CASE i = 1
      <4>1. Staged(u) = {}
        BY <1>2, <3>1, <3>2, <3>4, <3>5
      <4>2. u.requests # <<>> /\ u.requests[Len(u.requests)].set = settings
        <5>1. u.requests[Len(u.requests)].set = settings
          BY <1>2, <2>2, <2>3, <2>5, <3>4, <3>5 DEF q
        <5>2. u.requests \in Seq(S) /\ Len(u.requests) # 0
          BY <1>1, <1>2, <2>3, <2>5
        <5> QED BY <5>1, <5>2, Queue
      <4> QED BY <4>1, <4>2 DEF EndsAt
    <3>6. CASE i # 1
      <4>1. i - 1 \in 1 .. Len(q) - 1 /\ i = (i - 1) + 1
        BY <1>2, <3>2, <3>4, <3>6
      <4>2. i - 1 \in Staged(u) /\ u.requests[i - 1].next = settings
        BY <2>3, <2>5, <3>1, <3>4, <4>1 DEF q
      <4>3. \A j \in Staged(u) : j <= i - 1
        BY <1>2, <3>1, <3>2, <3>4, <4>1
      <4> QED BY <4>2, <4>3 DEF EndsAt
    <3> QED BY <3>5, <3>6
  <2> QED BY <2>5, <2>6 DEF u
<1> QED BY <1>4, <1>5

-----------------------------------------------------------------------------
(* The tunnel and a session: up says that a connection is made and has not      *)
(* ended, pushes what its server pushed, over that no other will be made.       *)

TunFollows(t, up, pushes, over) ==
    /\ up <=> t.io # 0
    /\ t.io # 0 => t.io = t.bridge
    /\ t.sd # 0 => t.sd = t.bridge
    /\ t.persist /\ t.sd # 0 => EndsAt(t, t.options)
    /\ up => EndsAt(t, pushes)
    /\ ~t.persist /\ ~up => EndsAt(t, NoSettings)
    /\ over => EndsAt(t, NoSettings)

\* EndsAt looks at what is installed and asked for alone.
LEMMA EndsAtSame ==
    ASSUME NEW t, NEW u, u.requests = t.requests, u.installed = t.installed,
           NEW settings, EndsAt(t, settings)
    PROVE  EndsAt(u, settings)
  BY DEF EndsAt, Staged

\* resetTun lets go of the bridge and asks for the device's own network.
LEMMA ResetFacts ==
    ASSUME NEW t \in Tunnel
    PROVE  LET u == ResetTun(t)
           IN  /\ u \in Tunnel /\ EndsAt(u, NoSettings)
               /\ u.persist = t.persist /\ u.bridge = 0 /\ u.made = t.made
               /\ u.sd = t.sd /\ u.options = t.options /\ u.io = t.io
<1> DEFINE d == [t EXCEPT !.bridge = 0]
<1>1. /\ d \in Tunnel /\ d.persist = t.persist /\ d.bridge = 0 /\ d.made = t.made
      /\ d.sd = t.sd /\ d.options = t.options /\ d.io = t.io
  BY DEF Tunnel
<1>2. NoSettings \in SomeSettings
  BY DEF SomeSettings
<1> HIDE DEF d
<1>3. ResetTun(t) = Request(d, NoSettings, NoSettings)
  BY DEF ResetTun, ConfigureTunnel, d
<1> QED BY <1>1, <1>2, <1>3, RequestFacts

\* establishTunnel leaves a bridge and asks for the settings.
LEMMA EstablishedFacts ==
    ASSUME NEW t \in Tunnel, NEW settings \in SomeSettings
    PROVE  LET u == Established(t, settings)
           IN  /\ u \in Tunnel /\ EndsAt(u, settings)
               /\ u.persist = t.persist /\ u.bridge # 0
               /\ u.sd = t.sd /\ u.options = t.options /\ u.io = t.io
<1> DEFINE r == ResetTun(t)
           d == [r EXCEPT !.made = @ + 1, !.bridge = r.made + 1]
<1>1. /\ r \in Tunnel /\ r.persist = t.persist
      /\ r.sd = t.sd /\ r.options = t.options /\ r.io = t.io
  BY ResetFacts
<1> HIDE DEF r
<1> DEFINE n == r.made + 1
<1>a. n \in Nat \ {0}
  BY <1>1 DEF Tunnel
<1>2. /\ d \in Tunnel /\ d.persist = r.persist /\ d.bridge # 0
      /\ d.sd = r.sd /\ d.options = r.options /\ d.io = r.io
  <2> HIDE DEF n
  <2>1. d = [r EXCEPT !.made = n, !.bridge = n]
    BY DEF n
  <2> HIDE DEF d
  <2> QED BY <1>1, <1>a, <2>1 DEF Tunnel
<1>3. Established(t, settings) = Request(d, NoSettings, settings)
  BY DEF Established, EstablishTunnel, ConfigureTunnel, r
<1> HIDE DEF d
<1> QED BY <1>1, <1>2, <1>3, RequestFacts

\* TunPersist lets go of the descriptor and asks for the device's own network.
LEMMA TeardownFacts ==
    ASSUME NEW t \in Tunnel
    PROVE  LET u == Teardown(t)
           IN  /\ u \in Tunnel /\ EndsAt(u, NoSettings)
               /\ u.persist = t.persist /\ u.sd = 0 /\ u.io = t.io
<1> DEFINE d == [t EXCEPT !.sd = 0, !.options = NoSettings]
<1>1. /\ d \in Tunnel /\ d.persist = t.persist /\ d.sd = 0 /\ d.io = t.io
  BY DEF Tunnel, SomeSettings
<1>2. Teardown(t) = ResetTun(d)
  BY DEF Teardown
<1> HIDE DEF d
<1> QED BY <1>1, <1>2, ResetFacts

\* The end of the tun client, whatever the tunnel is for.
LEMMA TunStopFacts ==
    ASSUME NEW t \in Tunnel
    PROVE  LET u == TunStop(t)
           IN  /\ u \in Tunnel /\ u.persist = t.persist /\ u.io = 0
               /\ t.persist => /\ u.bridge = t.bridge /\ u.sd = t.sd
                               /\ u.options = t.options
                               /\ \A settings : EndsAt(t, settings) => EndsAt(u, settings)
               /\ ~t.persist => u.sd = 0 /\ EndsAt(u, NoSettings)
<1> DEFINE d == [t EXCEPT !.io = 0]
<1>1. /\ d \in Tunnel /\ d.persist = t.persist /\ d.sd = t.sd /\ d.io = 0
      /\ d.bridge = t.bridge /\ d.options = t.options
      /\ d.requests = t.requests /\ d.installed = t.installed
  BY DEF Tunnel
<1>2. TunStop(t) = IF t.persist THEN d ELSE Teardown(d)
  BY DEF TunStop
<1> HIDE DEF d
<1>3. \A settings : EndsAt(t, settings) => EndsAt(d, settings)
  BY <1>1, EndsAtSame
<1> QED BY <1>1, <1>2, <1>3, TeardownFacts

\* A session that is no longer up, and may be the last.
Down(t, up, over) ==
    LET u == IF up THEN TunStop(t) ELSE t IN IF over THEN Finalize(u) ELSE u

\* A session that goes down leaves a tunnel that follows it.
LEMMA DownFollows ==
    ASSUME NEW t \in Tunnel, NEW up \in BOOLEAN, NEW over \in BOOLEAN,
           NEW pushes, TunFollows(t, up, pushes, FALSE)
    PROVE  /\ Down(t, up, over) \in Tunnel /\ Down(t, up, over).persist = t.persist
           /\ \A other : TunFollows(Down(t, up, over), FALSE, other, over)
<1> DEFINE u == IF up THEN TunStop(t) ELSE t
<1>1. /\ u \in Tunnel /\ u.persist = t.persist /\ u.io = 0
      /\ t.persist => /\ u.bridge = t.bridge /\ u.sd = t.sd /\ u.options = t.options
                      /\ \A settings : EndsAt(t, settings) => EndsAt(u, settings)
      /\ ~t.persist => EndsAt(u, NoSettings) /\ (u.sd # 0 => u.sd = u.bridge)
  BY TunStopFacts DEF TunFollows
<1>2. u.persist /\ u.sd # 0 => u.sd = u.bridge /\ EndsAt(u, u.options)
  BY <1>1 DEF TunFollows
<1>3. Down(t, up, over) = IF over /\ u.persist THEN Teardown(u) ELSE u
  BY DEF Down, Finalize
<1> HIDE DEF u
<1>4. CASE over /\ u.persist
  <2>1. Down(t, up, over) = Teardown(u)
    BY <1>3, <1>4
  <2>2. /\ Down(t, up, over) \in Tunnel /\ EndsAt(Down(t, up, over), NoSettings)
        /\ Down(t, up, over).persist = u.persist /\ Down(t, up, over).sd = 0
        /\ Down(t, up, over).io = 0
    BY <1>1, <2>1, TeardownFacts
  <2> QED BY <1>1, <1>4, <2>2 DEF TunFollows
<1>5. CASE ~(over /\ u.persist)
  <2>1. Down(t, up, over) = u
    BY <1>3, <1>5
  <2>2. \A other : TunFollows(u, FALSE, other, over)
    BY <1>1, <1>2, <1>5 DEF TunFollows, Tunnel
  <2> QED BY <1>1, <2>1, <2>2
<1> QED BY <1>4, <1>5

\* So does one that connects, over a new device or one that was kept.
LEMMA ConnectedFollows ==
    ASSUME NEW t \in Tunnel, NEW settings \in Settings, NEW pushes,
           TunFollows(t, FALSE, pushes, FALSE)
    PROVE  /\ TunConnected(t, settings) \in Tunnel
           /\ TunConnected(t, settings).persist = t.persist
           /\ TunFollows(TunConnected(t, settings), TRUE, settings, FALSE)
<1> DEFINE c == TunConnected(t, settings)
<1>1. CASE UsePersistedTun(t, settings)
  <2>1. c = [t EXCEPT !.io = t.sd]
    BY <1>1 DEF TunConnected
  <2>2. /\ c \in Tunnel /\ c.persist = t.persist /\ c.io = t.sd /\ c.sd = t.sd
        /\ c.bridge = t.bridge /\ c.options = t.options
        /\ c.requests = t.requests /\ c.installed = t.installed
    BY <2>1 DEF Tunnel
  <2>3. t.persist /\ t.sd # 0 /\ t.options = settings
    BY <1>1 DEF UsePersistedTun
  <2>4. EndsAt(t, settings)
    BY <2>3 DEF TunFollows
  <2>5. EndsAt(c, settings)
    BY <2>2, <2>4, EndsAtSame
  <2> QED BY <2>2, <2>3, <2>5 DEF TunFollows
<1>2. CASE ~UsePersistedTun(t, settings)
  <2> DEFINE e == Established(t, settings)
             options == IF t.persist THEN settings ELSE NoSettings
  <2>1. settings \in SomeSettings /\ options \in SomeSettings
    BY DEF SomeSettings
  <2>2. c = [e EXCEPT !.sd = e.bridge, !.io = e.bridge, !.options = options]
    BY <1>2 DEF TunConnected
  <2>3. /\ e \in Tunnel /\ EndsAt(e, settings) /\ e.persist = t.persist /\ e.bridge # 0
    BY <2>1, EstablishedFacts
  <2> HIDE DEF e
  <2>4. /\ c \in Tunnel /\ c.persist = e.persist /\ c.io = e.bridge /\ c.sd = e.bridge
        /\ c.bridge = e.bridge /\ c.options = options
        /\ c.requests = e.requests /\ c.installed = e.installed
    BY <2>1, <2>2, <2>3 DEF Tunnel
  <2>5. EndsAt(c, settings)
    BY <2>3, <2>4, EndsAtSame
  <2> HIDE DEF c
  <2>6. c.persist => c.options = settings
    BY <2>3, <2>4
  <2>7. TunFollows(c, TRUE, settings, FALSE)
    BY <2>3, <2>4, <2>5, <2>6 DEF TunFollows
  <2> QED BY <2>3, <2>4, <2>7 DEF c
<1> QED BY <1>1, <1>2

\* A tun that fails ends the client: the adapter refused an option ...
LEMMA RefusedFollows ==
    ASSUME NEW t \in Tunnel, NEW pushes, t.io = 0
    PROVE  LET u == Down(TunSetupFailed(t), FALSE, TRUE)
           IN  u \in Tunnel /\ u.persist = t.persist /\ TunFollows(u, FALSE, pushes, TRUE)
<1> DEFINE r == ResetTun(t)
           d == Teardown(r)
           u == TunStop(d)
<1>1. r \in Tunnel /\ r.persist = t.persist /\ r.io = 0
  BY ResetFacts
<1> HIDE DEF r
<1>2. d \in Tunnel /\ d.persist = t.persist /\ d.sd = 0 /\ EndsAt(d, NoSettings)
  BY <1>1, TeardownFacts
<1> HIDE DEF d
<1>3. /\ u \in Tunnel /\ u.persist = t.persist /\ u.io = 0 /\ u.sd = 0
      /\ EndsAt(u, NoSettings)
  BY <1>2, TunStopFacts
<1>4. TunSetupFailed(t) = u
  BY DEF TunSetupFailed, r, d
<1> HIDE DEF u
<1>5. Down(u, FALSE, TRUE) = IF u.persist THEN Teardown(u) ELSE u
  BY DEF Down, Finalize
<1>6. TunFollows(u, FALSE, pushes, TRUE)
  BY <1>3 DEF TunFollows
<1>7. /\ Teardown(u) \in Tunnel /\ Teardown(u).persist = t.persist
      /\ Teardown(u).io = 0 /\ Teardown(u).sd = 0 /\ EndsAt(Teardown(u), NoSettings)
  BY <1>3, TeardownFacts
<1>8. TunFollows(Teardown(u), FALSE, pushes, TRUE)
  BY <1>7 DEF TunFollows
<1> QED BY <1>3, <1>4, <1>5, <1>6, <1>7, <1>8

\* ... or the sockets of the bridge, after the settings were asked for.
LEMMA SocketsFailedFollows ==
    ASSUME NEW t \in Tunnel, NEW settings \in Settings, NEW pushes
    PROVE  LET u == Down(Established(t, settings), TRUE, TRUE)
           IN  u \in Tunnel /\ u.persist = t.persist /\ TunFollows(u, FALSE, pushes, TRUE)
<1> DEFINE e == Established(t, settings)
           u == TunStop(e)
<1>1. e \in Tunnel /\ e.persist = t.persist
  BY EstablishedFacts DEF SomeSettings
<1> HIDE DEF e
<1>2. /\ u \in Tunnel /\ u.persist = t.persist /\ u.io = 0
      /\ ~u.persist => u.sd = 0 /\ EndsAt(u, NoSettings)
  BY <1>1, TunStopFacts
<1>3. Down(e, TRUE, TRUE) = IF u.persist THEN Teardown(u) ELSE u
  BY DEF Down, Finalize
<1> HIDE DEF u
<1>4. /\ Teardown(u) \in Tunnel /\ Teardown(u).persist = t.persist
      /\ Teardown(u).io = 0 /\ Teardown(u).sd = 0 /\ EndsAt(Teardown(u), NoSettings)
  BY <1>2, TeardownFacts
<1>5. TunFollows(Teardown(u), FALSE, pushes, TRUE)
  BY <1>4 DEF TunFollows
<1>6. CASE u.persist
  BY <1>3, <1>4, <1>5, <1>6 DEF e
<1>7. CASE ~u.persist
  <2>1. TunFollows(u, FALSE, pushes, TRUE)
    BY <1>2, <1>7 DEF TunFollows
  <2> QED BY <1>2, <1>3, <1>7, <2>1 DEF e
<1> QED BY <1>6, <1>7

\* The system changes what is installed, never where the settings end.
LEMMA ApplyFollows ==
    ASSUME NEW t \in Tunnel, t.requests # <<>>, NEW up, NEW pushes, NEW over,
           TunFollows(t, up, pushes, over)
    PROVE  /\ ApplyNext(t) \in Tunnel /\ ApplyNext(t).persist = t.persist
           /\ TunFollows(ApplyNext(t), up, pushes, over)
  BY ApplyFacts DEF TunFollows

-----------------------------------------------------------------------------
(* The sessions. *)

\* The types, but for the length of the options.
SessionTypes ==
    [num : 1 .. MaxSessions, halt : BOOLEAN, begun : BOOLEAN, heard : BOOLEAN,
     active : BOOLEAN, invalid : BOOLEAN, options : Seq(1 .. Parts),
     connected : BOOLEAN, tun : BOOLEAN, armed : SUBSET Timer, due : SUBSET Timer,
     holding : BOOLEAN, held : Seq(1 .. MaxInfo), shown : Seq(1 .. MaxInfo),
     told : Seq(Callback)]

Typed ==
    /\ session \in SessionTypes /\ server \in Server /\ tunnel \in Tunnel
    /\ batch \in 0 .. Len(server.wire)
    /\ stopped \in BOOLEAN

\* How the stages of a session depend on one another.
Stages ==
    /\ session.active => session.heard
    /\ session.connected => session.heard /\ Complete(session)
    /\ batch > 0 => session.active
    /\ session.halt /\ batch > 0 => Complete(session)
    /\ stopped => session.halt
    /\ session.tun <=> session.connected /\ ~session.halt
    /\ "hold" \in session.armed \cup session.due => session.connected
    /\ IF session.holding THEN session.shown = <<>>
       ELSE session.connected /\ session.held = <<>>

TunnelFollows ==
    TunFollows(tunnel, session.connected /\ ~session.halt, server.pushes, stopped)

Pushes(m) == m.kind = "PUSH_REPLY"

\* The parts of a reply are received in order, none twice; on the wire they are
\* next to one another, and what comes first goes on from what was received.
Replies ==
    LET w == server.wire
        k == Len(session.options)
    IN  /\ k <= Parts
        /\ \A i \in 1 .. k : session.options[i] = i
        /\ \A i \in 1 .. Len(w) : Pushes(w[i]) =>
              /\ w[i].n \in 1 .. Parts
              /\ w[i].n < Parts => i < Len(w) /\ Pushes(w[i + 1]) /\ w[i + 1].n = w[i].n + 1
              /\ w[i].n > 1 /\ i > 1 => Pushes(w[i - 1]) /\ w[i - 1].n = w[i].n - 1
        /\ 0 < k /\ k < Parts => Len(w) > 0 /\ Pushes(w[1]) /\ w[1].n = k + 1
        /\ k = 0 /\ Len(w) > 0 /\ Pushes(w[1]) => w[1].n = 1

\* What ends a session is the last thing that a server sends.
Ends ==
    \A i \in 1 .. Len(server.wire) :
        server.wire[i].kind \in {"AUTH_FAILED", "RESTART"} => i = Len(server.wire) /\ server.over

\* The app has been or will be shown the INFO messages received, and those on the
\* wire are the ones that follow, in order.
Informs(m) == m.kind = "INFO"
Infos ==
    LET w == server.wire
        p == Len(session.shown)
        q == Len(session.held)
    IN  /\ \A i \in 1 .. p : session.shown[i] = i
        /\ \A i \in 1 .. q : session.held[i] = p + i
        /\ p + q <= server.infos
        /\ \A i \in 1 .. Len(w) : Informs(w[i]) => w[i].n \in p + q + 1 .. server.infos
        /\ \A i, j \in 1 .. Len(w) : Informs(w[i]) /\ Informs(w[j]) /\ i < j => w[i].n < w[j].n
        /\ \A n \in p + q + 1 .. server.infos :
              \E i \in 1 .. Len(w) : Informs(w[i]) /\ w[i].n = n

Inv == Typed /\ Stages /\ TunnelFollows /\ Replies /\ Ends /\ Infos

\* What session stays and what it may become when s is stopped.
Halted(s) ==
    /\ session' \in SessionTypes
    /\ session'.halt /\ session'.armed = {} /\ ~session'.tun
    /\ session'.num = s.num /\ session'.begun = s.begun /\ session'.heard = s.heard
    /\ session'.active = s.active /\ session'.options = s.options
    /\ session'.connected = s.connected /\ session'.due = s.due
    /\ session'.holding = s.holding /\ session'.held = s.held /\ session'.shown = s.shown
    /\ session'.told \in {s.told, Append(s.told, "terminated")}

\* stop() does nothing to a session that has halted, and halts any other.
LEMMA StopFacts ==
    ASSUME NEW s \in SessionTypes, NEW t, NEW tell \in BOOLEAN, NEW final \in BOOLEAN,
           Stop(s, t, tell, final)
    PROVE  /\ s.halt => session' = s /\ tunnel' = t /\ stopped' = stopped
           /\ ~s.halt => /\ Halted(s)
                         /\ tunnel' = Down(t, s.tun, final)
                         /\ stopped' = (stopped \/ final)
<1>1. CASE s.halt
  BY <1>1 DEF Stop
<1>2. CASE ~s.halt
  <2> DEFINE told == IF tell THEN Append(s.told, "terminated") ELSE s.told
  <2>1. /\ told \in Seq(Callback) /\ told \in {s.told, Append(s.told, "terminated")}
        /\ session' = [s EXCEPT !.halt = TRUE, !.armed = {}, !.tun = FALSE, !.told = told]
    <3>1. s.told \in Seq(Callback) /\ "terminated" \in Callback
      BY DEF SessionTypes, Callback
    <3>2. Append(s.told, "terminated") \in Seq(Callback)
      BY <3>1
    <3> QED BY <1>2, <3>1, <3>2 DEF Stop
  <2> HIDE DEF told
  <2>2. Halted(s)
    BY <2>1 DEF Halted, SessionTypes
  <2>3. /\ tunnel' = Down(t, s.tun, final)
        /\ stopped' = (stopped \/ final)
    BY <1>2 DEF Stop, Down
  <2> QED BY <1>2, <2>2, <2>3
<1> QED BY <1>1, <1>2

-----------------------------------------------------------------------------
(* The kinds of steps, by what they change of what the invariants look at.     *)

\* What s and the next session agree on in every step but those that are about it.
Same(s) ==
    /\ session'.num = s.num /\ session'.options = s.options
    /\ session'.connected = s.connected /\ session'.holding = s.holding
    /\ session'.held = s.held /\ session'.shown = s.shown

SameServer ==
    /\ server'.wire = server.wire /\ server'.over = server.over
    /\ server'.infos = server.infos /\ server'.pushes = server.pushes

Still ==
    /\ Same(session) /\ session'.halt = session.halt /\ session'.tun = session.tun
    /\ session'.told = session.told /\ UNCHANGED <<stopped, tunnel>>
    /\ session.heard => session'.heard
    /\ session'.heard # session.heard => ~session.halt
    /\ session'.active => session'.heard
    /\ session.active => session'.active
    /\ batch' > 0 => session'.active
    /\ session.halt /\ batch' > 0 => batch > 0
    /\ "hold" \in session'.armed \cup session'.due => "hold" \in session.armed \cup session.due

QuietStep == Still /\ SameServer

EndStep ==
    /\ ~session.halt /\ session'.halt /\ Same(session) /\ ~session'.tun
    /\ session'.heard = session.heard /\ session'.active = session.active
    /\ session'.told \in {session.told, Append(session.told, "terminated")}
    /\ session'.armed = {} /\ session'.due \subseteq session.due
    /\ stopped' \in {stopped, TRUE}
    /\ tunnel' = Down(tunnel, session.tun, stopped')

\* What the owner sees of a step: nothing, or that the session has heard from its
\* server; the end; the connection.
SameForOwner ==
    /\ session'.num = session.num /\ session'.halt = session.halt
    /\ session'.connected = session.connected /\ session'.told = session.told
    /\ session.heard => session'.heard
    /\ session'.heard # session.heard => ~session.halt
EndForOwner ==
    /\ session'.num = session.num /\ ~session.halt /\ session'.halt
    /\ session'.told \in {session.told, Append(session.told, "terminated")}
ConnectForOwner ==
    /\ session'.num = session.num /\ ~session.halt /\ ~session'.halt /\ session.heard
    /\ ~session.connected /\ session'.connected /\ session'.heard
    /\ session'.told = Append(session.told, "connected")
SeenByOwner == SameForOwner \/ EndForOwner \/ ConnectForOwner

\* Types in a form that the provers take.
LEMMA TimersTyped ==
    ASSUME NEW s \in SessionTypes, NEW timer \in Timer
    PROVE  /\ Arm(s, timer) \in SessionTypes
           /\ SetHousekeepingTimer(s) \in SessionTypes
           /\ SchedulePushRequest(s) \in SessionTypes
           /\ [s EXCEPT !.due = @ \ {timer}] \in SessionTypes
           /\ [s EXCEPT !.armed = @ \ {timer}, !.due = @ \cup {timer}] \in SessionTypes
<1>1. s.armed \subseteq Timer /\ s.due \subseteq Timer
  BY DEF SessionTypes
<1>2. ASSUME NEW armed \in SUBSET Timer, NEW due \in SUBSET Timer
      PROVE  /\ [s EXCEPT !.armed = armed] \in SessionTypes
             /\ [s EXCEPT !.due = due] \in SessionTypes
             /\ [s EXCEPT !.armed = armed, !.due = due] \in SessionTypes
  BY DEF SessionTypes
<1>3. "push" \in Timer /\ "housekeeping" \in Timer
  BY DEF Timer
<1>4. \A t \in Timer : Arm(s, t) \in SessionTypes
  BY <1>1, <1>2 DEF Arm
<1>5. /\ [s EXCEPT !.due = @ \ {timer}] \in SessionTypes
      /\ [s EXCEPT !.armed = @ \ {timer}, !.due = @ \cup {timer}] \in SessionTypes
  BY <1>1, <1>2
<1> QED BY <1>3, <1>4, <1>5 DEF SetHousekeepingTimer, SchedulePushRequest

\* Setting a timer changes nothing but the timers.
LEMMA TimersSame ==
    ASSUME NEW s \in SessionTypes, NEW timer \in Timer,
           NEW u \in {Arm(s, timer), SetHousekeepingTimer(s), SchedulePushRequest(s)}
    PROVE  /\ u.num = s.num /\ u.halt = s.halt /\ u.begun = s.begun /\ u.heard = s.heard
           /\ u.active = s.active /\ u.options = s.options /\ u.connected = s.connected
           /\ u.tun = s.tun /\ u.due = s.due /\ u.holding = s.holding
           /\ u.held = s.held /\ u.shown = s.shown /\ u.told = s.told
           /\ u.armed \subseteq s.armed \cup {timer, "housekeeping", "push"}
           /\ s.armed \subseteq u.armed
  BY DEF Arm, SetHousekeepingTimer, SchedulePushRequest, SessionTypes

\* The same of a step that sets the housekeeping timer and does nothing else.
LEMMA HousekeepingSame ==
    ASSUME NEW s \in SessionTypes, session' = SetHousekeepingTimer(s)
    PROVE  /\ session' \in SessionTypes
           /\ session'.num = s.num /\ session'.halt = s.halt /\ session'.heard = s.heard
           /\ session'.active = s.active /\ session'.options = s.options
           /\ session'.connected = s.connected /\ session'.tun = s.tun
           /\ session'.due = s.due /\ session'.holding = s.holding
           /\ session'.held = s.held /\ session'.shown = s.shown /\ session'.told = s.told
           /\ session'.armed \subseteq s.armed \cup {"push", "housekeeping"}
<1>1. "push" \in Timer
  BY DEF Timer
<1> QED BY <1>1, TimersTyped, TimersSame

\* Next, one lemma for each handler: what it does is of one of the kinds above.
LEMMA BeginKind ==
    ASSUME Typed, Stages, Begin
    PROVE  Typed' /\ QuietStep
<1> DEFINE s == [session EXCEPT !.begun = TRUE]
<1>1. /\ s \in SessionTypes
      /\ s.num = session.num /\ s.halt = session.halt /\ s.heard = session.heard
      /\ s.active = session.active /\ s.options = session.options
      /\ s.connected = session.connected /\ s.tun = session.tun
      /\ s.due = session.due /\ s.armed = session.armed /\ s.holding = session.holding
      /\ s.held = session.held /\ s.shown = session.shown /\ s.told = session.told
  BY DEF Typed, SessionTypes
<1>2. session' = SetHousekeepingTimer(s)
  BY DEF Begin, Become
<1> HIDE DEF s
<1>3. session' \in SessionTypes
  BY <1>1, <1>2, TimersTyped DEF Timer
<1>4. UNCHANGED <<batch, server, stopped, tunnel>>
  BY DEF Begin, Become
<1>5. Typed'
  BY <1>3, <1>4 DEF Typed
<1> QED BY <1>1, <1>2, <1>4, <1>5, TimersSame DEF QuietStep, Still, Same, SameServer, Stages, Timer

\* transport_recv().
LEMMA HearKind ==
    ASSUME Typed, Stages, Hear
    PROVE  Typed' /\ QuietStep
<1> DEFINE s == [session EXCEPT !.heard = TRUE]
<1>1. /\ s \in SessionTypes
      /\ s.num = session.num /\ s.halt = session.halt /\ s.heard
      /\ s.active = session.active /\ s.options = session.options
      /\ s.connected = session.connected /\ s.tun = session.tun
      /\ s.due = session.due /\ s.armed = session.armed /\ s.holding = session.holding
      /\ s.held = session.held /\ s.shown = session.shown /\ s.told = session.told
  BY DEF Typed, SessionTypes
<1>2. session' = SetHousekeepingTimer(s)
  BY DEF Hear, Become
<1> HIDE DEF s
<1>3. session' \in SessionTypes
  BY <1>1, <1>2, TimersTyped DEF Timer
<1>4. UNCHANGED <<batch, server, stopped, tunnel>> /\ ~session.halt
  BY DEF Hear, Become
<1>5. Typed'
  BY <1>3, <1>4 DEF Typed
<1> QED BY <1>1, <1>2, <1>4, <1>5, TimersSame DEF QuietStep, Still, Same, SameServer, Stages, Timer

\* active().
LEMMA ActiveKind ==
    ASSUME Typed, Stages, Active
    PROVE  Typed' /\ QuietStep
<1> DEFINE s == [session EXCEPT !.active = TRUE]
<1>1. /\ s \in SessionTypes
      /\ s.num = session.num /\ s.halt = session.halt /\ s.heard = session.heard
      /\ s.active /\ s.options = session.options
      /\ s.connected = session.connected /\ s.tun = session.tun
      /\ s.due = session.due /\ s.armed = session.armed /\ s.holding = session.holding
      /\ s.held = session.held /\ s.shown = session.shown /\ s.told = session.told
  BY DEF Typed, SessionTypes
<1>2. session' = SchedulePushRequest(s)
  BY DEF Active, Become
<1> HIDE DEF s
<1>3. session' \in SessionTypes
  BY <1>1, <1>2, TimersTyped DEF Timer
<1>4. UNCHANGED <<batch, server, stopped, tunnel>> /\ session.heard
  BY DEF Active, Become
<1>5. Typed'
  BY <1>3, <1>4 DEF Typed
<1>6. "push" \in Timer
  BY DEF Timer
<1>7. /\ session'.num = s.num /\ session'.halt = s.halt /\ session'.heard = s.heard
      /\ session'.active = s.active /\ session'.options = s.options
      /\ session'.connected = s.connected /\ session'.tun = s.tun /\ session'.due = s.due
      /\ session'.holding = s.holding /\ session'.held = s.held
      /\ session'.shown = s.shown /\ session'.told = s.told
      /\ session'.armed \subseteq s.armed \cup {"push", "housekeeping"}
  BY ZenonT(30), <1>1, <1>2, <1>6, TimersSame
<1> QED BY <1>1, <1>4, <1>5, <1>7 DEF QuietStep, Still, Same, SameServer, Stages

\* An invalidated key.
LEMMA InvalidateKind ==
    ASSUME Typed, Stages, Invalidate
    PROVE  Typed' /\ QuietStep
<1>1. session' = [session EXCEPT !.invalid = TRUE]
  BY DEF Invalidate, Become
<1>2. session' \in SessionTypes
  BY <1>1 DEF Typed, SessionTypes
<1>3. UNCHANGED <<batch, server, stopped, tunnel>>
  BY DEF Invalidate, Become
<1>4. Typed'
  BY <1>2, <1>3 DEF Typed
<1> QED BY <1>1, <1>3, <1>4 DEF Typed, SessionTypes, QuietStep, Still, Same, SameServer, Stages

\* A read of the transport.
LEMMA ReadKind ==
    ASSUME Typed, Stages, NEW n \in 1 .. Len(server.wire), Read(n)
    PROVE  Typed' /\ QuietStep
<1>1. UNCHANGED <<session, server, stopped, tunnel>> /\ batch' = n /\ session.active /\ ~session.halt
  BY DEF Read
<1>2. Typed'
  BY <1>1 DEF Typed
<1> QED BY <1>1, <1>2 DEF QuietStep, Still, Same, SameServer, Stages

\* What a handler does with its timer alone changes nothing else.
LEMMA ExpireKind ==
    ASSUME Typed, Stages, NEW timer \in Timer, Expire(timer)
    PROVE  Typed' /\ QuietStep
<1>1. session' = [session EXCEPT !.armed = @ \ {timer}, !.due = @ \cup {timer}]
  BY DEF Expire, Become
<1>2. session' \in SessionTypes
  BY <1>1, TimersTyped DEF Typed
<1>3. UNCHANGED <<batch, server, stopped, tunnel>> /\ timer \in session.armed
  BY DEF Expire, Become
<1>4. Typed'
  BY <1>2, <1>3 DEF Typed
<1> QED BY <1>1, <1>3, <1>4 DEF Typed, SessionTypes, QuietStep, Still, Same, SameServer, Stages

\* A timer's handler takes it from those that are due.
LEMMA HandledFacts ==
    ASSUME NEW timer \in Timer, session \in SessionTypes
    PROVE  LET s == Handled(timer)
           IN  /\ s \in SessionTypes
               /\ s.num = session.num /\ s.halt = session.halt /\ s.begun = session.begun
               /\ s.heard = session.heard /\ s.active = session.active
               /\ s.invalid = session.invalid /\ s.options = session.options
               /\ s.connected = session.connected /\ s.tun = session.tun
               /\ s.armed = session.armed /\ s.due = session.due \ {timer}
               /\ s.holding = session.holding /\ s.held = session.held
               /\ s.shown = session.shown /\ s.told = session.told
<1>1. Handled(timer) = [session EXCEPT !.due = @ \ {timer}]
  BY DEF Handled
<1>2. Handled(timer) \in SessionTypes
  BY <1>1, TimersTyped
<1> QED BY <1>1, <1>2 DEF SessionTypes

\* A handler that finds nothing to do.
LEMMA IgnoreKind ==
    ASSUME Typed, Stages, NEW timer \in Timer, Ignore(timer)
    PROVE  Typed' /\ QuietStep
<1>1. session' = Handled(timer) /\ UNCHANGED <<batch, server, stopped, tunnel>>
  BY DEF Ignore, Handle, Become
<1>2. Typed'
  BY <1>1, HandledFacts DEF Typed
<1> QED BY <1>1, <1>2, HandledFacts DEF Typed, QuietStep, Still, Same, SameServer, Stages

\* send_push_request_callback().
LEMMA SendPushRequestKind ==
    ASSUME Typed, Stages, SendPushRequest
    PROVE  Typed' /\ QuietStep
<1> DEFINE s == Handled("push")
           u == SetHousekeepingTimer(s)
<1>0. "push" \in Timer
  BY DEF Timer
<1>1. /\ s \in SessionTypes
      /\ s.num = session.num /\ s.halt = session.halt /\ s.heard = session.heard
      /\ s.active = session.active /\ s.options = session.options
      /\ s.connected = session.connected /\ s.tun = session.tun
      /\ s.due \subseteq session.due /\ s.armed = session.armed /\ s.holding = session.holding
      /\ s.held = session.held /\ s.shown = session.shown /\ s.told = session.told
  BY <1>0, HandledFacts DEF Typed
<1> HIDE DEF s
<1>2. u \in SessionTypes
  BY <1>0, <1>1, TimersTyped
<1>3. /\ u.num = s.num /\ u.halt = s.halt /\ u.heard = s.heard
      /\ u.active = s.active /\ u.options = s.options /\ u.connected = s.connected
      /\ u.tun = s.tun /\ u.due = s.due /\ u.holding = s.holding
      /\ u.held = s.held /\ u.shown = s.shown /\ u.told = s.told
      /\ u.armed \subseteq s.armed \cup {"push", "housekeeping"}
  BY <1>0, <1>1, TimersSame
<1>4. session' = SchedulePushRequest(u)
  BY DEF SendPushRequest, Become, s
<1> HIDE DEF u
<1>5. session' \in SessionTypes
  BY <1>0, <1>2, <1>4, TimersTyped
<1>6. UNCHANGED <<batch, stopped, tunnel>>
  BY DEF SendPushRequest, Handle, Become
<1> DEFINE asked == IF session.invalid \/ server.asked = Need THEN server.asked ELSE server.asked + 1
<1>7. asked \in 0 .. Need
  BY PartsAssumption DEF Typed, Server
<1>8. server' = [server EXCEPT !.asked = asked]
  BY DEF SendPushRequest, Typed, Server
<1> HIDE DEF asked
<1>9. server' \in Server /\ SameServer
  BY <1>7, <1>8 DEF Typed, Server, SameServer
<1>10. Typed'
  BY <1>5, <1>6, <1>9 DEF Typed, SameServer
<1>11. /\ session'.num = u.num /\ session'.halt = u.halt /\ session'.heard = u.heard
      /\ session'.active = u.active /\ session'.options = u.options /\ session'.connected = u.connected
      /\ session'.tun = u.tun /\ session'.due = u.due /\ session'.holding = u.holding
      /\ session'.held = u.held /\ session'.shown = u.shown /\ session'.told = u.told
      /\ session'.armed \subseteq u.armed \cup {"push", "housekeeping"}
  BY <1>0, <1>2, <1>4, TimersSame
<1>12. Same(session) /\ session'.halt = session.halt /\ session'.heard = session.heard
  /\ session'.active = session.active /\ session'.tun = session.tun /\ session'.told = session.told
  /\ ("hold" \in session'.armed \cup session'.due => "hold" \in session.armed \cup session.due)
  BY <1>1, <1>3, <1>11 DEF Same
<1> HIDE DEF SameServer, Same
<1> QED BY <1>6, <1>9, <1>10, <1>12 DEF QuietStep, Still, Stages

\* What is left of a session that is stopped with one of its timers handled.
Alike(s) ==
    /\ s.num = session.num /\ s.halt = session.halt /\ s.heard = session.heard
    /\ s.active = session.active /\ s.options = session.options
    /\ s.connected = session.connected /\ s.tun = session.tun
    /\ s.due \subseteq session.due /\ s.holding = session.holding
    /\ s.held = session.held /\ s.shown = session.shown /\ s.told = session.told

\* A stop of a session that is running is an EndStep.
LEMMA StopKind ==
    ASSUME Typed, Stages, TunnelFollows, ~session.halt,
           NEW s \in SessionTypes, Alike(s),
           NEW tell \in BOOLEAN, NEW final \in BOOLEAN, Stop(s, tunnel, tell, final)
    PROVE  /\ session' \in SessionTypes /\ tunnel' \in Tunnel /\ stopped' \in BOOLEAN
           /\ EndStep
<1>1. ~s.halt /\ ~stopped
  BY DEF Alike, Stages
<1>2. Halted(s) /\ tunnel' = Down(tunnel, s.tun, final) /\ stopped' = final
  <2>1. Halted(s) /\ tunnel' = Down(tunnel, s.tun, final) /\ stopped' = (stopped \/ final)
    BY <1>1, StopFacts
  <2> QED BY <1>1, <2>1 DEF Typed
<1>3. Down(tunnel, s.tun, final) \in Tunnel
  <2>1. s.tun \in BOOLEAN /\ s.tun = (session.connected /\ ~session.halt)
    BY DEF Alike, Stages, Typed, SessionTypes
  <2>2. stopped = FALSE
    BY <1>1 DEF Typed
  <2>3. TunFollows(tunnel, s.tun, server.pushes, FALSE)
    BY <2>1, <2>2 DEF TunnelFollows
  <2> QED BY <2>1, <2>3, DownFollows DEF Typed
<1>4. tunnel' = Down(tunnel, session.tun, stopped') /\ stopped' \in {stopped, TRUE}
  BY <1>1, <1>2 DEF Alike, Typed
<1> QED BY <1>1, <1>2, <1>3, <1>4 DEF EndStep, Halted, Same, Alike

\* The types, when a stop leaves the transport alone.
LEMMA EndTyped ==
    ASSUME Typed, session' \in SessionTypes, tunnel' \in Tunnel, stopped' \in BOOLEAN,
           UNCHANGED <<batch, server>>
    PROVE  Typed'
  BY DEF Typed

\* transport_error(), pause() and stop().
LEMMA PlainEndKind ==
    ASSUME Typed, Stages, TunnelFollows,
           \/ TransportError
           \/ Pause
           \/ Disconnect /\ ~session.halt
    PROVE  Typed' /\ EndStep /\ UNCHANGED <<batch, server>> /\ batch = 0
<1>1. /\ UNCHANGED <<batch, server>> /\ batch = 0 /\ ~session.halt
      /\ \E tell, final \in BOOLEAN : Stop(session, tunnel, tell, final)
  BY DEF TransportError, Pause, Disconnect, EndRetrying, Idle
<1>2. Alike(session) /\ session \in SessionTypes
  BY DEF Alike, Typed
<1>3. /\ session' \in SessionTypes /\ tunnel' \in Tunnel /\ stopped' \in BOOLEAN
      /\ EndStep
  BY <1>1, <1>2, StopKind
<1> QED BY <1>1, <1>3, EndTyped

\* housekeeping_callback(), which may end the session.
LEMMA HousekeepingKind ==
    ASSUME Typed, Stages, TunnelFollows, Housekeeping
    PROVE  /\ Typed' /\ UNCHANGED <<batch, server>> /\ batch = 0
           /\ QuietStep \/ EndStep
<1> DEFINE s == Handled("housekeeping")
<1>1. "housekeeping" \in Timer
  BY DEF Timer
<1>2. s \in SessionTypes /\ Alike(s) /\ s.armed = session.armed
  BY <1>1, HandledFacts DEF Typed, Alike
<1>3. UNCHANGED <<batch, server>> /\ batch = 0 /\ ~session.halt
  BY DEF Housekeeping, Handle, Idle
<1>4. CASE session.invalid
  <2>1. Stop(s, tunnel, TRUE, FALSE)
    BY <1>4 DEF Housekeeping, EndRetrying
  <2> HIDE DEF s
  <2> QED BY <1>2, <1>3, <2>1, StopKind, EndTyped
<1>5. CASE ~session.invalid
  <2>1. session' = SetHousekeepingTimer(s) /\ UNCHANGED <<stopped, tunnel>>
    BY <1>5 DEF Housekeeping, Become
  <2> HIDE DEF s
  <2>2. session' \in SessionTypes
    BY <1>1, <1>2, <2>1, TimersTyped
  <2>3. Typed'
    BY <1>3, <2>1, <2>2 DEF Typed
  <2>4. /\ session'.num = s.num /\ session'.halt = s.halt /\ session'.heard = s.heard
        /\ session'.active = s.active /\ session'.options = s.options
        /\ session'.connected = s.connected /\ session'.tun = s.tun /\ session'.due = s.due
        /\ session'.holding = s.holding /\ session'.held = s.held
        /\ session'.shown = s.shown /\ session'.told = s.told
        /\ session'.armed \subseteq s.armed \cup {"push", "housekeeping"}
    BY <1>1, <1>2, <2>1, TimersSame
  <2>5. QuietStep
    BY <1>2, <1>3, <2>1, <2>4 DEF QuietStep, Still, Same, SameServer, Stages, Alike
  <2> QED BY <1>3, <2>3, <2>5
<1> QED BY <1>4, <1>5

\* inactive_callback(), which may too.
LEMMA InactiveKind ==
    ASSUME Typed, Stages, TunnelFollows, Inactive
    PROVE  /\ Typed' /\ UNCHANGED <<batch, server>> /\ batch = 0
           /\ QuietStep \/ EndStep
<1> DEFINE s == Handled("inactive")
<1>1. "inactive" \in Timer
  BY DEF Timer
<1>2. s \in SessionTypes /\ Alike(s) /\ s.armed = session.armed
  BY <1>1, HandledFacts DEF Typed, Alike
<1>3. UNCHANGED <<batch, server>> /\ batch = 0 /\ ~session.halt
  BY DEF Inactive, Handle, Idle
<1>4. CASE EndForGood(s, tunnel)
  <2>1. Stop(s, tunnel, TRUE, TRUE)
    BY <1>4 DEF EndForGood
  <2> HIDE DEF s
  <2> QED BY <1>2, <1>3, <2>1, StopKind, EndTyped
<1>5. CASE Become(Arm(s, "inactive"))
  <2>1. session' = Arm(s, "inactive") /\ UNCHANGED <<stopped, tunnel>>
    BY <1>5 DEF Become
  <2> HIDE DEF s
  <2>2. session' \in SessionTypes
    BY <1>1, <1>2, <2>1, TimersTyped
  <2>3. Typed'
    BY <1>3, <2>1, <2>2 DEF Typed
  <2>4. /\ session'.num = s.num /\ session'.halt = s.halt /\ session'.heard = s.heard
        /\ session'.active = s.active /\ session'.options = s.options
        /\ session'.connected = s.connected /\ session'.tun = s.tun /\ session'.due = s.due
        /\ session'.holding = s.holding /\ session'.held = s.held
        /\ session'.shown = s.shown /\ session'.told = s.told
        /\ session'.armed \subseteq s.armed \cup {"push", "housekeeping", "inactive"}
    BY <1>1, <1>2, <2>1, TimersSame
  <2>5. QuietStep
    BY <1>2, <1>3, <2>1, <2>4 DEF QuietStep, Still, Same, SameServer, Stages, Alike
  <2> QED BY <1>3, <2>3, <2>5
<1> QED BY <1>4, <1>5 DEF Inactive

-----------------------------------------------------------------------------
(* What each kind of step does to the invariants.                              *)

\* What is received and what is on the wire keep their invariants when neither changes.
LEMMA StreamsSame ==
    ASSUME Inv, Same(session), SameServer
    PROVE  Replies' /\ Ends' /\ Infos'
<1>1. Replies'
  BY DEF Inv, Replies, Same, SameServer, Pushes
<1>2. Ends'
  BY DEF Inv, Ends, SameServer
<1>3. Infos'
  BY ZenonT(30) DEF Inv, Infos, Same, SameServer, Informs
<1> QED BY <1>1, <1>2, <1>3

\* The stages and the tunnel keep theirs when the session does.
LEMMA StillStages ==
    ASSUME Inv, Typed', Still, server'.pushes = server.pushes
    PROVE  Stages' /\ TunnelFollows'
<1>1. Stages'
  BY DEF Inv, Still, Stages, Same, Complete, Partial
<1>2. session'.connected = session.connected /\ session'.halt = session.halt
      /\ tunnel' = tunnel /\ stopped' = stopped
  BY DEF Still, Same
<1> QED BY <1>1, <1>2 DEF Inv, TunnelFollows, TunFollows, EndsAt, Staged

\* A QuietStep keeps all of them.
LEMMA QuietInv ==
    ASSUME Inv, Typed', QuietStep
    PROVE  Inv'
<1>1. Replies' /\ Ends' /\ Infos'
  BY StreamsSame DEF QuietStep, Still
<1>2. Stages' /\ TunnelFollows'
  BY StillStages DEF QuietStep, SameServer
<1> QED BY <1>1, <1>2 DEF Inv

\* A session that ends takes its tunnel down, whatever the client does next.
LEMMA EndStages ==
    ASSUME Inv, Typed', EndStep, batch' = 0, server'.pushes = server.pushes
    PROVE  Stages' /\ TunnelFollows'
<1>1. ~session.halt /\ session.tun = session.connected /\ stopped = FALSE
  BY DEF Inv, Typed, SessionTypes, Stages, EndStep
<1>2. Stages'
  BY <1>1 DEF Inv, EndStep, Stages, Same, Complete, Partial
<1>3. TunFollows(tunnel, session.tun, server.pushes, FALSE)
  <2>1. session.tun = (session.connected /\ ~session.halt)
    BY <1>1 DEF Inv, Typed, SessionTypes
  <2> QED BY <1>1, <2>1 DEF Inv, TunnelFollows
<1>4. session.tun \in BOOLEAN /\ stopped' \in BOOLEAN /\ tunnel \in Tunnel
  BY DEF Inv, Typed, SessionTypes
<1>5. TunFollows(tunnel', FALSE, server'.pushes, stopped')
  BY <1>3, <1>4, DownFollows DEF EndStep
<1>6. (session'.connected /\ ~session'.halt) = FALSE
  BY DEF EndStep
<1> QED BY <1>2, <1>5, <1>6 DEF TunnelFollows

\* An EndStep between two reads does.
LEMMA EndInv ==
    ASSUME Inv, Typed', EndStep, batch = 0, UNCHANGED <<batch, server>>
    PROVE  Inv'
<1>1. SameServer
  BY DEF SameServer
<1>2. Replies' /\ Ends' /\ Infos'
  BY <1>1, StreamsSame DEF EndStep
<1>3. Stages' /\ TunnelFollows'
  BY EndStages
<1> QED BY <1>2, <1>3 DEF Inv

\* The client disconnects when the session has ended already.
LEMMA LateStopInv ==
    ASSUME Inv, Disconnect, session.halt
    PROVE  Inv'
<1>1. /\ UNCHANGED <<session, batch, server>> /\ stopped' = TRUE
      /\ tunnel' = Down(tunnel, FALSE, TRUE)
  BY DEF Disconnect, Down
<1>2. TunFollows(tunnel, FALSE, server.pushes, FALSE) /\ tunnel \in Tunnel
  <2>1. stopped = FALSE /\ (session.connected /\ ~session.halt) = FALSE
    BY DEF Disconnect, Inv, Typed
  <2> QED BY <2>1 DEF Inv, TunnelFollows, Typed
<1>3. tunnel' \in Tunnel /\ TunFollows(tunnel', FALSE, server.pushes, TRUE)
  BY <1>1, <1>2, DownFollows
<1>4. Typed' /\ Stages'
  BY <1>1, <1>3 DEF Inv, Typed, Stages, Complete, Partial
<1>5. TunnelFollows'
  <2>1. (session'.connected /\ ~session'.halt) = FALSE
    BY <1>1
  <2> QED BY <1>1, <1>3, <2>1 DEF TunnelFollows
<1>6. Same(session) /\ SameServer
  BY <1>1 DEF Same, SameServer
<1> QED BY <1>4, <1>5, <1>6, StreamsSame DEF Inv

\* A new session starts where they hold, over the tunnel of the last.
LEMMA NewClientInv ==
    ASSUME Inv, NewClient
    PROVE  Inv'
<1> PICK pushes \in Settings : server' = NewServer(pushes)
  BY DEF NewClient
<1>1. /\ session' = NewSession(session.num + 1) /\ batch' = 0 /\ stopped' = FALSE
      /\ tunnel' = Down(tunnel, session.tun, FALSE)
      /\ session.num < MaxSessions /\ stopped = FALSE
  BY DEF NewClient, Down, Idle, Inv, Typed
<1>2. /\ session'.num = session.num + 1 /\ session'.options = <<>> /\ session'.held = <<>>
      /\ session'.shown = <<>> /\ session'.told = <<>>
      /\ ~session'.halt /\ ~session'.active /\ ~session'.connected /\ ~session'.tun
      /\ session'.armed = {} /\ session'.due = {} /\ session'.holding
      /\ server'.wire = <<>> /\ server'.infos = 0 /\ server'.pushes = pushes
  BY <1>1 DEF NewSession, NewServer
<1>3. session' \in SessionTypes
  <2>1. session.num + 1 \in 1 .. MaxSessions
    BY <1>1, BoundAssumption DEF Inv, Typed, SessionTypes
  <2> QED BY <1>1, <2>1 DEF NewSession, SessionTypes
<1>4. server' \in Server
  BY BoundAssumption, PartsAssumption DEF NewServer, Server
<1>5. tunnel' \in Tunnel /\ TunFollows(tunnel', FALSE, pushes, FALSE)
  <2>1. session.tun \in BOOLEAN /\ tunnel \in Tunnel
    BY DEF Inv, Typed, SessionTypes
  <2>2. TunFollows(tunnel, session.tun, server.pushes, FALSE)
    <3>1. session.tun = (session.connected /\ ~session.halt)
      BY DEF Inv, Stages, Typed, SessionTypes
    <3> QED BY <1>1, <3>1 DEF Inv, TunnelFollows
  <2> QED BY <1>1, <2>1, <2>2, DownFollows
<1>6. Typed'
  <2>1. batch' \in 0 .. Len(server'.wire)
    BY <1>1, <1>2
  <2> QED BY <1>1, <1>3, <1>4, <1>5, <2>1 DEF Typed
<1>7. Stages'
  BY <1>1, <1>2 DEF Stages
<1>8. TunnelFollows'
  <2>1. (session'.connected /\ ~session'.halt) = FALSE
    BY <1>2
  <2> QED BY <1>1, <1>2, <1>5, <2>1 DEF TunnelFollows
<1>9. Replies'
  BY <1>2, PartsAssumption DEF Replies
<1>10. Ends' /\ Infos'
  BY <1>2 DEF Ends, Infos
<1> QED BY <1>6, <1>7, <1>8, <1>9, <1>10 DEF Inv

\* The system applies a request.
LEMMA ApplyInv ==
    ASSUME Inv, Apply
    PROVE  Inv'
<1>1. UNCHANGED <<session, batch, server, stopped>> /\ tunnel' = ApplyNext(tunnel)
      /\ tunnel.requests # <<>> /\ tunnel \in Tunnel
  BY DEF Apply, ApplySettings, Inv, Typed
<1> DEFINE up == session.connected /\ ~session.halt
<1>2. tunnel' \in Tunnel /\ TunFollows(tunnel', up, server.pushes, stopped)
  BY <1>1, ApplyFollows DEF Inv, TunnelFollows
<1>3. Typed' /\ Stages' /\ TunnelFollows'
  BY <1>1, <1>2 DEF Inv, Typed, Stages, TunnelFollows, Complete, Partial
<1>4. Same(session) /\ SameServer
  BY <1>1 DEF Same, SameServer
<1> QED BY <1>3, <1>4, StreamsSame DEF Inv

\* What concatenation does, in the form that the provers take.
LEMMA Join ==
    ASSUME NEW S, NEW p \in Seq(S), NEW q \in Seq(S)
    PROVE  /\ p \o q \in Seq(S) /\ Len(p \o q) = Len(p) + Len(q)
           /\ Len(p) \in Nat /\ Len(q) \in Nat
           /\ \A i \in 1 .. Len(p) : (p \o q)[i] = p[i]
           /\ \A i \in 1 .. Len(q) : (p \o q)[Len(p) + i] = q[i]
           /\ \A i \in 1 .. Len(p) : p[i] \in S
           /\ \A i \in 1 .. Len(q) : q[i] \in S
  OBVIOUS

\* info_hold_callback(): what was held has been shown.
LEMMA InfoHoldInv ==
    ASSUME Inv, InfoHold
    PROVE  Inv'
<1> DEFINE s == Handled("hold")
           all == session.shown \o session.held
<1>1. "hold" \in Timer
  BY DEF Timer
<1>2. /\ s \in SessionTypes /\ Alike(s) /\ s.armed = session.armed
      /\ s.due = session.due \ {"hold"}
  BY <1>1, HandledFacts DEF Inv, Typed, Alike
<1>3. /\ session' = [s EXCEPT !.shown = all, !.held = <<>>, !.holding = FALSE]
      /\ UNCHANGED <<batch, server, stopped, tunnel>> /\ batch = 0
      /\ ~session.halt /\ "hold" \in session.due
  <2>1. s.shown = session.shown
    BY <1>2 DEF Alike
  <2>2. session' = [s EXCEPT !.shown = s.shown \o session.held, !.held = <<>>,
                             !.holding = FALSE]
    BY DEF InfoHold, Become
  <2> QED BY <2>1, <2>2 DEF InfoHold, Become, Handle, Idle
<1>4. /\ all \in Seq(1 .. MaxInfo) /\ Len(all) = Len(session.shown) + Len(session.held)
      /\ Len(session.shown) \in Nat /\ Len(session.held) \in Nat
      /\ \A i \in 1 .. Len(session.shown) : all[i] = session.shown[i]
      /\ \A i \in 1 .. Len(session.held) : all[Len(session.shown) + i] = session.held[i]
  <2> DEFINE S == 1 .. MaxInfo
  <2>1. session.shown \in Seq(S) /\ session.held \in Seq(S)
    BY DEF Inv, Typed, SessionTypes
  <2> HIDE DEF S
  <2> DEFINE p == session.shown
             q == session.held
  <2>2. /\ p \o q \in Seq(S) /\ Len(p \o q) = Len(p) + Len(q)
        /\ Len(p) \in Nat /\ Len(q) \in Nat
        /\ \A i \in 1 .. Len(p) : (p \o q)[i] = p[i]
        /\ \A i \in 1 .. Len(q) : (p \o q)[Len(p) + i] = q[i]
    <3> HIDE DEF p, q
    <3>1. p \in Seq(S) /\ q \in Seq(S)
      BY <2>1 DEF p, q
    <3> QED BY <3>1, Join
  <2>3. all = p \o q /\ S = 1 .. MaxInfo
    BY DEF S
  <2> HIDE DEF all
  <2> QED BY <2>2, <2>3
<1> HIDE DEF s, all
<1>5. <<>> \in Seq(1 .. MaxInfo) /\ Len(<<>>) = 0
  OBVIOUS
<1>6. /\ session' \in SessionTypes
      /\ session'.num = s.num /\ session'.halt = s.halt /\ session'.heard = s.heard
      /\ session'.active = s.active /\ session'.options = s.options
      /\ session'.connected = s.connected /\ session'.tun = s.tun
      /\ session'.armed = s.armed /\ session'.due = s.due /\ session'.shown = all
      /\ session'.held = <<>> /\ session'.holding = FALSE /\ session'.told = s.told
  <2> HIDE DEF Alike
  <2> DEFINE empty == <<>>
  <2>1. session' = [s EXCEPT !.shown = all, !.held = empty, !.holding = FALSE]
    BY <1>3
  <2>2. empty \in Seq(1 .. MaxInfo)
    BY <1>5
  <2>3. empty = <<>>
    OBVIOUS
  <2> HIDE DEF empty
  <2> QED BY <1>2, <1>4, <2>1, <2>2, <2>3 DEF SessionTypes
<1>7. Typed'
  BY <1>3, <1>6 DEF Inv, Typed
<1>8. session.connected
  BY <1>3 DEF Inv, Stages
<1>9. Stages'
  BY <1>2, <1>3, <1>6, <1>8 DEF Inv, Stages, Alike, Complete, Partial
<1>10. TunnelFollows'
  BY <1>2, <1>3, <1>6 DEF Inv, TunnelFollows, Alike, TunFollows, EndsAt, Staged
<1>11. Replies' /\ Ends'
  BY <1>2, <1>3, <1>6 DEF Inv, Replies, Ends, Alike, Pushes
<1>12. Infos'
  <2>a. /\ Len(all) = Len(session.shown) + Len(session.held)
        /\ Len(session.shown) \in Nat /\ Len(session.held) \in Nat
    BY <1>4
  <2>1. \A i \in 1 .. Len(all) : all[i] = i
    <3> TAKE i \in 1 .. Len(all)
    <3>1. CASE i \in 1 .. Len(session.shown)
      BY <1>4, <3>1 DEF Inv, Infos
    <3>2. CASE i \notin 1 .. Len(session.shown)
      <4> DEFINE j == i - Len(session.shown)
      <4>1. j \in 1 .. Len(session.held) /\ Len(session.shown) + j = i
        <5> DEFINE a == Len(all)
                   p == Len(session.shown)
                   q == Len(session.held)
        <5>1. a = p + q /\ p \in Nat /\ q \in Nat /\ i \in 1 .. a /\ i \notin 1 .. p
          BY <2>a, <3>2
        <5> HIDE DEF a, p, q
        <5>2. i - p \in 1 .. q /\ p + (i - p) = i
          BY <5>1
        <5> QED BY <5>2 DEF p, q
      <4> HIDE DEF j
      <4> QED BY <1>4, <4>1 DEF Inv, Infos
    <3> QED BY <3>1, <3>2
  <2>2. /\ Len(session'.shown) = Len(session.shown) + Len(session.held)
        /\ Len(session'.held) = 0
    BY <1>4, <1>5, <1>6
  <2>3. /\ \A i \in 1 .. Len(session'.shown) : session'.shown[i] = i
        /\ \A i \in 1 .. Len(session'.held) : session'.held[i] = Len(session'.shown) + i
    <3>1. \A i \in 1 .. 0 : FALSE
      OBVIOUS
    <3> QED BY <1>4, <1>6, <2>1, <2>2, <3>1
  <2>4. Len(session'.shown) + Len(session'.held) = Len(session.shown) + Len(session.held)
    BY <1>4, <2>2
  <2> QED BY <1>3, <2>3, <2>4 DEF Inv, Infos, Informs
<1> QED BY <1>7, <1>9, <1>10, <1>11, <1>12 DEF Inv

\* A server that sends.
Sends(messages) ==
    /\ ~server.over /\ session.active /\ ~session.halt
    /\ messages \in Seq(Message)
    /\ server' \in Server /\ server'.wire = server.wire \o messages
    /\ server'.pushes = server.pushes
    /\ UNCHANGED <<session, batch, stopped, tunnel>>

\* What the server sends goes to the end of the wire.
LEMMA SendsKind ==
    ASSUME Inv, NEW messages, Sends(messages)
    PROVE  /\ Typed' /\ Stages' /\ TunnelFollows'
           /\ Len(server'.wire) = Len(server.wire) + Len(messages)
           /\ Len(server.wire) \in Nat /\ Len(messages) \in Nat
           /\ \A i \in 1 .. Len(server.wire) : server'.wire[i] = server.wire[i]
           /\ \A i \in 1 .. Len(messages) :
                 server'.wire[Len(server.wire) + i] = messages[i]
           /\ \A i \in 1 .. Len(server.wire) :
                 server.wire[i].kind \notin {"AUTH_FAILED", "RESTART"}
<1>1. /\ Len(server'.wire) = Len(server.wire) + Len(messages)
      /\ Len(server.wire) \in Nat /\ Len(messages) \in Nat
      /\ \A i \in 1 .. Len(server.wire) : server'.wire[i] = server.wire[i]
      /\ \A i \in 1 .. Len(messages) : server'.wire[Len(server.wire) + i] = messages[i]
  <2>1. server.wire \in Seq(Message) /\ messages \in Seq(Message)
    BY DEF Inv, Typed, Server, Sends
  <2> QED BY <2>1, Join DEF Sends
<1>2. batch' \in 0 .. Len(server'.wire)
  BY <1>1 DEF Inv, Typed, Sends
<1>3. Typed'
  BY <1>2 DEF Inv, Typed, Sends
<1>4. Stages'
  BY DEF Inv, Stages, Sends, Complete, Partial
<1>5. TunnelFollows'
  BY DEF Inv, TunnelFollows, Sends, TunFollows, EndsAt, Staged
<1>6. \A i \in 1 .. Len(server.wire) : server.wire[i].kind \notin {"AUTH_FAILED", "RESTART"}
  BY DEF Inv, Ends, Sends
<1> QED BY <1>1, <1>3, <1>4, <1>5, <1>6

\* Each of the server's actions is such a step.
LEMMA SendsTyped ==
    ASSUME Inv, NEW messages \in Seq(Message),
           NEW replies \in 0 .. MaxReplies, NEW infos \in 0 .. MaxInfo, NEW over \in BOOLEAN,
           ServerSends(messages,
               [server EXCEPT !.replies = replies, !.infos = infos, !.over = over])
    PROVE  /\ Sends(messages) /\ server'.infos = infos /\ server'.over = over
<1> DEFINE u == [server EXCEPT !.replies = replies, !.infos = infos, !.over = over]
<1>1. /\ u \in Server /\ u.wire = server.wire /\ u.pushes = server.pushes
      /\ u.infos = infos /\ u.over = over
  BY DEF Inv, Typed, Server
<1> DEFINE wire == server.wire \o messages
<1>2. server' = [u EXCEPT !.wire = wire]
  BY <1>1 DEF ServerSends
<1>3. wire \in Seq(Message)
  <2>1. server.wire \in Seq(Message)
    BY DEF Inv, Typed, Server
  <2> QED BY <2>1, Join
<1> HIDE DEF u, wire
<1>4. /\ server' \in Server /\ server'.wire = wire /\ server'.pushes = u.pushes
      /\ server'.infos = u.infos /\ server'.over = u.over
  BY <1>1, <1>2, <1>3 DEF Server
<1> QED BY <1>1, <1>4 DEF Sends, ServerSends, wire

\* A whole reply is put on the wire, after whole replies.
LEMMA ReplyInv ==
    ASSUME Inv, Reply
    PROVE  Inv'
<1> DEFINE messages == [n \in 1 .. Parts |-> [kind |-> "PUSH_REPLY", n |-> n]]
           L == Len(server.wire)
           w == server.wire
           x == server'.wire
<1>1. /\ messages \in Seq(Message) /\ Len(messages) = Parts
      /\ \A j \in 1 .. Parts : messages[j] = [kind |-> "PUSH_REPLY", n |-> j]
  <2>1. \A n \in 1 .. Parts : [kind |-> "PUSH_REPLY", n |-> n] \in Message
    BY DEF Message
  <2> HIDE DEF Message
  <2> QED BY <2>1, PartsAssumption
<1>2. \A j \in 1 .. Parts : Pushes(messages[j]) /\ messages[j].n = j /\ messages[j].kind = "PUSH_REPLY"
  BY <1>1 DEF Pushes
<1>3. Sends(messages) /\ server'.infos = server.infos /\ server'.over = server.over
  <2>1. server.replies + 1 \in 0 .. MaxReplies /\ server.infos \in 0 .. MaxInfo /\ server.over \in BOOLEAN
    BY BoundAssumption DEF Reply, Inv, Typed, Server
  <2> DEFINE replies == server.replies + 1
  <2>2. [server EXCEPT !.replies = replies]
          = [server EXCEPT !.replies = replies, !.infos = server.infos, !.over = server.over]
    BY DEF Inv, Typed, Server
  <2>3. ServerSends(messages,
            [server EXCEPT !.replies = replies, !.infos = server.infos, !.over = server.over])
    <3>1. ServerSends(messages, [server EXCEPT !.replies = replies])
      BY DEF Reply
    <3> HIDE DEF messages, replies
    <3> QED BY <2>2, <3>1 DEF ServerSends
  <2> HIDE DEF replies, messages
  <2>4. replies \in 0 .. MaxReplies
    BY <2>1 DEF replies
  <2> QED BY <1>1, <2>1, <2>3, <2>4, SendsTyped
<1> HIDE DEF messages
<1>4. /\ Typed' /\ Stages' /\ TunnelFollows'
      /\ Len(x) = L + Parts /\ L \in Nat
      /\ \A i \in 1 .. L : x[i] = w[i]
      /\ \A i \in 1 .. Parts : x[L + i] = messages[i]
      /\ \A i \in 1 .. L : w[i].kind \notin {"AUTH_FAILED", "RESTART"}
  BY <1>1, <1>3, SendsKind
<1>5. UNCHANGED session
  BY <1>3 DEF Sends
<1>6. \A i \in 1 .. Len(x) : i \in 1 .. L \/ \E j \in 1 .. Parts : i = L + j
  <2> TAKE i \in 1 .. Len(x)
  <2>1. CASE i > L
    <3> i - L \in 1 .. Parts /\ i = L + (i - L)
      BY <1>4, <2>1, PartsAssumption
    <3> QED OBVIOUS
  <2> QED BY <1>4, <2>1
<1> HIDE DEF w, x, L
<1>7. \A i \in 1 .. Len(x) : Pushes(x[i]) =>
              /\ x[i].n \in 1 .. Parts
              /\ x[i].n < Parts => i < Len(x) /\ Pushes(x[i + 1]) /\ x[i + 1].n = x[i].n + 1
              /\ x[i].n > 1 /\ i > 1 => Pushes(x[i - 1]) /\ x[i - 1].n = x[i].n - 1
  <2> SUFFICES ASSUME NEW i \in 1 .. Len(x), Pushes(x[i])
               PROVE  /\ x[i].n \in 1 .. Parts
                      /\ x[i].n < Parts => i < Len(x) /\ Pushes(x[i + 1]) /\ x[i + 1].n = x[i].n + 1
                      /\ x[i].n > 1 /\ i > 1 => Pushes(x[i - 1]) /\ x[i - 1].n = x[i].n - 1
    OBVIOUS
  <2>1. CASE i \in 1 .. L
    <3>1. /\ w[i].n \in 1 .. Parts
          /\ w[i].n < Parts => i < L /\ Pushes(w[i + 1]) /\ w[i + 1].n = w[i].n + 1
          /\ w[i].n > 1 /\ i > 1 => Pushes(w[i - 1]) /\ w[i - 1].n = w[i].n - 1
      <4>1. Pushes(w[i])
        BY <1>4, <2>1
      <4> QED BY <2>1, <4>1 DEF Inv, Replies, w, L
    <3>2. i < L => i + 1 \in 1 .. L /\ i < Len(x)
      BY <1>4, <2>1, PartsAssumption
    <3>3. i > 1 => i - 1 \in 1 .. L
      BY <1>4, <2>1
    <3>4. x[i] = w[i] /\ (i < L => x[i + 1] = w[i + 1]) /\ (i > 1 => x[i - 1] = w[i - 1])
      BY <1>4, <2>1, <3>2, <3>3
    <3> QED BY <3>1, <3>2, <3>3, <3>4
  <2>2. ASSUME NEW j \in 1 .. Parts, i = L + j
        PROVE  /\ x[i].n \in 1 .. Parts
               /\ x[i].n < Parts => i < Len(x) /\ Pushes(x[i + 1]) /\ x[i + 1].n = x[i].n + 1
               /\ x[i].n > 1 /\ i > 1 => Pushes(x[i - 1]) /\ x[i - 1].n = x[i].n - 1
    <3>1. x[i] = messages[j] /\ messages[j].n = j
      BY <1>2, <1>4, <2>2
    <3>2. j < Parts => /\ i < Len(x) /\ j + 1 \in 1 .. Parts /\ i + 1 = L + (j + 1)
      BY <1>4, <2>2, PartsAssumption
    <3>3. j > 1 => j - 1 \in 1 .. Parts /\ i - 1 = L + (j - 1)
      BY <1>4, <2>2, PartsAssumption
    <3>4. j < Parts => x[i + 1] = messages[j + 1] /\ Pushes(messages[j + 1]) /\ messages[j + 1].n = j + 1
      BY <1>2, <1>4, <3>2
    <3>5. j > 1 => x[i - 1] = messages[j - 1] /\ Pushes(messages[j - 1]) /\ messages[j - 1].n = j - 1
      BY <1>2, <1>4, <3>3
    <3> QED BY <3>1, <3>2, <3>4, <3>5
  <2> QED BY <1>6, <2>1, <2>2
<1>8. \A k \in Nat :
         /\ 0 < k /\ k < Parts => (L > 0 /\ Pushes(w[1]) /\ w[1].n = k + 1
                                     => Len(x) > 0 /\ Pushes(x[1]) /\ x[1].n = k + 1)
         /\ (L > 0 /\ Pushes(w[1]) => w[1].n = 1) => (Pushes(x[1]) => x[1].n = 1)
  <2>1. L > 0 => 1 \in 1 .. L /\ x[1] = w[1] /\ Len(x) > 0
    BY <1>4, PartsAssumption
  <2>2. L = 0 => x[1] = messages[1] /\ messages[1].n = 1
    <3>1. 1 \in 1 .. Parts
      BY PartsAssumption
    <3> QED BY <1>2, <1>4, <3>1
  <2>3. L > 0 \/ L = 0
    BY <1>4
  <2> QED BY <2>1, <2>2, <2>3
<1>9. Replies'
  <2> DEFINE k == Len(session.options)
  <2>1. k \in Nat
    BY DEF Inv, Typed, SessionTypes
  <2> HIDE DEF k
  <2>2. /\ k <= Parts
        /\ \A i \in 1 .. k : session.options[i] = i
        /\ 0 < k /\ k < Parts => L > 0 /\ Pushes(w[1]) /\ w[1].n = k + 1
        /\ k = 0 /\ L > 0 /\ Pushes(w[1]) => w[1].n = 1
    BY DEF Inv, Replies, k, w, L
  <2>3. /\ 0 < k /\ k < Parts => Len(x) > 0 /\ Pushes(x[1]) /\ x[1].n = k + 1
        /\ k = 0 /\ Len(x) > 0 /\ Pushes(x[1]) => x[1].n = 1
    BY <1>8, <2>1, <2>2
  <2> QED BY <1>5, <1>7, <2>2, <2>3 DEF Replies, k, x, Pushes
<1>10. \A i \in 1 .. Len(x) :
         \/ x[i].kind \notin {"AUTH_FAILED", "RESTART", "INFO"}
         \/ i \in 1 .. L /\ x[i] = w[i]
  BY <1>2, <1>4, <1>6
<1>11. Ends'
  BY <1>4, <1>10 DEF Ends, x
<1>12. Infos'
  <2> DEFINE m == Len(session.shown) + Len(session.held)
  <2>1. /\ \A i \in 1 .. L : Informs(w[i]) => w[i].n \in m + 1 .. server.infos
        /\ \A i, j \in 1 .. L : Informs(w[i]) /\ Informs(w[j]) /\ i < j => w[i].n < w[j].n
        /\ \A n \in m + 1 .. server.infos : \E i \in 1 .. L : Informs(w[i]) /\ w[i].n = n
    BY DEF Inv, Infos, w, L
  <2>2. \A i \in 1 .. Len(x) : Informs(x[i]) => i \in 1 .. L /\ x[i] = w[i]
    BY <1>10 DEF Informs
  <2>3. \A i \in 1 .. L : i \in 1 .. Len(x) /\ x[i] = w[i]
    BY <1>4, PartsAssumption
  <2> HIDE DEF m
  <2>4. /\ \A i \in 1 .. Len(x) : Informs(x[i]) => x[i].n \in m + 1 .. server.infos
        /\ \A i, j \in 1 .. Len(x) : Informs(x[i]) /\ Informs(x[j]) /\ i < j => x[i].n < x[j].n
        /\ \A n \in m + 1 .. server.infos : \E i \in 1 .. Len(x) : Informs(x[i]) /\ x[i].n = n
    BY <2>1, <2>2, <2>3
  <2> QED BY <1>3, <1>5, <2>4 DEF Inv, Infos, x, m, Informs
<1> QED BY <1>4, <1>9, <1>11, <1>12 DEF Inv

\* One message that is no part of a reply leaves the parts as they are.
LEMMA SendsOther ==
    ASSUME Inv, NEW m \in Message, ~Pushes(m), Sends(<<m>>)
    PROVE  /\ Typed' /\ Stages' /\ TunnelFollows' /\ Replies' /\ UNCHANGED session
           /\ Len(server'.wire) = Len(server.wire) + 1 /\ Len(server.wire) \in Nat
           /\ \A i \in 1 .. Len(server.wire) : server'.wire[i] = server.wire[i]
           /\ server'.wire[Len(server.wire) + 1] = m
           /\ \A i \in 1 .. Len(server.wire) :
                 server.wire[i].kind \notin {"AUTH_FAILED", "RESTART"}
<1> DEFINE messages == <<m>>
           L == Len(server.wire)
           w == server.wire
           x == server'.wire
<1>1. Len(messages) = 1 /\ messages[1] = m
  OBVIOUS
<1> HIDE DEF messages
<1>2. /\ Typed' /\ Stages' /\ TunnelFollows'
      /\ Len(x) = L + Len(messages) /\ L \in Nat
      /\ \A i \in 1 .. L : x[i] = w[i]
      /\ \A i \in 1 .. Len(messages) : x[L + i] = messages[i]
      /\ \A i \in 1 .. L : w[i].kind \notin {"AUTH_FAILED", "RESTART"}
  <2>1. Sends(messages)
    BY DEF messages
  <2> QED BY <2>1, SendsKind
<1>3. Len(x) = L + 1 /\ x[L + 1] = m /\ UNCHANGED session
  <2>1. 1 \in 1 .. Len(messages)
    BY <1>1
  <2> QED BY <1>1, <1>2, <2>1 DEF Sends
<1> HIDE DEF w, x, L
<1>4. Replies'
  <2> DEFINE k == Len(session.options)
  <2>1. /\ k <= Parts
        /\ \A i \in 1 .. k : session.options[i] = i
        /\ \A i \in 1 .. L : Pushes(w[i]) =>
              /\ w[i].n \in 1 .. Parts
              /\ w[i].n < Parts => i < L /\ Pushes(w[i + 1]) /\ w[i + 1].n = w[i].n + 1
              /\ w[i].n > 1 /\ i > 1 => Pushes(w[i - 1]) /\ w[i - 1].n = w[i].n - 1
        /\ 0 < k /\ k < Parts => L > 0 /\ Pushes(w[1]) /\ w[1].n = k + 1
        /\ k = 0 /\ L > 0 /\ Pushes(w[1]) => w[1].n = 1
    BY DEF Inv, Replies, k, w, L
  <2>2. \A i \in 1 .. Len(x) : Pushes(x[i]) => i \in 1 .. L /\ x[i] = w[i]
    BY <1>2, <1>3
  <2>3. \A i \in 1 .. L : i \in 1 .. Len(x) /\ i < Len(x) /\ x[i] = w[i]
    BY <1>2, <1>3
  <2>4. \A i \in 1 .. L : (i < L => i + 1 \in 1 .. L) /\ (i > 1 => i - 1 \in 1 .. L)
    BY <1>2
  <2>5. \A i \in 1 .. Len(x) : Pushes(x[i]) =>
              /\ x[i].n \in 1 .. Parts
              /\ x[i].n < Parts => i < Len(x) /\ Pushes(x[i + 1]) /\ x[i + 1].n = x[i].n + 1
              /\ x[i].n > 1 /\ i > 1 => Pushes(x[i - 1]) /\ x[i - 1].n = x[i].n - 1
    BY <2>1, <2>2, <2>3, <2>4
  <2>a. /\ L > 0 => 1 \in 1 .. L
        /\ 1 \in 1 .. L => L > 0
        /\ Len(x) > 0 /\ 1 \in 1 .. Len(x)
    BY <1>2, <1>3
  <2>6. /\ L > 0 => x[1] = w[1]
        /\ Pushes(x[1]) => L > 0
        /\ Len(x) > 0
    BY <2>2, <2>3, <2>a
  <2> HIDE DEF k
  <2>7. /\ 0 < k /\ k < Parts => Len(x) > 0 /\ Pushes(x[1]) /\ x[1].n = k + 1
        /\ k = 0 /\ Len(x) > 0 /\ Pushes(x[1]) => x[1].n = 1
    BY <2>1, <2>6
  <2> QED BY <1>3, <2>1, <2>5, <2>7 DEF Replies, k, x, Pushes
<1> QED BY <1>2, <1>3, <1>4 DEF w, x, L

\* An INFO message goes after the others.
LEMMA InformInv ==
    ASSUME Inv, Inform
    PROVE  Inv'
<1> DEFINE n == server.infos + 1
           m == [kind |-> "INFO", n |-> n]
           L == Len(server.wire)
           w == server.wire
           x == server'.wire
<1>1. /\ n \in 0 .. MaxInfo /\ n \in Nat /\ server.infos \in Nat
      /\ server.replies \in 0 .. MaxReplies /\ server.over \in BOOLEAN
  BY BoundAssumption DEF Inform, Inv, Typed, Server
<1>2. m \in Message /\ m.kind = "INFO" /\ m.n = n /\ ~Pushes(m) /\ Informs(m)
  BY <1>1 DEF Message, Pushes, Informs
<1>3. Sends(<<m>>) /\ server'.infos = n /\ server'.over = server.over
  <2>1. [server EXCEPT !.infos = n]
          = [server EXCEPT !.replies = server.replies, !.infos = n, !.over = server.over]
    BY DEF Inv, Typed, Server
  <2> DEFINE messages == <<m>>
  <2>2. ServerSends(messages, [server EXCEPT !.replies = server.replies, !.infos = n, !.over = server.over])
    <3>1. ServerSends(messages, [server EXCEPT !.infos = n])
      BY DEF Inform
    <3> HIDE DEF messages, n
    <3> QED BY <2>1, <3>1 DEF ServerSends
  <2>3. messages \in Seq(Message)
    <3> HIDE DEF m
    <3> QED BY <1>2
  <2>4. Sends(messages) /\ server'.infos = n /\ server'.over = server.over
    <3> HIDE DEF messages, n
    <3> QED BY <1>1, <2>2, <2>3, SendsTyped
  <2> QED BY <2>4
<1> HIDE DEF m
<1>4. /\ Typed' /\ Stages' /\ TunnelFollows' /\ Replies' /\ UNCHANGED session
      /\ Len(x) = L + 1 /\ L \in Nat /\ x[L + 1] = m
      /\ \A i \in 1 .. L : x[i] = w[i]
      /\ \A i \in 1 .. L : w[i].kind \notin {"AUTH_FAILED", "RESTART"}
  BY <1>2, <1>3, SendsOther
<1> HIDE DEF w, x, L
<1>5. Ends'
  <2>1. \A i \in 1 .. Len(x) : x[i].kind \notin {"AUTH_FAILED", "RESTART"}
    BY <1>2, <1>4
  <2> QED BY <2>1 DEF Ends, x
<1>6. Infos'
  <2> DEFINE p == Len(session.shown)
             q == Len(session.held)
  <2>1. p \in Nat /\ q \in Nat
    BY DEF Inv, Typed, SessionTypes
  <2>2. /\ p + q <= server.infos
        /\ \A i \in 1 .. L : Informs(w[i]) => w[i].n \in p + q + 1 .. server.infos
        /\ \A i, j \in 1 .. L : Informs(w[i]) /\ Informs(w[j]) /\ i < j => w[i].n < w[j].n
        /\ \A k \in p + q + 1 .. server.infos : \E i \in 1 .. L : Informs(w[i]) /\ w[i].n = k
    BY DEF Inv, Infos, w, L
  <2>3. \A i \in 1 .. Len(x) : (i \in 1 .. L /\ x[i] = w[i]) \/ (i = L + 1 /\ x[i] = m)
    BY <1>4
  <2>4. \A i \in 1 .. L : i \in 1 .. Len(x) /\ x[i] = w[i]
    BY <1>4
  <2>5. L + 1 \in 1 .. Len(x)
    BY <1>4
  <2> HIDE DEF p, q
  <2>6. \A i \in 1 .. Len(x) : Informs(x[i]) => x[i].n \in p + q + 1 .. n
    BY <1>1, <1>2, <2>1, <2>2, <2>3
  <2>7. \A i, j \in 1 .. Len(x) : Informs(x[i]) /\ Informs(x[j]) /\ i < j => x[i].n < x[j].n
    <3> SUFFICES ASSUME NEW i \in 1 .. Len(x), NEW j \in 1 .. Len(x),
                        Informs(x[i]), Informs(x[j]), i < j
                 PROVE  x[i].n < x[j].n
      OBVIOUS
    <3>1. i \in 1 .. L /\ x[i] = w[i] /\ w[i].n \in p + q + 1 .. server.infos
      BY <1>4, <2>2, <2>3
    <3>2. CASE j \in 1 .. L
      BY <2>2, <2>4, <3>1, <3>2
    <3>3. CASE j = L + 1
      BY <1>1, <1>2, <1>4, <2>1, <3>1, <3>3
    <3> QED BY <2>3, <3>2, <3>3
  <2>8. \A k \in p + q + 1 .. n : \E i \in 1 .. Len(x) : Informs(x[i]) /\ x[i].n = k
    <3> TAKE k \in p + q + 1 .. n
    <3>1. CASE k = n
      BY <1>2, <1>4, <2>5, <3>1
    <3>2. CASE k # n
      <4>1. k \in p + q + 1 .. server.infos
        BY <1>1, <2>1, <3>2
      <4> QED BY <2>2, <2>4, <4>1
    <3> QED BY <3>1, <3>2
  <2>9. /\ p + q <= server'.infos
        /\ \A i \in 1 .. p : session.shown[i] = i
        /\ \A i \in 1 .. q : session.held[i] = p + i
    <3>1. /\ \A i \in 1 .. p : session.shown[i] = i
          /\ \A i \in 1 .. q : session.held[i] = p + i
      BY DEF Inv, Infos, p, q
    <3> QED BY <1>1, <1>3, <2>1, <2>2, <3>1
  <2> QED BY <1>3, <1>4, <2>6, <2>7, <2>8, <2>9 DEF Infos, x, p, q, Informs
<1> QED BY <1>4, <1>5, <1>6 DEF Inv

\* The last message of a server.
LEMMA EndSessionInv ==
    ASSUME Inv, NEW kind \in {"AUTH_FAILED", "RESTART"}, EndSession(kind)
    PROVE  Inv'
<1> DEFINE m == [kind |-> kind, n |-> 0]
           L == Len(server.wire)
           w == server.wire
           x == server'.wire
<1>1. server.infos \in 0 .. MaxInfo /\ server.replies \in 0 .. MaxReplies
  BY DEF Inv, Typed, Server
<1>2. m \in Message /\ ~Pushes(m) /\ ~Informs(m)
  BY DEF Message, Pushes, Informs
<1>3. Sends(<<m>>) /\ server'.infos = server.infos /\ server'.over = TRUE
  <2>1. [server EXCEPT !.over = TRUE]
          = [server EXCEPT !.replies = server.replies, !.infos = server.infos, !.over = TRUE]
    BY DEF Inv, Typed, Server
  <2> DEFINE messages == <<m>>
  <2>2. ServerSends(messages,
            [server EXCEPT !.replies = server.replies, !.infos = server.infos, !.over = TRUE])
    <3>1. ServerSends(messages, [server EXCEPT !.over = TRUE])
      BY DEF EndSession
    <3> HIDE DEF messages
    <3> QED BY <2>1, <3>1 DEF ServerSends
  <2>3. messages \in Seq(Message)
    <3> HIDE DEF m
    <3> QED BY <1>2
  <2>4. Sends(messages) /\ server'.infos = server.infos /\ server'.over = TRUE
    <3> HIDE DEF messages
    <3> QED BY <1>1, <2>2, <2>3, SendsTyped
  <2> QED BY <2>4
<1> HIDE DEF m
<1>4. /\ Typed' /\ Stages' /\ TunnelFollows' /\ Replies' /\ UNCHANGED session
      /\ Len(x) = L + 1 /\ L \in Nat /\ x[L + 1] = m
      /\ \A i \in 1 .. L : x[i] = w[i]
      /\ \A i \in 1 .. L : w[i].kind \notin {"AUTH_FAILED", "RESTART"}
  BY <1>2, <1>3, SendsOther
<1> HIDE DEF w, x, L
<1>5. \A i \in 1 .. Len(x) : (i \in 1 .. L /\ x[i] = w[i]) \/ (i = L + 1 /\ x[i] = m)
  BY <1>4
<1>6. \A i \in 1 .. L : i \in 1 .. Len(x) /\ x[i] = w[i]
  BY <1>4
<1>7. Ends'
  BY <1>3, <1>4, <1>5 DEF Ends, x
<1>8. Infos'
  <2> DEFINE r == Len(session.shown) + Len(session.held)
  <2>1. /\ \A i \in 1 .. L : Informs(w[i]) => w[i].n \in r + 1 .. server.infos
        /\ \A i, j \in 1 .. L : Informs(w[i]) /\ Informs(w[j]) /\ i < j => w[i].n < w[j].n
        /\ \A k \in r + 1 .. server.infos : \E i \in 1 .. L : Informs(w[i]) /\ w[i].n = k
    BY DEF Inv, Infos, w, L
  <2>2. \A i \in 1 .. Len(x) : Informs(x[i]) => i \in 1 .. L /\ x[i] = w[i]
    BY <1>2, <1>5
  <2> HIDE DEF r
  <2>3. /\ \A i \in 1 .. Len(x) : Informs(x[i]) => x[i].n \in r + 1 .. server.infos
        /\ \A i, j \in 1 .. Len(x) : Informs(x[i]) /\ Informs(x[j]) /\ i < j => x[i].n < x[j].n
        /\ \A k \in r + 1 .. server.infos : \E i \in 1 .. Len(x) : Informs(x[i]) /\ x[i].n = k
    BY <1>6, <2>1, <2>2
  <2> QED BY <1>3, <1>4, <2>3 DEF Inv, Infos, x, r, Informs
<1> QED BY <1>4, <1>7, <1>8 DEF Inv

-----------------------------------------------------------------------------
(* A message is taken off the wire.                                            *)

\* A reply is complete when as many parts as it has were received.
LEMMA CompleteFacts ==
    ASSUME Inv
    PROVE  /\ Complete(session) <=> Len(session.options) = Parts
           /\ Len(session.options) \in 0 .. Parts
           /\ Partial(session) <=> Len(session.options) > 0
<1> DEFINE k == Len(session.options)
<1>1. k \in Nat /\ k <= Parts /\ (session.options = <<>> <=> k = 0)
  BY DEF Inv, Typed, SessionTypes, Replies
<1>2. \A i \in 1 .. k : session.options[i] = i
  BY DEF Inv, Replies
<1> HIDE DEF k
<1>3. k > 0 => k \in 1 .. k
  BY <1>1
<1>4. Complete(session) <=> k > 0 /\ session.options[k] = Parts
  BY <1>1 DEF Complete, Partial, k
<1>5. Partial(session) <=> k > 0
  BY <1>1 DEF Partial
<1> QED BY <1>1, <1>2, <1>3, <1>4, <1>5, PartsAssumption DEF k

Moved ==
    LET w == server.wire
        x == server'.wire
    IN  /\ batch \in Nat /\ batch > 0 /\ batch' = batch - 1 /\ batch' \in 0 .. Len(x)
        /\ server' \in Server
        /\ Len(w) \in Nat /\ Len(w) > 0 /\ Len(x) = Len(w) - 1
        /\ \A i \in 1 .. Len(x) : x[i] = w[i + 1] /\ i + 1 \in 1 .. Len(w)
        /\ w[1] \in Message /\ 1 \in 1 .. Len(w)
        /\ server'.over = server.over /\ server'.infos = server.infos
        /\ server'.pushes = server.pushes

\* control_recv() takes the first message; a halted session has a complete reply.
LEMMA ReceiveMoves ==
    ASSUME Inv, Receive
    PROVE  /\ Moved /\ ControlRecv(session, server.wire[1])
           /\ session.active /\ session.heard
           /\ session.halt => Complete(session)
<1> DEFINE w == server.wire
           x == Tail(w)
<1>1. /\ server' = [server EXCEPT !.wire = Tail(@)] /\ batch > 0 /\ batch' = batch - 1
      /\ ControlRecv(session, Head(server.wire))
  BY DEF Receive
<1>2. w \in Seq(Message) /\ batch \in 0 .. Len(w) /\ server \in Server
  BY DEF Inv, Typed, Server
<1>3. server' = [server EXCEPT !.wire = x]
  BY <1>1, <1>2 DEF Server
<1> HIDE DEF w, x
<1>4. w # <<>> /\ Len(w) \in Nat /\ Len(w) > 0
  <2>1. Len(w) \in Nat /\ (Len(w) = 0 <=> w = <<>>)
    BY <1>2, Queue
  <2> QED BY <1>1, <1>2, <2>1
<1>5. /\ Head(w) = w[1] /\ Head(w) \in Message /\ x \in Seq(Message)
      /\ Len(x) = Len(w) - 1 /\ \A i \in 1 .. Len(w) - 1 : x[i] = w[i + 1]
  BY <1>2, <1>4, Queue DEF x
<1>6. /\ server' \in Server /\ server'.wire = x /\ server'.over = server.over
      /\ server'.infos = server.infos /\ server'.pushes = server.pushes
  <2> HIDE DEF Message
  <2> QED BY <1>2, <1>3, <1>5 DEF Server
<1>7. /\ \A i \in 1 .. Len(x) : x[i] = w[i + 1] /\ i + 1 \in 1 .. Len(w)
      /\ 1 \in 1 .. Len(w) /\ batch - 1 \in 0 .. Len(x)
  BY <1>1, <1>2, <1>4, <1>5
<1>8. Moved
  BY <1>1, <1>2, <1>4, <1>5, <1>6, <1>7 DEF Moved, w
<1> QED BY <1>1, <1>5, <1>8 DEF Inv, Stages, w

\* After the message that ends a session, nothing is left to read.
LEMMA MovedEnds ==
    ASSUME Inv, Moved
    PROVE  /\ Ends'
           /\ server.wire[1].kind \in {"AUTH_FAILED", "RESTART"} => batch' = 0
<1> DEFINE w == server.wire
           x == server'.wire
<1>1. \A i \in 1 .. Len(w) : w[i].kind \in {"AUTH_FAILED", "RESTART"} => i = Len(w) /\ server.over
  BY DEF Inv, Ends
<1>2. /\ batch' \in 0 .. Len(x) /\ Len(w) \in Nat /\ Len(x) = Len(w) - 1
      /\ \A i \in 1 .. Len(x) : x[i] = w[i + 1] /\ i + 1 \in 1 .. Len(w)
      /\ 1 \in 1 .. Len(w) /\ server'.over = server.over
  BY DEF Moved
<1> HIDE DEF w, x
<1>3. \A i \in 1 .. Len(x) : x[i].kind \in {"AUTH_FAILED", "RESTART"} => i = Len(x) /\ server'.over
  <2> SUFFICES ASSUME NEW i \in 1 .. Len(x), x[i].kind \in {"AUTH_FAILED", "RESTART"}
               PROVE  i = Len(x) /\ server'.over
    OBVIOUS
  <2>1. x[i] = w[i + 1] /\ i + 1 \in 1 .. Len(w) /\ i \in Nat
    BY <1>2
  <2>2. i + 1 = Len(w) /\ server.over
    BY <1>1, <2>1
  <2> QED BY <1>2, <2>1, <2>2
<1>4. w[1].kind \in {"AUTH_FAILED", "RESTART"} => batch' = 0
  BY <1>1, <1>2
<1> QED BY <1>3, <1>4 DEF Ends, w, x

\* What remains of the parts on the wire, and how the first of them goes on.
LEMMA MovedParts ==
    ASSUME Inv, Moved
    PROVE  LET w == server.wire
               x == server'.wire
           IN  /\ \A i \in 1 .. Len(x) : Pushes(x[i]) =>
                     /\ x[i].n \in 1 .. Parts
                     /\ x[i].n < Parts =>
                           i < Len(x) /\ Pushes(x[i + 1]) /\ x[i + 1].n = x[i].n + 1
                     /\ x[i].n > 1 /\ i > 1 => Pushes(x[i - 1]) /\ x[i - 1].n = x[i].n - 1
               /\ Len(x) > 0 /\ Pushes(x[1]) /\ x[1].n # 1 =>
                     Pushes(w[1]) /\ w[1].n = x[1].n - 1 /\ x[1].n \in 1 .. Parts
               /\ Pushes(w[1]) => w[1].n \in 1 .. Parts
               /\ Pushes(w[1]) /\ w[1].n < Parts =>
                     Len(x) > 0 /\ Pushes(x[1]) /\ x[1].n = w[1].n + 1
<1> DEFINE w == server.wire
           x == server'.wire
<1>1. \A i \in 1 .. Len(w) : Pushes(w[i]) =>
          /\ w[i].n \in 1 .. Parts
          /\ w[i].n < Parts => i < Len(w) /\ Pushes(w[i + 1]) /\ w[i + 1].n = w[i].n + 1
          /\ w[i].n > 1 /\ i > 1 => Pushes(w[i - 1]) /\ w[i - 1].n = w[i].n - 1
  BY DEF Inv, Replies
<1>2. /\ Len(w) \in Nat /\ Len(w) > 0 /\ Len(x) = Len(w) - 1
      /\ \A i \in 1 .. Len(x) : x[i] = w[i + 1] /\ i + 1 \in 1 .. Len(w)
      /\ 1 \in 1 .. Len(w)
  BY DEF Moved
<1> HIDE DEF w, x
<1>3. \A i \in 1 .. Len(x) : Pushes(x[i]) =>
          /\ x[i].n \in 1 .. Parts
          /\ x[i].n < Parts => i < Len(x) /\ Pushes(x[i + 1]) /\ x[i + 1].n = x[i].n + 1
          /\ x[i].n > 1 /\ i > 1 => Pushes(x[i - 1]) /\ x[i - 1].n = x[i].n - 1
  <2> SUFFICES ASSUME NEW i \in 1 .. Len(x), Pushes(x[i])
               PROVE  /\ x[i].n \in 1 .. Parts
                      /\ x[i].n < Parts =>
                            i < Len(x) /\ Pushes(x[i + 1]) /\ x[i + 1].n = x[i].n + 1
                      /\ x[i].n > 1 /\ i > 1 => Pushes(x[i - 1]) /\ x[i - 1].n = x[i].n - 1
    OBVIOUS
  <2>1. x[i] = w[i + 1] /\ i + 1 \in 1 .. Len(w) /\ i \in Nat /\ i > 0 /\ (i + 1) - 1 = i
    BY <1>2
  <2>2. /\ w[i + 1].n \in 1 .. Parts
        /\ w[i + 1].n < Parts => /\ i + 1 < Len(w) /\ Pushes(w[(i + 1) + 1])
                                 /\ w[(i + 1) + 1].n = w[i + 1].n + 1
        /\ w[i + 1].n > 1 => Pushes(w[i]) /\ w[i].n = w[i + 1].n - 1
    <3>1. Pushes(w[i + 1]) /\ i + 1 > 1
      BY <2>1
    <3> QED BY <1>1, <2>1, <3>1
  <2>3. i + 1 < Len(w) => i < Len(x) /\ i + 1 \in 1 .. Len(x)
    BY <1>2, <2>1
  <2>4. i > 1 => i - 1 \in 1 .. Len(x) /\ (i - 1) + 1 = i
    BY <1>2, <2>1
  <2>5. (i + 1 < Len(w) => x[i + 1] = w[(i + 1) + 1]) /\ (i > 1 => x[i - 1] = w[i])
    BY <1>2, <2>3, <2>4
  <2> QED BY <2>1, <2>2, <2>3, <2>5
<1>4. Len(x) > 0 => 1 \in 1 .. Len(x) /\ x[1] = w[2] /\ 2 \in 1 .. Len(w)
  BY <1>2
<1>5. 1 < Len(w) => Len(x) > 0 /\ 1 + 1 = 2
  BY <1>2
<1>6. Len(x) > 0 /\ Pushes(x[1]) /\ x[1].n # 1 =>
          Pushes(w[1]) /\ w[1].n = x[1].n - 1 /\ x[1].n \in 1 .. Parts
  <2> HAVE Len(x) > 0 /\ Pushes(x[1]) /\ x[1].n # 1
  <2>1. Pushes(w[2]) /\ w[2] = x[1] /\ 2 \in 1 .. Len(w) /\ 2 > 1 /\ 2 - 1 = 1
    BY <1>4
  <2>2. w[2].n \in 1 .. Parts /\ w[2].n > 1
    BY <1>1, <2>1
  <2> QED BY <1>1, <2>1, <2>2
<1>7. Pushes(w[1]) => w[1].n \in 1 .. Parts
  BY <1>1, <1>2
<1>8. Pushes(w[1]) /\ w[1].n < Parts => Len(x) > 0 /\ Pushes(x[1]) /\ x[1].n = w[1].n + 1
  <2> HAVE Pushes(w[1]) /\ w[1].n < Parts
  <2>1. 1 < Len(w) /\ Pushes(w[1 + 1]) /\ w[1 + 1].n = w[1].n + 1
    BY <1>1, <1>2
  <2> QED BY <1>4, <1>5, <2>1
<1> QED BY <1>3, <1>6, <1>7, <1>8 DEF w, x

\* A message that adds no part leaves the parts in order.
LEMMA RepliesStay ==
    ASSUME Inv, Moved, session'.options = session.options,
           ~Pushes(server.wire[1]) \/ Complete(session)
    PROVE  Replies'
<1> DEFINE w == server.wire
           x == server'.wire
           k == Len(session.options)
<1>1. /\ k \in 0 .. Parts /\ (Complete(session) <=> k = Parts)
      /\ \A i \in 1 .. k : session.options[i] = i
      /\ 0 < k /\ k < Parts => Pushes(w[1])
  BY CompleteFacts DEF Inv, Replies
<1>2. /\ \A i \in 1 .. Len(x) : Pushes(x[i]) =>
            /\ x[i].n \in 1 .. Parts
            /\ x[i].n < Parts => i < Len(x) /\ Pushes(x[i + 1]) /\ x[i + 1].n = x[i].n + 1
            /\ x[i].n > 1 /\ i > 1 => Pushes(x[i - 1]) /\ x[i - 1].n = x[i].n - 1
      /\ Len(x) > 0 /\ Pushes(x[1]) /\ x[1].n # 1 => Pushes(w[1])
  BY MovedParts
<1> HIDE DEF w, x, k
<1>3. k = Parts \/ (k = 0 /\ ~Pushes(w[1]))
  BY <1>1, PartsAssumption DEF w
<1>4. /\ k <= Parts
      /\ 0 < k /\ k < Parts => Len(x) > 0 /\ Pushes(x[1]) /\ x[1].n = k + 1
      /\ k = 0 /\ Len(x) > 0 /\ Pushes(x[1]) => x[1].n = 1
  BY <1>1, <1>2, <1>3, PartsAssumption
<1> QED BY <1>1, <1>2, <1>4 DEF Replies, Pushes, x, k

\* The part on the wire is the one that comes next.
LEMMA RepliesGrow ==
    ASSUME Inv, Moved, Pushes(server.wire[1]), ~Complete(session)
    PROVE  LET n == server.wire[1].n
               added == Append(session.options, n)
           IN  /\ n \in 1 .. Parts /\ n = Len(session.options) + 1
               /\ added \in Seq(1 .. Parts)
               /\ Len(added) = n /\ added # <<>> /\ added[Len(added)] = n
               /\ session'.options = added => Replies'
<1> DEFINE w == server.wire
           x == server'.wire
           k == Len(session.options)
           n == w[1].n
           added == Append(session.options, n)
<1>1. /\ k \in 0 .. Parts /\ (Complete(session) <=> k = Parts)
      /\ \A i \in 1 .. k : session.options[i] = i
      /\ 0 < k /\ k < Parts => Len(w) > 0 /\ Pushes(w[1]) /\ w[1].n = k + 1
      /\ k = 0 /\ Len(w) > 0 /\ Pushes(w[1]) => w[1].n = 1
  BY CompleteFacts DEF Inv, Replies
<1>2. Len(w) > 0 /\ Pushes(w[1]) /\ k # Parts
  BY <1>1 DEF Moved
<1>3. /\ \A i \in 1 .. Len(x) : Pushes(x[i]) =>
            /\ x[i].n \in 1 .. Parts
            /\ x[i].n < Parts => i < Len(x) /\ Pushes(x[i + 1]) /\ x[i + 1].n = x[i].n + 1
            /\ x[i].n > 1 /\ i > 1 => Pushes(x[i - 1]) /\ x[i - 1].n = x[i].n - 1
      /\ n \in 1 .. Parts
      /\ n < Parts => Len(x) > 0 /\ Pushes(x[1]) /\ x[1].n = n + 1
  BY <1>2, MovedParts
<1>4. /\ added \in Seq(1 .. Parts) /\ Len(added) = k + 1
      /\ added[k + 1] = n /\ \A i \in 1 .. k : added[i] = session.options[i]
  <2> DEFINE S == 1 .. Parts
             m == n
  <2>1. session.options \in Seq(S) /\ m \in S
    BY <1>3 DEF Inv, Typed, SessionTypes
  <2> HIDE DEF S, m
  <2>2. LET a == Append(session.options, m)
        IN  /\ a \in Seq(S) /\ Len(a) = k + 1
            /\ a[k + 1] = m /\ \A i \in 1 .. k : a[i] = session.options[i]
    BY <2>1, Queue
  <2> QED BY <2>2 DEF S, m
<1> HIDE DEF w, x, k, n, added
<1>5. n = k + 1
  BY <1>1, <1>2, PartsAssumption DEF n
<1>6. /\ Len(added) = n /\ added # <<>> /\ added[Len(added)] = n
      /\ \A i \in 1 .. n : added[i] = i
  <2>1. added # <<>>
    <3>1. Len(added) > 0
      BY <1>1, <1>4
    <3>2. Len(<<>>) = 0
      OBVIOUS
    <3> QED BY <3>1, <3>2
  <2> QED BY <1>1, <1>4, <1>5, <2>1
<1>7. ASSUME session'.options = added
      PROVE  Replies'
  <2>1. /\ n <= Parts
        /\ 0 < n /\ n < Parts => Len(x) > 0 /\ Pushes(x[1]) /\ x[1].n = n + 1
        /\ n = 0 /\ Len(x) > 0 /\ Pushes(x[1]) => x[1].n = 1
    BY <1>1, <1>3, <1>5
  <2> QED BY <1>3, <1>6, <1>7, <2>1 DEF Replies, Pushes, x
<1> QED BY <1>3, <1>4, <1>5, <1>6, <1>7 DEF w, k, n, added

\* The INFO message on the wire is the one that comes next.
LEMMA MovedInfos ==
    ASSUME Inv, Moved
    PROVE  LET w == server.wire
               x == server'.wire
               r == Len(session.shown) + Len(session.held)
               s == IF Informs(w[1]) THEN r + 1 ELSE r
           IN  /\ r \in Nat /\ s <= server.infos
               /\ Informs(w[1]) => w[1].n = r + 1
               /\ \A i \in 1 .. Len(x) : Informs(x[i]) => x[i].n \in s + 1 .. server.infos
               /\ \A i, j \in 1 .. Len(x) :
                     Informs(x[i]) /\ Informs(x[j]) /\ i < j => x[i].n < x[j].n
               /\ \A n \in s + 1 .. server.infos :
                     \E i \in 1 .. Len(x) : Informs(x[i]) /\ x[i].n = n
<1> DEFINE w == server.wire
           x == server'.wire
           r == Len(session.shown) + Len(session.held)
           s == IF Informs(w[1]) THEN r + 1 ELSE r
           infos == server.infos
<1>1. r \in Nat /\ infos \in Nat /\ r <= infos
  BY BoundAssumption DEF Inv, Typed, SessionTypes, Server, Infos
<1>2. /\ \A i \in 1 .. Len(w) : Informs(w[i]) => w[i].n \in r + 1 .. infos
      /\ \A i, j \in 1 .. Len(w) : Informs(w[i]) /\ Informs(w[j]) /\ i < j => w[i].n < w[j].n
      /\ \A n \in r + 1 .. infos : \E i \in 1 .. Len(w) : Informs(w[i]) /\ w[i].n = n
  BY DEF Inv, Infos
<1>3. /\ Len(w) \in Nat /\ Len(x) = Len(w) - 1 /\ 1 \in 1 .. Len(w)
      /\ \A i \in 1 .. Len(x) : x[i] = w[i + 1] /\ i + 1 \in 1 .. Len(w)
  BY DEF Moved
<1> HIDE DEF w, x, r, infos
<1>4. ASSUME Informs(w[1])
      PROVE  w[1].n = r + 1 /\ r + 1 <= infos
  <2>1. w[1].n \in r + 1 .. infos
    BY <1>2, <1>3, <1>4
  <2>2. r + 1 \in r + 1 .. infos
    BY <1>1, <2>1
  <2>3. PICK i \in 1 .. Len(w) : Informs(w[i]) /\ w[i].n = r + 1
    BY <1>2, <2>2
  <2>4. CASE i = 1
    BY <1>1, <2>1, <2>3, <2>4
  <2>5. CASE i # 1
    <3>1. 1 < i
      BY <1>3, <2>5
    <3>2. w[1].n < r + 1
      BY <1>2, <1>3, <1>4, <2>3, <3>1
    <3> QED BY <1>1, <2>1, <3>2
  <2> QED BY <2>4, <2>5
<1>5. s \in Nat /\ s <= infos
  BY <1>1, <1>4
<1>6. \A i \in 1 .. Len(x) : Informs(x[i]) => x[i].n \in s + 1 .. infos
  <2> SUFFICES ASSUME NEW i \in 1 .. Len(x), Informs(x[i])
               PROVE  x[i].n \in s + 1 .. infos
    OBVIOUS
  <2>1. x[i] = w[i + 1] /\ i + 1 \in 1 .. Len(w) /\ 1 < i + 1
    BY <1>3
  <2>2. w[i + 1].n \in r + 1 .. infos
    BY <1>2, <2>1
  <2>3. CASE Informs(w[1])
    <3>1. w[1].n < w[i + 1].n
      BY <1>2, <1>3, <2>1, <2>3
    <3> QED BY <1>1, <1>4, <2>1, <2>2, <2>3, <3>1
  <2> QED BY <2>1, <2>2, <2>3
<1>7. \A i, j \in 1 .. Len(x) : Informs(x[i]) /\ Informs(x[j]) /\ i < j => x[i].n < x[j].n
  <2> SUFFICES ASSUME NEW i \in 1 .. Len(x), NEW j \in 1 .. Len(x),
                      Informs(x[i]), Informs(x[j]), i < j
               PROVE  x[i].n < x[j].n
    OBVIOUS
  <2>1. i + 1 < j + 1
    BY <1>3
  <2> QED BY <1>2, <1>3, <2>1
<1>8. \A n \in s + 1 .. infos : \E i \in 1 .. Len(x) : Informs(x[i]) /\ x[i].n = n
  <2> TAKE n \in s + 1 .. infos
  <2>1. n \in r + 1 .. infos
    BY <1>1
  <2>2. PICK i \in 1 .. Len(w) : Informs(w[i]) /\ w[i].n = n
    BY <1>2, <2>1
  <2>3. i # 1
    <3> SUFFICES ASSUME i = 1 PROVE FALSE
      OBVIOUS
    <3>1. Informs(w[1]) /\ w[1].n = n /\ w[1].n = r + 1 /\ s = r + 1
      BY <1>4, <2>2
    <3> QED BY <1>1, <3>1
  <2> DEFINE j == i - 1
  <2>4. j \in 1 .. Len(x) /\ j + 1 = i
    BY <1>3, <2>3
  <2> HIDE DEF j
  <2>5. x[j] = w[i]
    BY <1>3, <2>4
  <2> QED BY <2>2, <2>4, <2>5
<1> QED BY <1>1, <1>4, <1>5, <1>6, <1>7, <1>8 DEF w, x, r, infos

\* The next message is the one to be shown or held next.
LEMMA InfosFollow ==
    ASSUME Inv, Moved,
           LET r == Len(session.shown) + Len(session.held)
           IN  Len(session'.shown) + Len(session'.held)
                 = IF Informs(server.wire[1]) THEN r + 1 ELSE r,
           \A i \in 1 .. Len(session'.shown) : session'.shown[i] = i,
           \A i \in 1 .. Len(session'.held) : session'.held[i] = Len(session'.shown) + i
    PROVE  Infos'
  BY MovedInfos DEF Moved, Infos, Informs

\* Any other message leaves them in order.
LEMMA InfosStay ==
    ASSUME Inv, Moved, ~Informs(server.wire[1]),
           session'.shown = session.shown, session'.held = session.held
    PROVE  Infos'
<1>1. /\ \A i \in 1 .. Len(session.shown) : session.shown[i] = i
      /\ \A i \in 1 .. Len(session.held) : session.held[i] = Len(session.shown) + i
  BY DEF Inv, Infos
<1> QED BY <1>1, InfosFollow

\* A reply that comes again.
LEMMA AgainInv ==
    ASSUME Inv, Moved, Pushes(server.wire[1]), Complete(session),
           RecvPushReply(session, server.wire[1].n)
    PROVE  Inv' /\ Still
<1>1. session' = SetHousekeepingTimer(session) /\ UNCHANGED <<stopped, tunnel>>
  BY DEF RecvPushReply, Become
<1>2. session \in SessionTypes /\ "push" \in Timer
  BY DEF Inv, Typed, Timer
<1>3. session' \in SessionTypes
  BY <1>1, <1>2, TimersTyped
<1>4. /\ Same(session) /\ session'.halt = session.halt /\ session'.heard = session.heard
      /\ session'.active = session.active /\ session'.tun = session.tun
      /\ session'.due = session.due /\ session'.told = session.told
      /\ session'.armed \subseteq session.armed \cup {"push", "housekeeping"}
  BY <1>1, <1>2, TimersSame DEF Same
<1>5. Typed'
  BY <1>1, <1>3 DEF Inv, Typed, Moved
<1>6. Still
  BY <1>1, <1>4 DEF Still, Inv, Stages, Moved
<1>7. Stages' /\ TunnelFollows'
  BY <1>5, <1>6, StillStages DEF Moved
<1>8. Replies' /\ Ends' /\ Infos'
  <2>1. ~Informs(server.wire[1])
    BY DEF Pushes, Informs
  <2> QED BY <1>4, <2>1, RepliesStay, MovedEnds, InfosStay DEF Same
<1> QED BY <1>5, <1>6, <1>7, <1>8 DEF Inv

\* What a session is with one more part of the reply.
LEMMA AddedFacts ==
    ASSUME Inv, Moved, Pushes(server.wire[1]), ~Complete(session)
    PROVE  LET s == [session EXCEPT !.options = Append(@, server.wire[1].n)]
           IN  /\ s \in SessionTypes
               /\ s.num = session.num /\ s.halt = session.halt /\ s.begun = session.begun
               /\ s.heard = session.heard /\ s.active = session.active
               /\ s.options = Append(session.options, server.wire[1].n)
               /\ s.connected = session.connected /\ s.tun = session.tun
               /\ s.armed = session.armed /\ s.due = session.due
               /\ s.holding = session.holding /\ s.held = session.held
               /\ s.shown = session.shown /\ s.told = session.told
               /\ Complete(s) <=> server.wire[1].n = Parts
               /\ Complete(s) <=> s.options # <<>> /\ s.options[Len(s.options)] = Parts
<1> DEFINE options == Append(session.options, server.wire[1].n)
           s == [session EXCEPT !.options = options]
<1>1. /\ options \in Seq(1 .. Parts) /\ options # <<>>
      /\ options[Len(options)] = server.wire[1].n
  BY RepliesGrow
<1>2. [session EXCEPT !.options = Append(@, server.wire[1].n)] = s
  BY DEF Inv, Typed, SessionTypes
<1> HIDE DEF options
<1>3. /\ s \in SessionTypes
      /\ s.num = session.num /\ s.halt = session.halt /\ s.begun = session.begun
      /\ s.heard = session.heard /\ s.active = session.active
      /\ s.options = options
      /\ s.connected = session.connected /\ s.tun = session.tun
      /\ s.armed = session.armed /\ s.due = session.due
      /\ s.holding = session.holding /\ s.held = session.held
      /\ s.shown = session.shown /\ s.told = session.told
  BY <1>1 DEF Inv, Typed, SessionTypes
<1> HIDE DEF s
<1>4. Complete(s) <=> s.options # <<>> /\ s.options[Len(s.options)] = Parts
  BY DEF Complete, Partial
<1> QED BY <1>1, <1>2, <1>3, <1>4 DEF options

\* A part that does not complete the reply.
LEMMA PartInv ==
    ASSUME Inv, Moved, session.active, Pushes(server.wire[1]), ~Complete(session), ~session.halt,
           LET s == [session EXCEPT !.options = Append(@, server.wire[1].n)]
           IN  ~Complete(s) /\ Become(SetHousekeepingTimer(s))
    PROVE  Inv' /\ SameForOwner
<1> DEFINE s == [session EXCEPT !.options = Append(@, server.wire[1].n)]
<1>1. session' = SetHousekeepingTimer(s) /\ UNCHANGED <<stopped, tunnel>>
  BY DEF Become
<1>2. /\ s \in SessionTypes /\ s.num = session.num /\ s.halt = session.halt
      /\ s.heard = session.heard /\ s.active = session.active
      /\ s.options = Append(session.options, server.wire[1].n)
      /\ s.connected = session.connected /\ s.tun = session.tun
      /\ s.armed = session.armed /\ s.due = session.due
      /\ s.holding = session.holding /\ s.held = session.held
      /\ s.shown = session.shown /\ s.told = session.told
  BY AddedFacts
<1> HIDE DEF s
<1>3. session' \in SessionTypes /\ "push" \in Timer
  BY <1>1, <1>2, TimersTyped DEF Timer
<1>4. /\ session'.num = s.num /\ session'.halt = s.halt /\ session'.heard = s.heard
      /\ session'.active = s.active /\ session'.options = s.options
      /\ session'.connected = s.connected /\ session'.tun = s.tun /\ session'.due = s.due
      /\ session'.holding = s.holding /\ session'.held = s.held
      /\ session'.shown = s.shown /\ session'.told = s.told
      /\ session'.armed \subseteq s.armed \cup {"push", "housekeeping"}
  BY <1>1, <1>2, HousekeepingSame
<1>5. Typed'
  BY <1>1, <1>3 DEF Inv, Typed, Moved
<1>6. ~session.connected
  BY DEF Inv, Stages
<1>7. Stages'
  BY <1>1, <1>2, <1>4, <1>6 DEF Inv, Stages, Moved
<1>8. TunnelFollows'
  BY <1>1, <1>2, <1>4 DEF Inv, TunnelFollows, Moved, TunFollows, EndsAt, Staged
<1>9. Replies' /\ Ends' /\ Infos'
  <2>1. ~Informs(server.wire[1])
    BY DEF Pushes, Informs
  <2> QED BY <1>2, <1>4, <2>1, RepliesGrow, MovedEnds, InfosStay
<1> QED BY <1>2, <1>4, <1>5, <1>7, <1>8, <1>9 DEF Inv, SameForOwner

\* The reply is complete and the tunnel comes up.
LEMMA ConnectInv ==
    ASSUME Inv, Moved, session.heard, session.active,
           Pushes(server.wire[1]), ~Complete(session), ~session.halt,
           NEW inactive \in SUBSET {"inactive"},
           LET s == [session EXCEPT !.options = Append(@, server.wire[1].n)]
           IN  Complete(s) /\ session' = SetHousekeepingTimer(Connected(s, inactive)),
           tunnel' = TunConnected(tunnel, server.pushes), UNCHANGED stopped
    PROVE  Inv' /\ ConnectForOwner
<1> DEFINE s == [session EXCEPT !.options = Append(@, server.wire[1].n)]
           u == Connected(s, inactive)
<1>1. session' = SetHousekeepingTimer(u) /\ Complete(s)
  OBVIOUS
<1>2. /\ s \in SessionTypes /\ s.num = session.num /\ s.halt = session.halt
      /\ s.heard = session.heard /\ s.active = session.active
      /\ s.options = Append(session.options, server.wire[1].n)
      /\ s.connected = session.connected /\ s.tun = session.tun
      /\ s.armed = session.armed /\ s.due = session.due
      /\ s.holding = session.holding /\ s.held = session.held
      /\ s.shown = session.shown /\ s.told = session.told
      /\ s.options # <<>> /\ s.options[Len(s.options)] = Parts
  BY <1>1, AddedFacts
<1> HIDE DEF s
<1>3. /\ u \in SessionTypes /\ u.num = s.num /\ u.halt = s.halt /\ u.heard = s.heard
      /\ u.active = s.active /\ u.options = s.options /\ u.connected /\ u.tun
      /\ u.due = s.due /\ u.holding = s.holding /\ u.held = s.held /\ u.shown = s.shown
      /\ u.told = Append(s.told, "connected")
  <2> DEFINE told == Append(s.told, "connected")
             armed == s.armed \cup {"hold"} \cup inactive
  <2>1. told \in Seq(Callback)
    BY <1>2 DEF SessionTypes, Callback
  <2>2. armed \subseteq Timer
    BY <1>2 DEF SessionTypes, Timer
  <2>3. u = [s EXCEPT !.connected = TRUE, !.tun = TRUE, !.told = told, !.armed = armed]
    BY <1>2 DEF Connected, SessionTypes
  <2>4. told = Append(s.told, "connected")
    OBVIOUS
  <2> HIDE DEF told, armed, u
  <2> QED BY <1>2, <2>1, <2>2, <2>3, <2>4 DEF SessionTypes
<1> HIDE DEF u
<1>4. session' \in SessionTypes /\ "push" \in Timer
  BY <1>1, <1>3, TimersTyped DEF Timer
<1>5. /\ session'.num = u.num /\ session'.halt = u.halt /\ session'.heard = u.heard
      /\ session'.active = u.active /\ session'.options = u.options
      /\ session'.connected = u.connected /\ session'.tun = u.tun
      /\ session'.holding = u.holding /\ session'.held = u.held
      /\ session'.shown = u.shown /\ session'.told = u.told
  BY <1>1, <1>3, HousekeepingSame
<1>6. ~session.connected /\ stopped = FALSE /\ tunnel \in Tunnel /\ server.pushes \in Settings
  BY DEF Inv, Stages, Typed, Server
<1>7. tunnel' \in Tunnel /\ TunFollows(tunnel', TRUE, server.pushes, FALSE)
  <2>1. TunFollows(tunnel, FALSE, server.pushes, FALSE)
    <3>1. (session.connected /\ ~session.halt) = FALSE
      BY <1>6
    <3> QED BY <1>6, <3>1 DEF Inv, TunnelFollows
  <2> QED BY <1>6, <2>1, ConnectedFollows
<1>8. Typed'
  BY <1>4, <1>7 DEF Inv, Typed, Moved
<1>9. Complete(session')
  BY <1>2, <1>3, <1>5 DEF Complete, Partial
<1>10. Stages'
  <2>1. session'.holding /\ session'.shown = <<>>
    BY <1>2, <1>3, <1>5, <1>6 DEF Inv, Stages, Typed, SessionTypes
  <2> QED BY <1>2, <1>3, <1>5, <1>6, <1>9, <2>1 DEF Stages, Complete, Partial
<1>11. TunnelFollows'
  <2>1. (session'.connected /\ ~session'.halt) = TRUE
    BY <1>2, <1>3, <1>5
  <2>2. server'.pushes = server.pushes /\ stopped' = FALSE
    BY <1>6 DEF Moved
  <2> QED BY <1>7, <2>1, <2>2 DEF TunnelFollows
<1>12. Replies' /\ Ends' /\ Infos'
  <2>1. ~Informs(server.wire[1])
    BY DEF Pushes, Informs
  <2> QED BY <1>2, <1>3, <1>5, <2>1, RepliesGrow, MovedEnds, InfosStay
<1> QED BY <1>2, <1>3, <1>5, <1>6, <1>8, <1>10, <1>11, <1>12 DEF Inv, ConnectForOwner

\* The reply is complete but the device fails, one way or the other.
LEMMA FailInv ==
    ASSUME Inv, Moved, session.active, session.heard,
           Pushes(server.wire[1]), ~Complete(session), ~session.halt,
           LET s == [session EXCEPT !.options = Append(@, server.wire[1].n)]
           IN  /\ Complete(s)
               /\ \/ EndForGood(s, TunSetupFailed(tunnel))
                  \/ EndForGood([s EXCEPT !.tun = TRUE], Established(tunnel, server.pushes))
    PROVE  Inv' /\ EndForOwner
<1> DEFINE s == [session EXCEPT !.options = Append(@, server.wire[1].n)]
           u == [s EXCEPT !.tun = TRUE]
<1>1. /\ Complete(s)
      /\ \/ Stop(s, TunSetupFailed(tunnel), TRUE, TRUE)
         \/ Stop(u, Established(tunnel, server.pushes), TRUE, TRUE)
  BY DEF EndForGood
<1>2. /\ s \in SessionTypes /\ s.num = session.num /\ s.halt = session.halt
      /\ s.begun = session.begun
      /\ s.heard = session.heard /\ s.active = session.active
      /\ s.options = Append(session.options, server.wire[1].n)
      /\ s.connected = session.connected /\ s.tun = session.tun
      /\ s.armed = session.armed /\ s.due = session.due
      /\ s.holding = session.holding /\ s.held = session.held
      /\ s.shown = session.shown /\ s.told = session.told
      /\ s.options # <<>> /\ s.options[Len(s.options)] = Parts
  BY <1>1, AddedFacts
<1> HIDE DEF s
<1>3. /\ u \in SessionTypes /\ u.num = s.num /\ u.halt = s.halt /\ u.begun = s.begun
      /\ u.heard = s.heard /\ u.active = s.active /\ u.options = s.options
      /\ u.connected = s.connected /\ u.tun = TRUE /\ u.due = s.due /\ u.holding = s.holding
      /\ u.held = s.held /\ u.shown = s.shown /\ u.told = s.told
  BY <1>2 DEF SessionTypes
<1> HIDE DEF u
<1>4. /\ ~session.connected /\ stopped = FALSE /\ tunnel \in Tunnel
      /\ server.pushes \in Settings /\ session.tun = FALSE
  BY DEF Inv, Stages, Typed, SessionTypes, Server
<1>5. tunnel.io = 0
  <2>1. (session.connected /\ ~session.halt) = FALSE
    BY <1>4
  <2> QED BY <2>1 DEF Inv, TunnelFollows, TunFollows
<1>6. /\ session' \in SessionTypes /\ session'.halt /\ session'.armed = {} /\ ~session'.tun
      /\ session'.num = session.num /\ session'.heard = session.heard
      /\ session'.active = session.active /\ session'.options = s.options
      /\ session'.connected = session.connected /\ session'.due = session.due
      /\ session'.holding = session.holding /\ session'.held = session.held
      /\ session'.shown = session.shown
      /\ session'.told \in {session.told, Append(session.told, "terminated")}
      /\ stopped' = TRUE /\ tunnel' \in Tunnel
      /\ TunFollows(tunnel', FALSE, server.pushes, TRUE)
  <2>1. CASE Stop(s, TunSetupFailed(tunnel), TRUE, TRUE)
    <3>1. ~s.halt
      BY <1>2
    <3>2. /\ Halted(s) /\ tunnel' = Down(TunSetupFailed(tunnel), s.tun, TRUE)
          /\ stopped' = (stopped \/ TRUE)
      BY <1>2, <2>1, <3>1, StopFacts
    <3>3. tunnel' = Down(TunSetupFailed(tunnel), FALSE, TRUE) /\ stopped' = TRUE
      BY <1>2, <1>4, <3>2
    <3>4. tunnel' \in Tunnel /\ TunFollows(tunnel', FALSE, server.pushes, TRUE)
      BY <1>4, <1>5, <3>3, RefusedFollows
    <3> QED BY <1>2, <3>2, <3>3, <3>4 DEF Halted
  <2>2. CASE Stop(u, Established(tunnel, server.pushes), TRUE, TRUE)
    <3>1. ~u.halt
      BY <1>2, <1>3
    <3>2. /\ Halted(u) /\ tunnel' = Down(Established(tunnel, server.pushes), u.tun, TRUE)
          /\ stopped' = (stopped \/ TRUE)
      BY <1>3, <2>2, <3>1, StopFacts
    <3>3. tunnel' = Down(Established(tunnel, server.pushes), TRUE, TRUE) /\ stopped' = TRUE
      BY <1>3, <3>2
    <3>4. tunnel' \in Tunnel /\ TunFollows(tunnel', FALSE, server.pushes, TRUE)
      BY <1>4, <3>3, SocketsFailedFollows
    <3> QED BY <1>2, <1>3, <3>2, <3>3, <3>4 DEF Halted
  <2> QED BY <1>1, <2>1, <2>2
<1>7. Typed'
  BY <1>6 DEF Inv, Typed, Moved
<1>8. Stages'
  <2>1. Complete(session')
    BY <1>2, <1>6 DEF Complete, Partial
  <2> QED BY <1>4, <1>6, <2>1 DEF Inv, Stages, Complete, Partial
<1>9. TunnelFollows'
  <2>1. (session'.connected /\ ~session'.halt) = FALSE
    BY <1>6
  <2>2. server'.pushes = server.pushes
    BY DEF Moved
  <2> QED BY <1>6, <2>1, <2>2 DEF TunnelFollows
<1>10. Replies' /\ Ends' /\ Infos'
  <2>1. ~Informs(server.wire[1])
    BY DEF Pushes, Informs
  <2> QED BY <1>2, <1>6, <2>1, RepliesGrow, MovedEnds, InfosStay
<1> QED BY <1>6, <1>7, <1>8, <1>9, <1>10 DEF Inv, EndForOwner

\* An INFO message is held or shown.
LEMMA InfoInv ==
    ASSUME Inv, Moved, session.active, session.heard, Informs(server.wire[1]),
           RecvInfo(session, server.wire[1].n)
    PROVE  Inv' /\ SameForOwner
<1> DEFINE n == server.wire[1].n
           p == Len(session.shown)
           q == Len(session.held)
           shown == IF session.holding THEN session.shown ELSE Append(session.shown, n)
           held == IF session.holding THEN Append(session.held, n) ELSE session.held
           s == [session EXCEPT !.shown = shown, !.held = held]
<1>1. n = p + q + 1 /\ n \in 1 .. MaxInfo /\ p \in Nat /\ q \in Nat
  <2>1. p \in Nat /\ q \in Nat
    BY DEF Inv, Typed, SessionTypes
  <2>2. n = p + q + 1 /\ p + q + 1 <= server.infos
    BY MovedInfos
  <2>3. server.infos <= MaxInfo /\ server.infos \in Nat /\ MaxInfo \in Nat
    BY BoundAssumption DEF Inv, Typed, Server
  <2> HIDE DEF n, p, q
  <2> QED BY <2>1, <2>2, <2>3
<1>2. session.shown \in Seq(1 .. MaxInfo) /\ session.held \in Seq(1 .. MaxInfo)
  BY DEF Inv, Typed, SessionTypes
<1>3. /\ \A i \in 1 .. p : session.shown[i] = i
      /\ \A i \in 1 .. q : session.held[i] = p + i
      /\ ~session.holding => q = 0
  <2>1. Len(<<>>) = 0
    OBVIOUS
  <2> QED BY <2>1 DEF Inv, Infos, Stages
<1>4. UNCHANGED <<stopped, tunnel>> /\ session' = SetHousekeepingTimer(s)
  <2>1. CASE session.holding
    <3>1. s = [session EXCEPT !.held = Append(@, n)]
      BY <2>1 DEF Inv, Typed, SessionTypes
    <3> HIDE DEF s, n
    <3> QED BY <2>1, <3>1 DEF RecvInfo, Become, n
  <2>2. CASE ~session.holding
    <3>1. s = [session EXCEPT !.shown = Append(@, n)]
      BY <2>2 DEF Inv, Typed, SessionTypes
    <3> HIDE DEF s, n
    <3> QED BY <2>2, <3>1 DEF RecvInfo, Become, n
  <2> QED BY <2>1, <2>2
<1>5. ASSUME NEW a \in Seq(1 .. MaxInfo)
      PROVE  /\ Append(a, n) \in Seq(1 .. MaxInfo) /\ Len(Append(a, n)) = Len(a) + 1
             /\ Len(a) \in Nat /\ Append(a, n)[Len(a) + 1] = n
             /\ \A i \in 1 .. Len(a) : Append(a, n)[i] = a[i]
  <2> DEFINE S == 1 .. MaxInfo
  <2>1. a \in Seq(S) /\ n \in S
    BY <1>1
  <2> HIDE DEF S, n
  <2>2. /\ Append(a, n) \in Seq(S) /\ Len(Append(a, n)) = Len(a) + 1
        /\ Len(a) \in Nat /\ Append(a, n)[Len(a) + 1] = n
        /\ \A i \in 1 .. Len(a) : Append(a, n)[i] = a[i]
    BY <2>1, Queue
  <2> QED BY <2>2 DEF S
<1>6. /\ shown \in Seq(1 .. MaxInfo) /\ held \in Seq(1 .. MaxInfo)
      /\ Len(shown) + Len(held) = p + q + 1
      /\ \A i \in 1 .. Len(shown) : shown[i] = i
      /\ \A i \in 1 .. Len(held) : held[i] = Len(shown) + i
      /\ IF session.holding THEN shown = session.shown ELSE held = session.held
  <2>1. CASE session.holding
    <3>1. shown = session.shown /\ held = Append(session.held, n)
      BY <2>1
    <3>2. /\ Append(session.held, n) \in Seq(1 .. MaxInfo) /\ Len(Append(session.held, n)) = q + 1
          /\ Append(session.held, n)[q + 1] = n
          /\ \A i \in 1 .. q : Append(session.held, n)[i] = session.held[i]
      BY <1>2, <1>5
    <3> HIDE DEF n, p, q, shown, held
    <3>3. Len(shown) = p /\ Len(held) = q + 1
      BY <3>1, <3>2 DEF p
    <3>4. \A i \in 1 .. q + 1 : held[i] = p + i
      <4> TAKE i \in 1 .. q + 1
      <4>1. CASE i \in 1 .. q
        BY <1>3, <3>1, <3>2, <4>1
      <4>2. CASE i = q + 1
        <5>1. held[i] = n
          BY <3>1, <3>2, <4>2
        <5>2. n = p + i
          BY <1>1, <4>2
        <5> QED BY <5>1, <5>2
      <4> QED BY <1>1, <4>1, <4>2
    <3> QED BY <1>1, <1>2, <1>3, <2>1, <3>1, <3>2, <3>3, <3>4
  <2>2. CASE ~session.holding
    <3>1. shown = Append(session.shown, n) /\ held = session.held /\ q = 0
      BY <1>3, <2>2
    <3>2. /\ Append(session.shown, n) \in Seq(1 .. MaxInfo) /\ Len(Append(session.shown, n)) = p + 1
          /\ Append(session.shown, n)[p + 1] = n
          /\ \A i \in 1 .. p : Append(session.shown, n)[i] = session.shown[i]
      BY <1>2, <1>5
    <3>3. Len(held) = q
      BY <3>1
    <3> HIDE DEF n, p, q, shown, held
    <3>4. \A i \in 1 .. p + 1 : shown[i] = i
      <4> TAKE i \in 1 .. p + 1
      <4>1. i \in 1 .. p \/ i = p + 1
        BY <1>1
      <4> QED BY <1>1, <1>3, <3>1, <3>2, <4>1
    <3>5. Len(shown) = p + 1 /\ Len(held) = 0 /\ \A i \in 1 .. 0 : FALSE
      BY <3>1, <3>2, <3>3
    <3> QED BY <1>1, <1>2, <2>2, <3>1, <3>2, <3>4, <3>5
  <2> QED BY <2>1, <2>2
<1> HIDE DEF shown, held
<1>7. /\ s \in SessionTypes /\ s.num = session.num /\ s.halt = session.halt
      /\ s.heard = session.heard /\ s.active = session.active /\ s.options = session.options
      /\ s.connected = session.connected /\ s.tun = session.tun
      /\ s.armed = session.armed /\ s.due = session.due /\ s.holding = session.holding
      /\ s.held = held /\ s.shown = shown /\ s.told = session.told
  BY <1>6 DEF Inv, Typed, SessionTypes
<1> HIDE DEF s
<1>8. /\ session' \in SessionTypes
      /\ session'.num = s.num /\ session'.halt = s.halt /\ session'.heard = s.heard
      /\ session'.active = s.active /\ session'.options = s.options
      /\ session'.connected = s.connected /\ session'.tun = s.tun
      /\ session'.due = s.due /\ session'.holding = s.holding
      /\ session'.held = s.held /\ session'.shown = s.shown /\ session'.told = s.told
      /\ session'.armed \subseteq s.armed \cup {"push", "housekeeping"}
  BY <1>4, <1>7, HousekeepingSame
<1>9. Typed'
  BY <1>4, <1>8 DEF Inv, Typed, Moved
<1>10. Stages'
  BY ZenonT(30), <1>4, <1>6, <1>7, <1>8 DEF Inv, Stages, Moved, Complete, Partial
<1>11. TunnelFollows'
  BY <1>4, <1>7, <1>8 DEF Inv, TunnelFollows, Moved, TunFollows, EndsAt, Staged
<1>12. Replies' /\ Ends'
  <2>1. ~Pushes(server.wire[1])
    BY DEF Pushes, Informs
  <2> QED BY <1>7, <1>8, <2>1, RepliesStay, MovedEnds
<1>13. Infos'
  <2>1. session'.shown = shown /\ session'.held = held
    BY <1>7, <1>8
  <2> QED BY <1>6, <2>1, InfosFollow
<1> QED BY <1>7, <1>8, <1>9, <1>10, <1>11, <1>12, <1>13 DEF Inv, SameForOwner

\* The server ends the session, which may have ended of itself.
LEMMA EndedInv ==
    ASSUME Inv, Moved, session.active,
           server.wire[1].kind \in {"AUTH_FAILED", "RESTART"},
           EndForGood(session, tunnel) \/ EndRetrying(session, tunnel)
    PROVE  Inv' /\ (SameForOwner \/ EndForOwner)
<1>1. ~Pushes(server.wire[1]) /\ ~Informs(server.wire[1]) /\ batch' = 0
  BY MovedEnds DEF Pushes, Informs
<1>2. PICK final \in BOOLEAN : Stop(session, tunnel, TRUE, final)
  BY DEF EndForGood, EndRetrying
<1>3. session \in SessionTypes
  BY DEF Inv, Typed
<1>4. CASE session.halt
  <2>1. UNCHANGED <<session, tunnel, stopped>>
    BY <1>2, <1>3, <1>4, StopFacts
  <2>2. Typed'
    BY <2>1 DEF Inv, Typed, Moved
  <2>3. Stages'
    BY <1>1, <2>1 DEF Inv, Stages, Complete, Partial
  <2>4. TunnelFollows'
    BY <2>1 DEF Inv, TunnelFollows, Moved, TunFollows, EndsAt, Staged
  <2>5. Replies' /\ Ends' /\ Infos'
    BY <1>1, <2>1, RepliesStay, MovedEnds, InfosStay
  <2>6. SameForOwner
    BY <2>1 DEF SameForOwner
  <2> QED BY <2>2, <2>3, <2>4, <2>5, <2>6 DEF Inv
<1>5. CASE ~session.halt
  <2>1. Alike(session)
    BY DEF Alike
  <2>2. /\ session' \in SessionTypes /\ tunnel' \in Tunnel /\ stopped' \in BOOLEAN
        /\ EndStep
    BY <1>2, <1>3, <1>5, <2>1, StopKind DEF Inv
  <2>3. Typed'
    BY <2>2 DEF Inv, Typed, Moved
  <2>4. Stages' /\ TunnelFollows'
    BY <1>1, <2>2, <2>3, EndStages DEF Moved
  <2>5. Same(session)
    BY <2>2 DEF EndStep
  <2>6. Replies' /\ Ends' /\ Infos'
    BY <1>1, <2>5, RepliesStay, MovedEnds, InfosStay DEF Same
  <2>7. EndForOwner
    BY <2>2 DEF EndStep, Same, EndForOwner
  <2> QED BY <2>3, <2>4, <2>6, <2>7 DEF Inv
<1> QED BY <1>4, <1>5

\* control_recv(), whatever the message.
LEMMA ReceiveInv ==
    ASSUME Inv, Receive
    PROVE  Inv' /\ SeenByOwner
<1> DEFINE m == server.wire[1]
           s == [session EXCEPT !.options = Append(@, m.n)]
<1>1. /\ Moved /\ ControlRecv(session, m)
      /\ session.active /\ session.heard
      /\ session.halt => Complete(session)
  BY ReceiveMoves
<1>2. CASE m.kind = "PUSH_REPLY" /\ RecvPushReply(session, m.n)
  <2>1. Pushes(m)
    BY <1>2 DEF Pushes
  <2>2. CASE Complete(session)
    <3>1. Inv' /\ Still
      BY <1>1, <1>2, <2>1, <2>2, AgainInv
    <3> QED BY <3>1 DEF Still, Same, SameForOwner, SeenByOwner
  <2>3. CASE ~Complete(session)
    <3>1. ~session.halt
      BY <1>1, <2>3
    <3>2. IF Complete(s) THEN TunStart(s) ELSE Become(SetHousekeepingTimer(s))
      BY <1>2, <2>3 DEF RecvPushReply
    <3>3. CASE ~Complete(s)
      <4>1. Become(SetHousekeepingTimer(s))
        BY <3>2, <3>3
      <4>2. Inv' /\ SameForOwner
        BY <1>1, <2>1, <2>3, <3>1, <3>3, <4>1, PartInv
      <4> QED BY <4>2 DEF SeenByOwner
    <3>4. CASE Complete(s)
      <4>1. TunStart(s)
        BY <3>2, <3>4
      <4>2. CASE \/ EndForGood(s, TunSetupFailed(tunnel))
                 \/ EndForGood([s EXCEPT !.tun = TRUE], Established(tunnel, server.pushes))
        <5>1. Inv' /\ EndForOwner
          BY <1>1, <2>1, <2>3, <3>1, <3>4, <4>2, FailInv
        <5> QED BY <5>1 DEF SeenByOwner
      <4>3. ASSUME NEW inactive \in SUBSET {"inactive"},
                   session' = SetHousekeepingTimer(Connected(s, inactive)),
                   tunnel' = TunConnected(tunnel, server.pushes), UNCHANGED stopped
            PROVE  Inv' /\ SeenByOwner
        <5>1. Inv' /\ ConnectForOwner
          BY <1>1, <2>1, <2>3, <3>1, <3>4, <4>3, ConnectInv
        <5> QED BY <5>1 DEF SeenByOwner
      <4> HIDE DEF s, m
      <4> QED BY <4>1, <4>2, <4>3 DEF TunStart
    <3> QED BY <3>3, <3>4
  <2> QED BY <2>2, <2>3
<1>3. CASE m.kind = "INFO" /\ RecvInfo(session, m.n)
  <2>1. Informs(m)
    BY <1>3 DEF Informs
  <2>2. Inv' /\ SameForOwner
    BY <1>1, <1>3, <2>1, InfoInv
  <2> QED BY <2>2 DEF SeenByOwner
<1>4. CASE \/ m.kind = "AUTH_FAILED" /\ EndForGood(session, tunnel)
           \/ m.kind = "RESTART" /\ EndRetrying(session, tunnel)
  <2>1. m.kind \in {"AUTH_FAILED", "RESTART"}
    BY <1>4
  <2>2. EndForGood(session, tunnel) \/ EndRetrying(session, tunnel)
    BY <1>4
  <2>3. Inv' /\ (SameForOwner \/ EndForOwner)
    BY <1>1, <2>1, <2>2, EndedInv
  <2> QED BY <2>3 DEF SeenByOwner
<1> QED BY <1>1, <1>2, <1>3, <1>4 DEF ControlRecv

\* A handler of either kind keeps the invariants.
LEMMA KindInv ==
    ASSUME Inv, Typed',
           QuietStep \/ (EndStep /\ UNCHANGED <<batch, server>> /\ batch = 0)
    PROVE  Inv' /\ SeenByOwner
<1>1. CASE QuietStep
  BY <1>1, QuietInv DEF QuietStep, Still, Same, SameForOwner, SeenByOwner
<1>2. CASE EndStep /\ UNCHANGED <<batch, server>> /\ batch = 0
  BY <1>2, EndInv DEF EndStep, Same, EndForOwner, SeenByOwner
<1> QED BY <1>1, <1>2

\* The session number n + 1 begins, of which the owner has heard nothing.
Renewed == session' = NewSession(session.num + 1)

\* Every step keeps the invariants, and the owner sees of it what it should.
LEMMA StepInv ==
    ASSUME Inv, Next
    PROVE  Inv' /\ (SeenByOwner \/ Renewed)
<1>0. Typed /\ Stages /\ TunnelFollows
  BY DEF Inv
<1>1. CASE Begin \/ Hear \/ Active \/ Invalidate
  BY <1>0, <1>1, BeginKind, HearKind, ActiveKind, InvalidateKind, KindInv
<1>2. CASE TransportError \/ Pause \/ (Disconnect /\ ~session.halt)
  BY <1>0, <1>2, PlainEndKind, KindInv
<1>3. ASSUME NEW n \in 1 .. Len(server.wire), Read(n)
      PROVE  Inv' /\ SeenByOwner
  BY <1>0, <1>3, ReadKind, KindInv
<1>4. ASSUME NEW timer \in Timer, Expire(timer) \/ HandleTimer(timer)
      PROVE  Inv' /\ SeenByOwner
  <2>1. CASE Expire(timer) \/ Ignore(timer)
    BY <1>0, <2>1, ExpireKind, IgnoreKind, KindInv
  <2>2. CASE SendPushRequest \/ Housekeeping \/ Inactive
    BY <1>0, <2>2, SendPushRequestKind, HousekeepingKind, InactiveKind, KindInv
  <2>3. CASE InfoHold
    <3>1. Inv'
      BY <2>3, InfoHoldInv
    <3>2. SameForOwner
      <4> DEFINE s == Handled("hold")
                 all == s.shown \o session.held
      <4>1. session' = [s EXCEPT !.shown = all, !.held = <<>>, !.holding = FALSE]
        BY <2>3 DEF InfoHold, Become
      <4>2. /\ s \in SessionTypes /\ s.num = session.num /\ s.halt = session.halt
            /\ s.heard = session.heard /\ s.connected = session.connected
            /\ s.told = session.told
        BY <1>0, HandledFacts DEF Typed, Timer
      <4> HIDE DEF s, all
      <4> QED BY <4>1, <4>2 DEF SessionTypes, SameForOwner
    <3> QED BY <3>1, <3>2 DEF SeenByOwner
  <2> QED BY <1>4, <2>1, <2>2, <2>3 DEF HandleTimer
<1>5. CASE Receive
  BY <1>5, ReceiveInv
<1>6. CASE NewClient
  BY <1>6, NewClientInv DEF NewClient, Renewed
<1>7. CASE Disconnect /\ session.halt
  BY <1>7, LateStopInv DEF Disconnect, SameForOwner, SeenByOwner
<1>8. CASE Reply \/ Inform \/ \E kind \in {"AUTH_FAILED", "RESTART"} : EndSession(kind)
  <2>1. UNCHANGED session
    BY <1>8 DEF Reply, Inform, EndSession, ServerSends
  <2>2. Inv'
    BY <1>8, ReplyInv, InformInv, EndSessionInv
  <2> QED BY <2>1, <2>2 DEF SameForOwner, SeenByOwner
<1>9. CASE Apply
  BY <1>9, ApplyInv DEF Apply, SameForOwner, SeenByOwner
<1> QED BY <1>1, <1>2, <1>3, <1>4, <1>5, <1>6, <1>7, <1>8, <1>9 DEF Next

\* So does a step that changes nothing.
LEMMA StutterInv ==
    ASSUME Inv, UNCHANGED vars
    PROVE  Inv'
<1>1. UNCHANGED <<session, batch, server, stopped, tunnel>>
  BY DEF vars
<1>2. Typed' /\ QuietStep
  BY <1>1 DEF Inv, Typed, Stages, QuietStep, Still, Same, SameServer
<1> QED BY <1>2, QuietInv

\* The invariants hold at the start.
LEMMA InitInv ==
    ASSUME Init
    PROVE  Inv
<1> PICK pushes \in Settings, persist \in BOOLEAN :
      server = NewServer(pushes) /\ tunnel = NewTunnel(persist)
  BY DEF Init
<1>1. /\ session = NewSession(1) /\ batch = 0 /\ stopped = FALSE
  BY DEF Init
<1>2. /\ session.options = <<>> /\ session.held = <<>> /\ session.shown = <<>>
      /\ ~session.halt /\ ~session.active /\ ~session.connected /\ ~session.tun
      /\ session.armed = {} /\ session.due = {} /\ session.holding
      /\ server.wire = <<>> /\ server.infos = 0 /\ server.pushes = pushes
  BY <1>1 DEF NewSession, NewServer
<1>3. session \in SessionTypes
  <2>1. 1 \in 1 .. MaxSessions
    BY BoundAssumption
  <2> QED BY <1>1, <2>1 DEF NewSession, SessionTypes
<1>4. server \in Server
  BY BoundAssumption, PartsAssumption DEF NewServer, Server
<1>5. /\ tunnel \in Tunnel /\ tunnel.requests = <<>> /\ tunnel.installed = NoSettings
      /\ tunnel.io = 0 /\ tunnel.sd = 0
  BY DEF NewTunnel, Tunnel, SomeSettings, Requests
<1>6. Typed
  <2>1. batch \in 0 .. Len(server.wire)
    BY <1>1, <1>2
  <2> QED BY <1>1, <1>3, <1>4, <1>5, <2>1 DEF Typed
<1>7. Stages
  BY <1>1, <1>2 DEF Stages
<1>8. TunnelFollows
  <2>1. EndsAt(tunnel, NoSettings)
    BY <1>5 DEF EndsAt
  <2> QED BY <1>1, <1>2, <1>5, <2>1 DEF TunnelFollows, TunFollows
<1>9. Replies
  BY <1>2, PartsAssumption DEF Replies
<1>10. Ends /\ Infos
  BY <1>2 DEF Ends, Infos
<1> QED BY <1>6, <1>7, <1>8, <1>9, <1>10 DEF Inv

\* They always hold.
LEMMA AlwaysInv == Spec => []Inv
<1>1. Init => Inv
  BY InitInv
<1>2. Inv /\ [Next]_vars => Inv'
  BY StepInv, StutterInv
<1> QED BY <1>1, <1>2, PTL DEF Spec

-----------------------------------------------------------------------------
(* The theorems.                                                               *)

\* Every variable keeps its type; in particular a reply never gets more parts
\* than it has, however often the server repeats it (validate_and_process_push).
THEOREM Types == Spec => []TypeOK
<1>1. Inv => TypeOK
  <2> HAVE Inv
  <2> DEFINE k == Len(session.options)
  <2>1. k \in 0 .. Parts
    BY CompleteFacts
  <2>2. session.options \in Seq(1 .. Parts)
    BY DEF Inv, Typed, SessionTypes
  <2>3. session.options \in [1 .. k -> 1 .. Parts]
    <3>1. ASSUME NEW S, NEW q \in Seq(S) PROVE q \in [1 .. Len(q) -> S]
      OBVIOUS
    <3> QED BY <2>2, <3>1
  <2>4. session.options \in UNION {[1 .. j -> 1 .. Parts] : j \in 0 .. Parts}
    <3> HIDE DEF k
    <3> QED BY <2>1, <2>3
  <2> DEFINE Options == UNION {[1 .. j -> 1 .. Parts] : j \in 0 .. Parts}
  <2>5. session \in Session
    <3>1. session.options \in Options
      BY <2>4
    <3> HIDE DEF Options
    <3>2. session \in [num : 1 .. MaxSessions, halt : BOOLEAN, begun : BOOLEAN,
             heard : BOOLEAN, active : BOOLEAN, invalid : BOOLEAN, options : Options,
             connected : BOOLEAN, tun : BOOLEAN, armed : SUBSET Timer, due : SUBSET Timer,
             holding : BOOLEAN, held : Seq(1 .. MaxInfo), shown : Seq(1 .. MaxInfo),
             told : Seq(Callback)]
      BY <3>1 DEF Inv, Typed, SessionTypes
    <3> QED BY <3>2 DEF Session, Options
  <2> QED BY <2>5 DEF TypeOK, Inv, Typed
<1> QED BY <1>1, AlwaysInv, PTL

\* When the system has done what it was asked, the device has the settings of the
\* connection, or its own network back: setTunnelNetworkSettings() is called twice
\* for each change, and its second call waits for the first.
THEOREM SettingsAreRight == Spec => []SettingsFollow
<1>1. Inv => SettingsFollow
  <2> SUFFICES ASSUME Inv, tunnel.requests = <<>>
               PROVE  /\ session.connected /\ ~session.halt => tunnel.installed = server.pushes
                      /\ stopped \/ (~tunnel.persist /\ (session.halt \/ ~session.connected))
                            => tunnel.installed = NoSettings
    BY DEF SettingsFollow
  <2>1. \A settings : EndsAt(tunnel, settings) => tunnel.installed = settings
    BY DEF EndsAt, Staged
  <2> QED BY <2>1 DEF Inv, TunnelFollows, TunFollows
<1> QED BY <1>1, AlwaysInv, PTL

\* A connected session reads the bridge that exists, and no other is read: the
\* descriptor is replaced, kept and closed by different owners.
THEOREM BridgeIsRead == Spec => []BridgeServesTun
<1>1. Inv => BridgeServesTun
  BY DEF Inv, TunnelFollows, TunFollows, BridgeServesTun
<1> QED BY <1>1, AlwaysInv, PTL

\* The app sees every INFO message once, in order, after "connected".
THEOREM InfosAreInOrder == Spec => []InfoInOrder
<1>1. Inv => InfoInOrder
  <2> SUFFICES ASSUME Inv PROVE InfoInOrder
    OBVIOUS
  <2> DEFINE p == session.shown
             q == session.held
  <2>1. p \in Seq(1 .. MaxInfo) /\ q \in Seq(1 .. MaxInfo)
    BY DEF Inv, Typed, SessionTypes
  <2>2. /\ \A i \in 1 .. Len(p) : p[i] = i
        /\ \A i \in 1 .. Len(q) : q[i] = Len(p) + i
    BY DEF Inv, Infos
  <2>3. p # <<>> => session.connected
    BY DEF Inv, Stages
  <2> HIDE DEF p, q
  <2> DEFINE S == 1 .. MaxInfo
             all == p \o q
             n == Len(p) + Len(q)
  <2>4. /\ all \in Seq(S) /\ Len(all) = n /\ Len(p) \in Nat /\ Len(q) \in Nat
        /\ \A i \in 1 .. Len(p) : all[i] = p[i]
        /\ \A i \in 1 .. Len(q) : all[Len(p) + i] = q[i]
    <3> HIDE DEF S
    <3>1. p \in Seq(S) /\ q \in Seq(S)
      BY <2>1 DEF S
    <3> QED BY <3>1, Join
  <2> HIDE DEF all, S
  <2>5. \A i \in 1 .. n : all[i] = i
    <3> TAKE i \in 1 .. n
    <3>1. CASE i \in 1 .. Len(p)
      BY <2>2, <2>4, <3>1
    <3>2. CASE i \notin 1 .. Len(p)
      <4> DEFINE j == i - Len(p)
                 a == Len(p)
                 b == Len(q)
      <4>1. j \in 1 .. b /\ a + j = i
        <5>1. a \in Nat /\ b \in Nat /\ i \in 1 .. a + b /\ i \notin 1 .. a
          BY <2>4, <3>2
        <5> HIDE DEF a, b
        <5>2. i - a \in 1 .. b /\ a + (i - a) = i
          BY <5>1
        <5> QED BY <5>2 DEF a
      <4> HIDE DEF j
      <4> QED BY <2>2, <2>4, <4>1
    <3> QED BY <3>1, <3>2
  <2>6. all = [i \in 1 .. n |-> i]
    <3>1. DOMAIN all = 1 .. n /\ all = [i \in DOMAIN all |-> all[i]]
      BY <2>4
    <3> HIDE DEF n
    <3> QED BY <2>5, <3>1
  <2> QED BY <2>3, <2>6 DEF InfoInOrder, p, q, all
<1> QED BY <1>1, AlwaysInv, PTL

\* What the owner sees of each step is a step of the contract or nothing.
LEMMA SeenIsContract ==
    ASSUME Inv, Inv', SeenByOwner \/ Renewed
    PROVE  [Contract!Next]_(Contract!vars)
<1>1. /\ session.halt \in BOOLEAN /\ session.connected \in BOOLEAN
      /\ session.heard \in BOOLEAN
      /\ session'.halt \in BOOLEAN /\ session'.connected \in BOOLEAN
      /\ session'.heard \in BOOLEAN
      /\ (session.connected => session.heard) /\ (session'.connected => session'.heard)
  BY DEF Inv, Typed, SessionTypes, Stages
<1>2. /\ session.halt => Phase = "ended"
      /\ ~session.halt /\ session.connected => Phase = "connected"
      /\ ~session.halt /\ ~session.connected /\ session.heard => Phase = "heard"
      /\ ~session.halt /\ ~session.connected /\ ~session.heard => Phase = "connecting"
  BY <1>1 DEF Phase
<1>3. /\ session'.halt => Phase' = "ended"
      /\ ~session'.halt /\ session'.connected => Phase' = "connected"
      /\ ~session'.halt /\ ~session'.connected /\ session'.heard => Phase' = "heard"
      /\ ~session'.halt /\ ~session'.connected /\ ~session'.heard => Phase' = "connecting"
  BY <1>1 DEF Phase
<1>4. CASE SameForOwner
  <2>1. CASE session'.heard = session.heard
    <3>1. UNCHANGED <<session.num, Phase, session.told>>
      BY <1>1, <1>2, <1>3, <1>4, <2>1 DEF SameForOwner
    <3> QED BY <3>1 DEF Contract!vars
  <2>2. CASE session'.heard # session.heard
    <3>1. CASE session.connected
      BY <1>1, <1>4, <2>2, <3>1 DEF SameForOwner
    <3>2. CASE ~session.connected
      <4>1. Phase = "connecting" /\ Phase' = "heard"
        BY <1>1, <1>2, <1>3, <1>4, <2>2, <3>2 DEF SameForOwner
      <4>2. Contract!Hear
        BY <1>4, <4>1 DEF SameForOwner, Contract!Hear
      <4> QED BY <4>2 DEF Contract!Next
    <3> QED BY <3>1, <3>2
  <2> QED BY <2>1, <2>2
<1>5. CASE EndForOwner
  <2>1. Phase # "ended" /\ Phase' = "ended"
    BY <1>1, <1>2, <1>3, <1>5 DEF EndForOwner
  <2>2. Contract!End
    BY <1>5, <2>1 DEF EndForOwner, Contract!End
  <2> QED BY <2>2 DEF Contract!Next
<1>6. CASE ConnectForOwner
  <2>1. Phase = "heard" /\ Phase' = "connected"
    BY <1>1, <1>2, <1>3, <1>6 DEF ConnectForOwner
  <2>2. Contract!Connect
    BY <1>6, <2>1 DEF ConnectForOwner, Contract!Connect
  <2> QED BY <2>2 DEF Contract!Next
<1>7. CASE Renewed
  <2>1. /\ session'.num = session.num + 1 /\ session'.told = <<>>
        /\ ~session'.halt /\ ~session'.connected /\ ~session'.heard
    BY <1>7 DEF Renewed, NewSession
  <2>2. Phase' = "connecting"
    BY <1>3, <2>1
  <2>3. Contract!Renew
    BY <2>1, <2>2 DEF Contract!Renew
  <2> QED BY <2>3 DEF Contract!Next
<1> QED BY <1>4, <1>5, <1>6, <1>7 DEF SeenByOwner

\* A session is to its owner what ClientConnect is written for: it is heard,
\* connects and ends in that order, each at most once, and says so as it should.
THEOREM ContractIsKept == Spec => ContractSpec
<1>1. Init => Contract!Init
  BY DEF Init, NewSession, Phase, Contract!Init
<1>2. Inv /\ Inv' /\ [Next]_vars => [Contract!Next]_(Contract!vars)
  <2> SUFFICES ASSUME Inv, Inv', [Next]_vars
               PROVE  [Contract!Next]_(Contract!vars)
    OBVIOUS
  <2>1. CASE Next
    BY <2>1, StepInv, SeenIsContract
  <2>2. CASE UNCHANGED vars
    <3>1. UNCHANGED session
      BY <2>2 DEF vars
    <3>2. SameForOwner
      BY <3>1 DEF SameForOwner
    <3> QED BY <3>2, SeenIsContract DEF SeenByOwner
  <2> QED BY <2>1, <2>2
<1> QED BY <1>1, <1>2, AlwaysInv, PTL DEF Spec, ContractSpec, Contract!Spec

-----------------------------------------------------------------------------
(* The timers.                                                                 *)

\* NothingForgotten, of any session.
Waits(s) ==
    ~s.halt =>
        /\ s.begun => "housekeeping" \in s.armed \cup s.due
        /\ s.active /\ s.options = <<>> => "push" \in s.armed \cup s.due
        /\ s.connected /\ s.holding => "hold" \in s.armed \cup s.due

\* Waits is NothingForgotten.
LEMMA NothingIsWaits == NothingForgotten <=> Waits(session)
  BY DEF NothingForgotten, Waits, Partial

\* After the housekeeping timer is set, nothing is forgotten if the rest was not.
LEMMA HousekeepingWaits ==
    ASSUME NEW s \in SessionTypes,
           ~s.halt => /\ s.active /\ s.options = <<>> => "push" \in s.armed \cup s.due
                      /\ s.connected /\ s.holding => "hold" \in s.armed \cup s.due
    PROVE  Waits(SetHousekeepingTimer(s))
<1> DEFINE u == SetHousekeepingTimer(s)
<1>1. "push" \in Timer
  BY DEF Timer
<1>2. /\ u.halt = s.halt /\ u.active = s.active /\ u.options = s.options
      /\ u.connected = s.connected /\ u.holding = s.holding
      /\ u.due = s.due /\ s.armed \subseteq u.armed
  BY <1>1, TimersSame
<1>3. ~s.halt => "housekeeping" \in u.armed
  BY DEF SetHousekeepingTimer, Arm, SessionTypes
<1> HIDE DEF u
<1>4. Waits(u)
  BY <1>2, <1>3 DEF Waits
<1> QED BY <1>4 DEF u

\* The same of the push timer.
LEMMA PushWaits ==
    ASSUME NEW s \in SessionTypes,
           ~s.halt => /\ s.begun => "housekeeping" \in s.armed \cup s.due
                      /\ s.connected /\ s.holding => "hold" \in s.armed \cup s.due
    PROVE  Waits(SchedulePushRequest(s))
<1> DEFINE u == SchedulePushRequest(s)
<1>1. "push" \in Timer
  BY DEF Timer
<1>2. /\ u.halt = s.halt /\ u.begun = s.begun /\ u.active = s.active /\ u.options = s.options
      /\ u.connected = s.connected /\ u.holding = s.holding
      /\ u.due = s.due /\ s.armed \subseteq u.armed
  BY <1>1, TimersSame
<1>3. s.options = <<>> => "push" \in u.armed
  BY DEF SchedulePushRequest, Partial, Arm, SessionTypes
<1> HIDE DEF u
<1>4. Waits(u)
  BY <1>2, <1>3 DEF Waits
<1> QED BY <1>4 DEF u

\* A session that is stopped waits for nothing.
LEMMA StopWaits ==
    ASSUME NEW s \in SessionTypes, NEW t, NEW tell \in BOOLEAN, NEW final \in BOOLEAN,
           Stop(s, t, tell, final)
    PROVE  (s.halt /\ session' = s) \/ Waits(session')
  BY StopFacts DEF Halted, Waits

\* control_recv() sets the timers that a part or the connection needs.
LEMMA ReceiveWaits ==
    ASSUME Inv, Waits(session), Receive
    PROVE  Waits(session')
<1> DEFINE m == server.wire[1]
           s == [session EXCEPT !.options = Append(@, m.n)]
<1>1. Moved /\ ControlRecv(session, m) /\ session \in SessionTypes
  BY ReceiveMoves DEF Inv, Typed
<1>2. CASE m.kind = "PUSH_REPLY" /\ RecvPushReply(session, m.n)
  <2>1. Pushes(m)
    BY <1>2 DEF Pushes
  <2>2. CASE Complete(session)
    <3>1. session' = SetHousekeepingTimer(session)
      BY <1>2, <2>2 DEF RecvPushReply, Become
    <3> QED BY <1>1, <3>1, HousekeepingWaits DEF Waits
  <2>3. CASE ~Complete(session)
    <3>1. /\ s \in SessionTypes /\ s.halt = session.halt /\ s.begun = session.begun
          /\ s.active = session.active /\ s.options # <<>>
          /\ s.connected = session.connected /\ s.armed = session.armed
          /\ s.due = session.due /\ s.holding = session.holding
      BY <1>1, <2>1, <2>3, AddedFacts, RepliesGrow
    <3>2. TunStart(s) \/ Become(SetHousekeepingTimer(s))
      BY <1>2, <2>3 DEF RecvPushReply
    <3> HIDE DEF s
    <3>3. CASE Become(SetHousekeepingTimer(s))
      <4>1. session' = SetHousekeepingTimer(s)
        BY <3>3 DEF Become
      <4> QED BY <3>1, <4>1, HousekeepingWaits DEF Waits
    <3>4. ASSUME NEW inactive \in SUBSET {"inactive"},
                 session' = SetHousekeepingTimer(Connected(s, inactive))
          PROVE  Waits(session')
      <4> DEFINE u == Connected(s, inactive)
                 told == Append(s.told, "connected")
                 armed == s.armed \cup {"hold"} \cup inactive
      <4>1. told \in Seq(Callback)
        BY <3>1 DEF SessionTypes, Callback
      <4>2. armed \subseteq Timer /\ "hold" \in armed /\ s.armed \subseteq armed
        BY <3>1 DEF SessionTypes, Timer
      <4>3. u = [s EXCEPT !.connected = TRUE, !.tun = TRUE, !.told = told, !.armed = armed]
        BY <3>1 DEF Connected, SessionTypes
      <4> HIDE DEF told, armed, u
      <4>4. /\ u \in SessionTypes /\ u.halt = s.halt /\ u.active = s.active
            /\ u.options = s.options /\ u.due = s.due /\ u.armed = armed
        BY <3>1, <4>1, <4>2, <4>3 DEF SessionTypes
      <4>5. Waits(SetHousekeepingTimer(u))
        BY <3>1, <4>2, <4>4, HousekeepingWaits
      <4> QED BY <3>4, <4>5 DEF u
    <3>5. CASE \/ EndForGood(s, TunSetupFailed(tunnel))
               \/ EndForGood([s EXCEPT !.tun = TRUE], Established(tunnel, server.pushes))
      <4> DEFINE u == [s EXCEPT !.tun = TRUE]
      <4>1. u \in SessionTypes /\ u.halt = s.halt /\ Waits(s)
        BY <3>1 DEF SessionTypes, Waits
      <4>2. Stop(s, TunSetupFailed(tunnel), TRUE, TRUE)
              \/ Stop(u, Established(tunnel, server.pushes), TRUE, TRUE)
        BY <3>5 DEF EndForGood
      <4> HIDE DEF u
      <4>3. (s.halt /\ session'.halt) \/ Waits(session')
        BY <3>1, <4>1, <4>2, StopWaits
      <4> QED BY <4>3 DEF Waits
    <3> QED BY <3>2, <3>3, <3>4, <3>5 DEF TunStart
  <2> QED BY <2>2, <2>3
<1>3. CASE m.kind = "INFO" /\ RecvInfo(session, m.n)
  <2>1. Informs(m)
    BY <1>3 DEF Informs
  <2> DEFINE n == m.n
  <2>2. n \in 1 .. MaxInfo
    <3>1. n = Len(session.shown) + Len(session.held) + 1 /\ n <= server.infos
      BY <1>1, <2>1, MovedInfos
    <3>2. Len(session.shown) \in Nat /\ Len(session.held) \in Nat
      BY <1>1 DEF SessionTypes
    <3>3. server.infos <= MaxInfo /\ server.infos \in Nat /\ MaxInfo \in Nat
      BY BoundAssumption DEF Inv, Typed, Server
    <3> DEFINE a == Len(session.shown)
               b == Len(session.held)
    <3>4. n = a + b + 1 /\ n <= server.infos /\ a \in Nat /\ b \in Nat
      BY <3>1, <3>2
    <3> HIDE DEF n, a, b
    <3> QED BY <3>3, <3>4
  <2> DEFINE S == 1 .. MaxInfo
  <2>3. session.shown \in Seq(S) /\ session.held \in Seq(S) /\ n \in S
    BY <1>1, <2>2 DEF SessionTypes
  <2> HIDE DEF n, S
  <2> DEFINE held == Append(session.held, n)
             shown == Append(session.shown, n)
  <2>4. held \in Seq(S) /\ shown \in Seq(S)
    BY <2>3, Queue
  <2>5. \/ session' = SetHousekeepingTimer([session EXCEPT !.held = held])
        \/ session' = SetHousekeepingTimer([session EXCEPT !.shown = shown])
    <3>1. /\ [session EXCEPT !.held = Append(@, n)] = [session EXCEPT !.held = held]
          /\ [session EXCEPT !.shown = Append(@, n)] = [session EXCEPT !.shown = shown]
      BY <1>1 DEF SessionTypes
    <3>2. session' = SetHousekeepingTimer(IF session.holding
                        THEN [session EXCEPT !.held = Append(@, n)]
                        ELSE [session EXCEPT !.shown = Append(@, n)])
      BY <1>3 DEF RecvInfo, Become, n
    <3> HIDE DEF held, shown
    <3> QED BY <3>1, <3>2
  <2>6. ASSUME NEW u \in {[session EXCEPT !.held = held], [session EXCEPT !.shown = shown]}
        PROVE  /\ u \in SessionTypes /\ u.halt = session.halt /\ u.active = session.active
               /\ u.options = session.options /\ u.connected = session.connected
               /\ u.holding = session.holding /\ u.armed = session.armed /\ u.due = session.due
    <3> HIDE DEF held, shown
    <3> QED BY <1>1, <2>4, <2>6 DEF SessionTypes, S
  <2>7. ASSUME NEW u \in {[session EXCEPT !.held = held], [session EXCEPT !.shown = shown]}
        PROVE  Waits(SetHousekeepingTimer(u))
    BY <2>6, HousekeepingWaits DEF Waits
  <2> HIDE DEF held, shown
  <2> QED BY <2>5, <2>7
<1>4. CASE EndForGood(session, tunnel) \/ EndRetrying(session, tunnel)
  BY <1>1, <1>4, StopWaits DEF EndForGood, EndRetrying
<1> QED BY <1>1, <1>2, <1>3, <1>4 DEF ControlRecv

\* A timer that expires is due, and its handler sets it again while it is needed.
LEMMA TimersWait ==
    ASSUME Inv, Waits(session), NEW timer \in Timer, Expire(timer) \/ HandleTimer(timer)
    PROVE  Waits(session')
<1>1. session \in SessionTypes
  BY DEF Inv, Typed
<1>2. \A other \in Timer :
         LET s == Handled(other)
         IN  /\ s \in SessionTypes /\ s.halt = session.halt /\ s.begun = session.begun
             /\ s.active = session.active /\ s.options = session.options
             /\ s.connected = session.connected /\ s.holding = session.holding
             /\ s.armed = session.armed /\ s.due = session.due \ {other}
             /\ s.shown = session.shown
  BY <1>1, HandledFacts
<1>3. CASE Expire(timer)
  <2>1. session' = [session EXCEPT !.armed = @ \ {timer}, !.due = @ \cup {timer}]
    BY <1>3 DEF Expire, Become
  <2>2. /\ session'.halt = session.halt /\ session'.begun = session.begun
        /\ session'.active = session.active /\ session'.options = session.options
        /\ session'.connected = session.connected /\ session'.holding = session.holding
        /\ session'.armed = session.armed \ {timer} /\ session'.due = session.due \cup {timer}
    BY <1>1, <2>1 DEF SessionTypes
  <2> QED BY <2>2 DEF Waits
<1>4. CASE (session.halt \/ (timer = "push" /\ Partial(session))) /\ Ignore(timer)
  <2>1. session' = Handled(timer)
    BY <1>4 DEF Ignore, Become
  <2> QED BY <1>2, <1>4, <2>1 DEF Waits, Partial
<1>5. CASE SendPushRequest
  <2> DEFINE s == Handled("push")
             u == SetHousekeepingTimer(s)
  <2>1. session' = SchedulePushRequest(u)
    BY <1>5 DEF SendPushRequest, Become
  <2>2. "push" \in Timer
    BY DEF Timer
  <2>3. /\ s \in SessionTypes /\ s.halt = session.halt /\ s.begun = session.begun
        /\ s.connected = session.connected /\ s.holding = session.holding
        /\ s.armed = session.armed /\ s.due = session.due \ {"push"}
    BY <1>2, <2>2
  <2> HIDE DEF s
  <2>4. /\ u \in SessionTypes /\ u.halt = s.halt /\ u.begun = s.begun
        /\ u.connected = s.connected /\ u.holding = s.holding
        /\ u.due = s.due /\ s.armed \subseteq u.armed
    BY <2>2, <2>3, TimersTyped, TimersSame
  <2> HIDE DEF u
  <2> QED BY <2>1, <2>3, <2>4, PushWaits DEF Waits
<1>6. CASE Housekeeping
  <2> DEFINE s == Handled("housekeeping")
  <2>1. "housekeeping" \in Timer
    BY DEF Timer
  <2>2. /\ s \in SessionTypes /\ s.halt = session.halt
        /\ s.active = session.active /\ s.options = session.options
        /\ s.connected = session.connected /\ s.holding = session.holding
        /\ s.armed = session.armed /\ s.due = session.due \ {"housekeeping"}
    BY <1>2, <2>1
  <2>3. session' = SetHousekeepingTimer(s) \/ Stop(s, tunnel, TRUE, FALSE)
    BY <1>6 DEF Housekeeping, Become, EndRetrying
  <2> HIDE DEF s
  <2>4. CASE session' = SetHousekeepingTimer(s)
    BY <2>2, <2>4, HousekeepingWaits DEF Waits
  <2>5. CASE Stop(s, tunnel, TRUE, FALSE)
    <3>1. (s.halt /\ session' = s) \/ Waits(session')
      BY <2>2, <2>5, StopWaits
    <3> QED BY <3>1 DEF Waits
  <2> QED BY <2>3, <2>4, <2>5
<1>7. CASE Inactive
  <2> DEFINE s == Handled("inactive")
  <2>1. "inactive" \in Timer
    BY DEF Timer
  <2>2. /\ s \in SessionTypes /\ Waits(s)
    BY <1>2, <2>1 DEF Waits
  <2>3. session' = Arm(s, "inactive") \/ Stop(s, tunnel, TRUE, TRUE)
    BY <1>7 DEF Inactive, Become, EndForGood
  <2> HIDE DEF s
  <2>4. CASE session' = Arm(s, "inactive")
    <3>1. /\ session'.halt = s.halt /\ session'.begun = s.begun /\ session'.active = s.active
          /\ session'.options = s.options /\ session'.connected = s.connected
          /\ session'.holding = s.holding /\ session'.due = s.due
          /\ s.armed \subseteq session'.armed
      BY <2>1, <2>2, <2>4 DEF Arm, SessionTypes
    <3> QED BY <2>2, <3>1 DEF Waits
  <2>5. CASE Stop(s, tunnel, TRUE, TRUE)
    <3>1. (s.halt /\ session' = s) \/ Waits(session')
      BY <2>2, <2>5, StopWaits
    <3> QED BY <3>1 DEF Waits
  <2> QED BY <2>3, <2>4, <2>5
<1>8. CASE InfoHold
  <2> DEFINE s == Handled("hold")
             all == s.shown \o session.held
  <2>1. "hold" \in Timer
    BY DEF Timer
  <2>2. /\ s \in SessionTypes /\ s.halt = session.halt /\ s.begun = session.begun
        /\ s.active = session.active /\ s.options = session.options
        /\ s.armed = session.armed /\ s.due = session.due \ {"hold"}
    BY <1>2, <2>1
  <2>3. session' = [s EXCEPT !.shown = all, !.held = <<>>, !.holding = FALSE]
    BY <1>8 DEF InfoHold, Become
  <2> HIDE DEF s, all
  <2>4. /\ session'.halt = s.halt /\ session'.begun = s.begun /\ session'.active = s.active
        /\ session'.options = s.options /\ session'.holding = FALSE
        /\ session'.armed = s.armed /\ session'.due = s.due
    BY <2>2, <2>3 DEF SessionTypes
  <2> QED BY <2>2, <2>4 DEF Waits
<1> QED BY <1>3, <1>4, <1>5, <1>6, <1>7, <1>8 DEF HandleTimer

\* No step forgets a timer.
LEMMA StepWaits ==
    ASSUME Inv, Waits(session), Next
    PROVE  Waits(session')
<1>1. session \in SessionTypes
  BY DEF Inv, Typed
<1>2. CASE Begin
  <2> DEFINE s == [session EXCEPT !.begun = TRUE]
  <2>1. session' = SetHousekeepingTimer(s)
    BY <1>2 DEF Begin, Become
  <2>2. /\ s \in SessionTypes /\ s.halt = session.halt /\ s.active = session.active
        /\ s.options = session.options /\ s.connected = session.connected
        /\ s.holding = session.holding /\ s.armed = session.armed /\ s.due = session.due
    BY <1>1 DEF SessionTypes
  <2> HIDE DEF s
  <2> QED BY <2>1, <2>2, HousekeepingWaits DEF Waits
<1>3. CASE Hear
  <2> DEFINE s == [session EXCEPT !.heard = TRUE]
  <2>1. session' = SetHousekeepingTimer(s)
    BY <1>3 DEF Hear, Become
  <2>2. /\ s \in SessionTypes /\ s.halt = session.halt /\ s.active = session.active
        /\ s.options = session.options /\ s.connected = session.connected
        /\ s.holding = session.holding /\ s.armed = session.armed /\ s.due = session.due
    BY <1>1 DEF SessionTypes
  <2> HIDE DEF s
  <2> QED BY <2>1, <2>2, HousekeepingWaits DEF Waits
<1>4. CASE Active
  <2> DEFINE s == [session EXCEPT !.active = TRUE]
  <2>1. session' = SchedulePushRequest(s)
    BY <1>4 DEF Active, Become
  <2>2. /\ s \in SessionTypes /\ s.halt = session.halt /\ s.begun = session.begun
        /\ s.options = session.options /\ s.connected = session.connected
        /\ s.holding = session.holding /\ s.armed = session.armed /\ s.due = session.due
    BY <1>1 DEF SessionTypes
  <2> HIDE DEF s
  <2> QED BY <2>1, <2>2, PushWaits DEF Waits
<1>5. CASE TransportError \/ Pause \/ (Disconnect /\ ~session.halt)
  <2>1. ~session.halt /\ \E tell, final \in BOOLEAN : Stop(session, tunnel, tell, final)
    BY <1>5 DEF TransportError, Pause, Disconnect, EndRetrying
  <2> QED BY <1>1, <2>1, StopWaits
<1>6. CASE Invalidate
  <2>1. session' = [session EXCEPT !.invalid = TRUE]
    BY <1>6 DEF Invalidate, Become
  <2>2. /\ session'.halt = session.halt /\ session'.begun = session.begun
        /\ session'.active = session.active /\ session'.options = session.options
        /\ session'.connected = session.connected /\ session'.holding = session.holding
        /\ session'.armed = session.armed /\ session'.due = session.due
    BY <1>1, <2>1 DEF SessionTypes
  <2> QED BY <2>2 DEF Waits
<1>7. CASE UNCHANGED session
  BY <1>7
<1>8. CASE NewClient
  BY <1>8 DEF NewClient, NewSession, Waits
<1>9. CASE Receive
  BY <1>9, ReceiveWaits
<1>10. CASE \E timer \in Timer : Expire(timer) \/ HandleTimer(timer)
  BY <1>10, TimersWait
<1>11. (Disconnect /\ session.halt) \/ Reply \/ Inform \/ Apply
         \/ (\E kind \in {"AUTH_FAILED", "RESTART"} : EndSession(kind))
         \/ (\E n \in 1 .. Len(server.wire) : Read(n))
         => UNCHANGED session
  BY DEF Disconnect, Reply, Inform, Apply, EndSession, ServerSends, Read
<1> QED BY <1>2, <1>3, <1>4, <1>5, <1>6, <1>7, <1>8, <1>9, <1>10, <1>11 DEF Next

\* Housekeeping, the next push request and the delivery of what is held are always
\* under way, whichever handlers ran and in whichever order the timers expired.
THEOREM NothingIsForgotten == Spec => []NothingForgotten
<1>1. Init => Waits(session)
  BY DEF Init, NewSession, Waits
<1>2. Inv /\ Waits(session) /\ [Next]_vars => Waits(session)'
  <2> SUFFICES ASSUME Inv, Waits(session), [Next]_vars
               PROVE  Waits(session')
    BY DEF Waits
  <2>1. CASE UNCHANGED vars
    BY <2>1 DEF vars, Waits
  <2> QED BY <2>1, StepWaits
<1>3. Waits(session) => NothingForgotten
  BY NothingIsWaits
<1> QED BY <1>1, <1>2, <1>3, AlwaysInv, PTL DEF Spec
=============================================================================
