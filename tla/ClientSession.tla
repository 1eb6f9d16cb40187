--------------------------- MODULE ClientSession ---------------------------
(***************************************************************************)
(* ClientProto::Session (client/cliproto.hpp), the sessions of one         *)
(* ClientConnect one after the other: requests for the pushed options, the *)
(* reply in parts, the tunnel they bring up, messages from the server,     *)
(* timers, and the many ways to end.                                       *)
(*                                                                         *)
(* One thread runs every handler to its end.  A read of the transport may  *)
(* hand over several messages, of one packet or of several, and goes on    *)
(* with the rest of them when one has halted the session.  A timer that    *)
(* has expired has its handler queued, where cancelling the timer does not *)
(* reach it.                                                               *)
(*                                                                         *)
(* Abstracted: the key exchange (KeyContexts) but for its outcomes, the    *)
(* packets and their order (ProtoStack), data packets, durations, with     *)
(* them AUTH_PENDING, the contents of options, auth-tokens, relays, DCO.   *)
(* Assumed: every part of a reply parses, and a server sends nothing after *)
(* it has refused or ended a session.                                      *)
(* The wrong versions before some definitions are used by nothing: they    *)
(* are mistakes the properties have been shown to catch.                   *)
(***************************************************************************)
EXTENDS PacketTunnel

CONSTANTS
    Parts,       \* PUSH_REPLY messages that make a reply
    Need,        \* requests after which the server has a reply ready
    MaxSessions, \* bound: sessions
    MaxReplies,  \* bound: replies of the server to one session
    MaxInfo,     \* bound: INFO messages of the server to one session
    MaxSends     \* bound: both

ASSUME PartsAssumption == Parts \in Nat \ {0} /\ Need \in Nat \ {0}
ASSUME BoundAssumption == MaxSessions \in Nat \ {0} /\ {MaxReplies, MaxInfo, MaxSends} \subseteq Nat

VARIABLES
    session, \* the current Session
    batch,   \* messages that the read under way has yet to hand over
    server,  \* the server's end of the session
    stopped  \* the owner is: ClientConnect::halt

vars == <<session, batch, server, stopped, tunnel>>

Timer == {"push", "housekeeping", "inactive", "hold"}
Message == [kind : {"PUSH_REPLY", "INFO", "AUTH_FAILED", "RESTART"}, n : Nat]
Callback == {"connected", "terminated"}

\* options are the numbers of the parts received.  armed timers are waiting, due
\* ones have their handler queued.  tun: the tun client exists and is not halted.
\* INFO messages are held, while holding, and then shown to the app.
Session ==
    [num : 1 .. MaxSessions, halt : BOOLEAN, begun : BOOLEAN, heard : BOOLEAN,
     active : BOOLEAN, invalid : BOOLEAN, options : UNION {[1 .. k -> 1 .. Parts] : k \in 0 .. Parts},
     connected : BOOLEAN, tun : BOOLEAN, armed : SUBSET Timer, due : SUBSET Timer,
     holding : BOOLEAN, held : Seq(1 .. MaxInfo), shown : Seq(1 .. MaxInfo),
     told : Seq(Callback)]

\* asked counts requests up to Need; pushes is what its reply says.
Server ==
    [wire : Seq(Message), asked : 0 .. Need, replies : 0 .. MaxReplies,
     infos : 0 .. MaxInfo, over : BOOLEAN, pushes : Settings]

NewSession(n) ==
    [num |-> n, halt |-> FALSE, begun |-> FALSE, heard |-> FALSE, active |-> FALSE,
     invalid |-> FALSE, options |-> <<>>, connected |-> FALSE, tun |-> FALSE,
     armed |-> {}, due |-> {}, holding |-> TRUE, held |-> <<>>, shown |-> <<>>,
     told |-> <<>>]

NewServer(pushes) ==
    [wire |-> <<>>, asked |-> 0, replies |-> 0, infos |-> 0, over |-> FALSE,
     pushes |-> pushes]

Init ==
    /\ session = NewSession(1)
    /\ batch = 0
    /\ server \in {NewServer(pushes) : pushes \in Settings}
    /\ stopped = FALSE
    /\ tunnel \in {NewTunnel(persist) : persist \in BOOLEAN}

-----------------------------------------------------------------------------
(* The methods of a Session.                                               *)

Partial(s) == s.options # <<>>
Complete(s) == Partial(s) /\ s.options[Len(s.options)] = Parts

Arm(s, timer) == [s EXCEPT !.armed = @ \cup {timer}]
\* set_housekeeping_timer(): a session with keepalive, or whose keys are renegotiated,
\* always has a next time; without either the timer is cancelled once a key is in use.
SetHousekeepingTimer(s) == IF s.halt THEN s ELSE Arm(s, "housekeeping")
SchedulePushRequest(s) == IF Partial(s) THEN s ELSE Arm(s, "push")

\* stop(): tells the owner, which may stop in its turn, before the tun goes.
StopAgain(s, t, tell, final) ==
    /\ session' = [s EXCEPT !.halt = TRUE, !.armed = {}, !.tun = FALSE,
                            !.told = IF tell THEN Append(@, "terminated") ELSE @]
    /\ stopped' = (stopped \/ final)
    /\ tunnel' = LET down == IF s.tun THEN TunStop(t) ELSE t
                 IN  IF final THEN Finalize(down) ELSE down
StopLeavesTun(s, t, tell, final) ==
    IF s.halt THEN session' = s /\ tunnel' = t /\ UNCHANGED stopped
    ELSE /\ session' = [s EXCEPT !.halt = TRUE, !.armed = {},
                                 !.told = IF tell THEN Append(@, "terminated") ELSE @]
         /\ stopped' = (stopped \/ final)
         /\ tunnel' = IF final THEN Finalize(t) ELSE t
Stop(s, t, tell, final) ==
    IF s.halt THEN session' = s /\ tunnel' = t /\ UNCHANGED stopped
    ELSE /\ session' = [s EXCEPT !.halt = TRUE, !.armed = {}, !.tun = FALSE,
                                 !.told = IF tell THEN Append(@, "terminated") ELSE @]
         /\ stopped' = (stopped \/ final)
         /\ tunnel' = LET down == IF s.tun THEN TunStop(t) ELSE t
                      IN  IF final THEN Finalize(down) ELSE down

\* The owner retries after some ends, and stops after the others.
EndRetrying(s, t) == Stop(s, t, TRUE, FALSE)
EndForGood(s, t) == Stop(s, t, TRUE, TRUE)

Become(s) == session' = s /\ UNCHANGED <<stopped, tunnel>>

-----------------------------------------------------------------------------
(* The transport.                                                          *)

Idle == batch = 0

\* transport_connecting()
Begin ==
    /\ Idle /\ ~session.halt /\ ~session.begun
    /\ Become(SetHousekeepingTimer([session EXCEPT !.begun = TRUE]))
    /\ UNCHANGED <<batch, server>>

\* The first packet.
Hear ==
    /\ Idle /\ ~session.halt /\ session.begun /\ ~session.heard
    /\ Become(SetHousekeepingTimer([session EXCEPT !.heard = TRUE]))
    /\ UNCHANGED <<batch, server>>

\* active(): after the first negotiation, and again when a key expires under
\* one that has yet to be negotiated.
Active ==
    /\ Idle /\ ~session.halt /\ session.heard /\ ~session.invalid
    /\ Become(SchedulePushRequest([session EXCEPT !.active = TRUE]))
    /\ UNCHANGED <<batch, server>>

TransportError ==
    /\ Idle /\ ~session.halt
    /\ EndRetrying(session, tunnel)
    /\ UNCHANGED <<batch, server>>

\* The primary key fails, or keepalive does: noticed at the next housekeeping.
Invalidate ==
    /\ Idle /\ ~session.halt /\ session.begun
    /\ Become([session EXCEPT !.invalid = TRUE])
    /\ UNCHANGED <<batch, server>>

\* The stacks of an invalidated session deliver nothing.
Read(n) ==
    /\ Idle /\ ~session.halt /\ session.active /\ ~session.invalid
    /\ n <= Len(server.wire)
    /\ batch' = n
    /\ UNCHANGED <<session, server, stopped, tunnel>>

-----------------------------------------------------------------------------
(* control_recv()                                                          *)

\* The tun is up: the owner is told, and then the app.
Connected(s, inactive) ==
    [s EXCEPT !.connected = TRUE, !.tun = TRUE, !.told = Append(@, "connected"),
              !.armed = @ \cup {"hold"} \cup inactive]

\* A device that is not kept from before may fail in two ways: the adapter
\* refuses an option, or the sockets of the bridge.
TunStart(s) ==
    \/ \E inactive \in SUBSET {"inactive"} :
          /\ session' = SetHousekeepingTimer(Connected(s, inactive))
          /\ tunnel' = TunConnected(tunnel, server.pushes)
          /\ UNCHANGED stopped
    \/ /\ ~UsePersistedTun(tunnel, server.pushes)
       /\ \/ EndForGood(s, TunSetupFailed(tunnel))
          \/ EndForGood([s EXCEPT !.tun = TRUE], Established(tunnel, server.pushes))

RecvPushReplyAgain(s, n) ==
    LET added == [s EXCEPT !.options = Append(@, n)]
    IN  IF Complete(added) THEN TunStart(added) ELSE Become(SetHousekeepingTimer(added))
RecvPushReply(s, n) ==
    LET added == [s EXCEPT !.options = Append(@, n)]
    IN  IF Complete(s) THEN Become(SetHousekeepingTimer(s))
        ELSE IF Complete(added) THEN TunStart(added)
        ELSE Become(SetHousekeepingTimer(added))

RecvInfoHeldUntilConnected(s, n) ==
    Become(SetHousekeepingTimer(
        IF ~s.connected THEN [s EXCEPT !.held = Append(@, n)]
        ELSE [s EXCEPT !.shown = Append(@, n)]))
RecvInfo(s, n) ==
    Become(SetHousekeepingTimer(
        IF s.holding THEN [s EXCEPT !.held = Append(@, n)]
        ELSE [s EXCEPT !.shown = Append(@, n)]))

\* AUTH_FAILED also stands for HALT, which ends the client, and RESTART for an
\* expired session token, after which it retries.
ControlRecv(s, m) ==
    \/ m.kind = "PUSH_REPLY" /\ RecvPushReply(s, m.n)
    \/ m.kind = "INFO" /\ RecvInfo(s, m.n)
    \/ m.kind = "AUTH_FAILED" /\ EndForGood(s, tunnel)
    \/ m.kind = "RESTART" /\ EndRetrying(s, tunnel)

Receive ==
    /\ batch > 0
    /\ ControlRecv(session, Head(server.wire))
    /\ server' = [server EXCEPT !.wire = Tail(@)]
    /\ batch' = batch - 1

-----------------------------------------------------------------------------
(* The timers: their handlers do nothing when the session has halted.      *)

Expire(timer) ==
    /\ timer \in session.armed
    /\ Become([session EXCEPT !.armed = @ \ {timer}, !.due = @ \cup {timer}])
    /\ UNCHANGED <<batch, server>>

Handle(timer) == Idle /\ timer \in session.due /\ UNCHANGED batch
Handled(timer) == [session EXCEPT !.due = @ \ {timer}]

Ignore(timer) == Handle(timer) /\ Become(Handled(timer)) /\ UNCHANGED server

SendPushRequest ==
    /\ Handle("push") /\ ~session.halt /\ ~Partial(session)
    /\ Become(SchedulePushRequest(SetHousekeepingTimer(Handled("push"))))
    /\ server' = [server EXCEPT !.asked = IF session.invalid \/ @ = Need THEN @ ELSE @ + 1]

HousekeepingOnce ==
    /\ Handle("housekeeping") /\ ~session.halt
    /\ IF session.invalid THEN EndRetrying(Handled("housekeeping"), tunnel)
       ELSE Become(Handled("housekeeping"))
    /\ UNCHANGED server
Housekeeping ==
    /\ Handle("housekeeping") /\ ~session.halt
    /\ IF session.invalid THEN EndRetrying(Handled("housekeeping"), tunnel)
       ELSE Become(SetHousekeepingTimer(Handled("housekeeping")))
    /\ UNCHANGED server

\* There has been traffic since the last sample, or not.
Inactive ==
    /\ Handle("inactive") /\ ~session.halt
    /\ \/ Become(Arm(Handled("inactive"), "inactive"))
       \/ EndForGood(Handled("inactive"), tunnel)
    /\ UNCHANGED server

InfoHold ==
    /\ Handle("hold") /\ ~session.halt
    /\ Become([Handled("hold") EXCEPT !.shown = @ \o session.held, !.held = <<>>,
                                      !.holding = FALSE])
    /\ UNCHANGED server

HandleTimer(timer) ==
    \/ (session.halt \/ (timer = "push" /\ Partial(session))) /\ Ignore(timer)
    \/ timer = "push" /\ SendPushRequest
    \/ timer = "housekeeping" /\ Housekeeping
    \/ timer = "inactive" /\ Inactive
    \/ timer = "hold" /\ InfoHold

-----------------------------------------------------------------------------
(* The owner and the server.                                               *)

\* ClientConnect::new_client(): a retry, a resume, or a server that is silent.
NewClient ==
    /\ Idle /\ ~stopped /\ session.num < MaxSessions
    /\ session' = NewSession(session.num + 1)
    /\ server' \in {NewServer(pushes) : pushes \in Settings}
    /\ tunnel' = IF session.tun THEN TunStop(tunnel) ELSE tunnel
    /\ UNCHANGED <<batch, stopped>>

\* ClientConnect::pause()
Pause ==
    /\ Idle /\ ~session.halt
    /\ Stop(session, tunnel, FALSE, FALSE)
    /\ UNCHANGED <<batch, server>>

\* ClientConnect::stop()
Disconnect ==
    /\ Idle /\ ~stopped
    /\ IF session.halt
       THEN stopped' = TRUE /\ tunnel' = Finalize(tunnel) /\ UNCHANGED session
       ELSE Stop(session, tunnel, FALSE, TRUE)
    /\ UNCHANGED <<batch, server>>

ServerSends(messages, change) ==
    /\ ~server.over /\ session.active /\ ~session.halt
    /\ server' = [change EXCEPT !.wire = @ \o messages]
    /\ UNCHANGED <<session, batch, stopped, tunnel>>

\* The answer to a request, and perhaps to those that crossed it.
Reply ==
    /\ server.asked = Need /\ server.replies < MaxReplies
    /\ server.replies + server.infos < MaxSends
    /\ ServerSends([n \in 1 .. Parts |-> [kind |-> "PUSH_REPLY", n |-> n]],
                   [server EXCEPT !.replies = @ + 1])

Inform ==
    /\ server.infos < MaxInfo /\ server.replies + server.infos < MaxSends
    /\ ServerSends(<<[kind |-> "INFO", n |-> server.infos + 1]>>,
                   [server EXCEPT !.infos = @ + 1])

EndSession(kind) ==
    ServerSends(<<[kind |-> kind, n |-> 0]>>, [server EXCEPT !.over = TRUE])

-----------------------------------------------------------------------------
Apply == ApplySettings /\ UNCHANGED <<session, batch, server, stopped>>

Next ==
    \/ Begin \/ Hear \/ Active \/ TransportError \/ Invalidate
    \/ \E n \in 1 .. Len(server.wire) : Read(n)
    \/ Receive
    \/ \E timer \in Timer : Expire(timer) \/ HandleTimer(timer)
    \/ NewClient \/ Pause \/ Disconnect
    \/ Reply \/ Inform \/ \E kind \in {"AUTH_FAILED", "RESTART"} : EndSession(kind)
    \/ Apply

Spec == Init /\ [][Next]_vars

-----------------------------------------------------------------------------
(* Properties                                                              *)

\* Every variable keeps its type, and no reply is added to a complete one.
TypeOK ==
    /\ session \in Session /\ server \in Server /\ tunnel \in Tunnel
    /\ batch \in 0 .. Len(server.wire)
    /\ stopped \in BOOLEAN

\* What the owner sees of its sessions is what ClientConnect is written for:
\* late timers, second negotiations, repeated replies and the rest of a read
\* that halted the session do not make it connect or end twice.
Phase ==
    CASE session.halt -> "ended"
      [] session.connected /\ ~session.halt -> "connected"
      [] session.heard /\ ~session.connected /\ ~session.halt -> "heard"
      [] OTHER -> "connecting"
Contract ==
    INSTANCE SessionContract WITH num <- session.num, phase <- Phase, told <- session.told
ContractSpec == Contract!Spec

\* When the system has done what it was asked, its settings are those of the
\* connection that is up; with none, and no tunnel kept for the next one, or with
\* the client disconnected, the device has its own network back.
SettingsFollow ==
    tunnel.requests = <<>> =>
        /\ session.connected /\ ~session.halt => tunnel.installed = server.pushes
        /\ stopped \/ (~tunnel.persist /\ (session.halt \/ ~session.connected))
             => tunnel.installed = NoSettings

\* A connected session reads the sockets of the bridge that exists, and nothing
\* reads those of one that was closed.
BridgeServesTun ==
    /\ tunnel.io # 0 => tunnel.io = tunnel.bridge
    /\ (session.connected /\ ~session.halt) <=> tunnel.io # 0

\* "Buffer INFO messages received near Connected event to fire one second after
\* Connected event" (cliproto.hpp): the app sees them all after it, each once
\* and in order, those held and those that come meanwhile or later.
InfoInOrder ==
    /\ session.shown # <<>> => session.connected
    /\ session.shown \o session.held
         = [i \in 1 .. Len(session.shown) + Len(session.held) |-> i]

\* Nothing is left waiting for a timer that nobody set: the keys of a session may
\* fail unannounced at any time, which only housekeeping notices; the server may
\* need more than one request; and the app is to see what is held.
NothingForgotten ==
    LET pending == session.armed \cup session.due
    IN  ~session.halt =>
          /\ session.begun => "housekeeping" \in pending
          /\ session.active /\ ~Partial(session) => "push" \in pending
          /\ session.connected /\ session.holding => "hold" \in pending

=============================================================================
