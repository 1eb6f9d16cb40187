--------------------------- MODULE ClientConnect ---------------------------
(***************************************************************************)
(* ClientConnect (client/cliconnect.hpp): "an always-try-to-reconnect      *)
(* approach".  It owns one Session at a time (client/cliproto.hpp), three  *)
(* timers, and an optional DNS pre-resolve, and obeys the calls that the   *)
(* app posts from other threads.                                           *)
(*                                                                         *)
(* Everything runs in one thread, from the queue of ready handlers of an   *)
(* io_context.  A handler enters the queue when its timer expires, its     *)
(* event occurs or its call is posted; cancelling a timer has no effect on *)
(* a handler that is in the queue already.  That is why the timers'        *)
(* handlers carry the generation in which they were armed.                 *)
(*                                                                         *)
(* Abstracted: what a Session does (KeyContexts), durations, the events    *)
(* sent to the app, statistics, the remote list, relays, the lifecycle     *)
(* object, which is null on iOS, and explicit exit notifications.          *)
(* The wrong versions before some definitions are used by nothing: they    *)
(* are mistakes the properties have been shown to catch.                   *)
(***************************************************************************)
EXTENDS Integers, Sequences

CONSTANTS
    MaxGeneration,  \* bound: clients built
    MaxCalls,       \* bound: calls posted by the app
    MaxReady        \* bound: handlers in the queue

ASSUME BoundAssumption == {MaxGeneration, MaxCalls, MaxReady} \subseteq Nat \ {0}

VARIABLES
    options,  \* what the ClientOptions say
    cc,       \* the ClientConnect object with its Session and timers
    ready,    \* handlers the io_context has yet to run
    calls     \* calls posted so far

vars == <<options, cc, ready, calls>>

Timer == {"restart", "poll", "conn"}
Call == {"stop", "pause", "resume", "reconnect"}
SessionEvent == {"packet", "connected", "error", "fatal"}

\* enable_cache, server_poll_timeout, conn_timeout, pause_on_connection_timeout.
Options == [preresolve: BOOLEAN, poll: BOOLEAN, conn: BOOLEAN, pauseOnTimeout: BOOLEAN]

\* A wait remembers its generation and, of a restart, who wanted it.
Wait == [gen: 0..MaxGeneration, by: {"core", "app"}]
NoWait == [gen |-> -1, by |-> "core"]
Handler == [call: Timer \cup Call \cup SessionEvent \cup {"resolved"},
            gen: -1..MaxGeneration, by: {"core", "app"}]

Phase == {"none", "connecting", "connected", "halted"}
Object == [generation: 0..MaxGeneration, halt: BOOLEAN, paused: BOOLEAN, work: BOOLEAN,
           preresolve: BOOLEAN, phase: Phase, heard: BOOLEAN,
           timer: [Timer -> Wait \cup {NoWait}], connPending: BOOLEAN]

Live(c) == c.phase \in {"connecting", "connected"}

-----------------------------------------------------------------------------
(* The methods: what each makes of the object.                             *)

StopSession(c) == IF Live(c) THEN [c EXCEPT !.phase = "halted"] ELSE c

CancelTimers(c) == [c EXCEPT !.timer = [t \in Timer |-> NoWait], !.connPending = FALSE]

StopKeepsWork(c) == [CancelTimers(StopSession(c)) EXCEPT !.halt = TRUE, !.preresolve = FALSE]
Stop(c) ==
    IF c.halt THEN c
    ELSE [CancelTimers(StopSession(c)) EXCEPT
             !.halt = TRUE, !.preresolve = FALSE, !.work = FALSE]

Pause(c) ==
    IF c.halt \/ c.paused THEN c
    ELSE [CancelTimers(StopSession(c)) EXCEPT !.paused = TRUE, !.work = TRUE]

ArmRestart(c, by) ==
    [c EXCEPT !.timer.poll = NoWait, !.timer.restart = [gen |-> c.generation, by |-> by]]

Reconnect(c) == IF c.halt THEN c ELSE ArmRestart(c, "app")

QueueRestartForNext(c) ==
    [ArmRestart(c, "core") EXCEPT !.timer.restart.gen = @ + 1]
QueueRestart(c) == ArmRestart(c, "core")

\* The Session halts, then calls back.
Terminate(c, fatal) ==
    LET ended == StopSession(c)
    IN  IF c.halt THEN ended ELSE IF fatal THEN Stop(ended) ELSE QueueRestart(ended)

BuildClient(c) ==
    LET g == c.generation + 1
        armConn == options.conn /\ ~c.connPending
    IN  [c EXCEPT
           !.generation = g, !.work = FALSE, !.phase = "connecting", !.heard = FALSE,
           !.timer = [restart |-> NoWait,
                      poll |-> IF options.poll THEN [gen |-> g, by |-> "core"] ELSE @.poll,
                      conn |-> IF armConn THEN [gen |-> g, by |-> "core"] ELSE @.conn],
           !.connPending = @ \/ armConn]

\* The new Session starts last, and its transport may fail at once.
CancelsLate(c) == [Terminate(BuildClient(c), FALSE) EXCEPT !.timer.restart = NoWait]
NewClientCancelsLate(c) ==
    IF c.generation = MaxGeneration THEN {} ELSE {BuildClient(c), CancelsLate(c)}
NewClient(c) ==
    IF c.generation = MaxGeneration THEN {}
    ELSE {BuildClient(c), Terminate(BuildClient(c), FALSE)}

Resume(c) ==
    IF c.halt \/ ~c.paused THEN {c} ELSE NewClient([c EXCEPT !.paused = FALSE])

PreResolveDone(c) ==
    IF ~c.preresolve THEN {c} ELSE NewClient([c EXCEPT !.preresolve = FALSE])

RestartWaitCallback(c, gen) ==
    IF c.halt \/ gen # c.generation THEN {c}
    ELSE IF c.paused THEN Resume(c) ELSE NewClient(c)

PollEvenIfHeard(c, gen) == IF c.halt \/ gen # c.generation THEN {c} ELSE NewClient(c)
ServerPollCallback(c, gen) ==
    IF c.halt \/ gen # c.generation \/ c.heard THEN {c} ELSE NewClient(c)

ConnTimerCallback(c) ==
    IF ~c.halt /\ ~c.paused /\ options.pauseOnTimeout THEN Pause(c) ELSE Stop(c)

ClientProtoConnected(c) ==
    [c EXCEPT !.phase = "connected", !.timer.conn = NoWait, !.connPending = FALSE]

-----------------------------------------------------------------------------
(* The state after start(), and what puts handlers in the queue.           *)

Unstarted ==
    [generation |-> 0, halt |-> FALSE, paused |-> FALSE, work |-> FALSE,
     preresolve |-> FALSE, phase |-> "none", heard |-> FALSE,
     timer |-> [t \in Timer |-> NoWait], connPending |-> FALSE]

Init ==
    /\ options \in Options
    /\ cc \in IF options.preresolve THEN {[Unstarted EXCEPT !.preresolve = TRUE]}
              ELSE NewClient(Unstarted)
    /\ ready = <<>>
    /\ calls = 0

Enqueue(call, wait) ==
    /\ Len(ready) < MaxReady
    /\ ready' = Append(ready, [call |-> call, gen |-> wait.gen, by |-> wait.by])
    /\ UNCHANGED options

Queued(call, gen) == \E i \in DOMAIN ready : ready[i].call = call /\ ready[i].gen = gen

\* thread_safe_stop() and the like: not posted to a halted object.
Post(call) ==
    /\ ~cc.halt /\ calls < MaxCalls
    /\ Enqueue(call, NoWait)
    /\ calls' = calls + 1
    /\ UNCHANGED cc

Expire(t) ==
    /\ cc.timer[t] # NoWait
    /\ Enqueue(t, cc.timer[t])
    /\ cc' = [cc EXCEPT !.timer[t] = NoWait]
    /\ UNCHANGED calls

Resolved ==
    /\ cc.preresolve /\ ~Queued("resolved", -1)
    /\ Enqueue("resolved", NoWait)
    /\ UNCHANGED <<cc, calls>>

\* The socket or a timer of the Session is ready: its first packet, the
\* push reply, or the end of the Session, after which it may be restarted or not.
Occur(event) ==
    /\ Live(cc) /\ ~Queued(event, cc.generation)
    /\ event = "packet" => ~cc.heard
    /\ event = "connected" => cc.heard /\ cc.phase = "connecting"
    /\ Enqueue(event, [gen |-> cc.generation, by |-> "core"])
    /\ UNCHANGED <<cc, calls>>

-----------------------------------------------------------------------------
(* io_context.run(): the handlers, in the order in which they got ready.   *)

Handle(call, outcomes) ==
    /\ ready # <<>> /\ Head(ready).call = call
    /\ cc' \in outcomes
    /\ ready' = Tail(ready)
    /\ UNCHANGED <<options, calls>>

\* A halted Session ignores its handlers.
HandleEvent(event, outcome) ==
    Handle(event, {IF Live(cc) /\ Head(ready).gen = cc.generation THEN outcome ELSE cc})

Dispatch ==
    \/ Handle("stop", {Stop(cc)})
    \/ Handle("pause", {Pause(cc)})
    \/ Handle("resume", Resume(cc))
    \/ Handle("reconnect", {Reconnect(cc)})
    \/ Handle("resolved", PreResolveDone(cc))
    \/ Handle("restart", RestartWaitCallback(cc, Head(ready).gen))
    \/ Handle("poll", ServerPollCallback(cc, Head(ready).gen))
    \/ Handle("conn", {ConnTimerCallback(cc)})
    \/ HandleEvent("packet", [cc EXCEPT !.heard = TRUE])
    \/ HandleEvent("connected", ClientProtoConnected(cc))
    \/ HandleEvent("error", Terminate(cc, FALSE))
    \/ HandleEvent("fatal", Terminate(cc, TRUE))

Next ==
    \/ \E call \in Call : Post(call)
    \/ \E t \in Timer : Expire(t)
    \/ Resolved
    \/ \E event \in SessionEvent : Occur(event)
    \/ Dispatch

\* Timers expire and the thread runs what is ready; no session need ever
\* be answered.
Fairness == WF_vars(Expire("restart")) /\ WF_vars(Dispatch)

Spec == Init /\ [][Next]_vars /\ Fairness

-----------------------------------------------------------------------------
(* Properties                                                              *)

\* Type invariant: object, timers and queued handlers are what the code can hold.
TypeOK ==
    /\ options \in Options
    /\ cc \in Object
    /\ ready \in Seq(Handler) /\ Len(ready) <= MaxReady
    /\ calls \in 0..MaxCalls

\* The object never comes to rest by accident: until it is stopped there is
\* a live session, a restart or a pre-resolve under way, or it is paused and
\* keeps the io_context's run() from returning.
AlwaysTrying ==
    \/ cc.halt \/ Live(cc) \/ cc.preresolve
    \/ cc.paused /\ cc.work
    \/ cc.timer.restart.gen = cc.generation
    \/ Queued("restart", cc.generation)

\* A stopped object leaves nothing behind that would keep run(), and with it
\* the app's connect() call, from returning.
StopIsFinal ==
    cc.halt => /\ ~Live(cc) /\ ~cc.work /\ ~cc.preresolve
               /\ \A t \in Timer : cc.timer[t] = NoWait

\* No server poll timeout, and no restart queued for an earlier failure, ends
\* a session that has heard from its server, however late its handler runs.
HeardSessionKept ==
    [][Live(cc) /\ cc.heard /\ ~cc.paused /\ ~(Live(cc)' /\ cc'.generation = cc.generation)
        => /\ Head(ready).call # "poll"
           /\ (Head(ready).call = "restart" => Head(ready).by = "app")]_vars

\* A session that ended is followed by another, unless the app paused or
\* stopped the client: calls, late handlers and failures do not lose the retry.
Retried ==
    \A g \in 1..MaxGeneration - 1 :
        (cc.generation = g /\ cc.phase = "halted" /\ ~cc.halt /\ ~cc.paused)
            ~> (cc.generation > g \/ cc.halt \/ cc.paused)

\* "Pause the client -- useful to avoid continuous reconnection attempts when
\* network is down" (ovpncli.hpp): a paused client has no live session.
PauseHolds == cc.paused => ~Live(cc)

=============================================================================
