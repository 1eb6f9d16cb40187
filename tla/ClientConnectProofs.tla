------------------------ MODULE ClientConnectProofs ------------------------
(***************************************************************************)
(* What ClientConnect promises, for any number of clients, calls and       *)
(* queued handlers.  Every method maps a well-formed object to one that    *)
(* Follows it; the queue of handlers adds that a restart which is still    *)
(* queued when its client is live was wanted by the app.                   *)
(***************************************************************************)
EXTENDS ClientConnect, TLAPS

\* StopIsFinal, of one object.
Final(c) ==
    c.halt => /\ ~Live(c) /\ ~c.work /\ ~c.preresolve
              /\ \A t \in Timer : c.timer[t] = NoWait

\* AlwaysTrying, of one object: what keeps it trying without the queue.
Trying(c) ==
    \/ c.halt \/ Live(c) \/ c.preresolve
    \/ c.paused /\ c.work
    \/ c.timer.restart.gen = c.generation

\* No timer is armed for a client yet to be built.
Recent(c) == \A t \in Timer : c.timer[t].gen <= c.generation

\* The core restarts no client that is live: only the app does.
Own(c) == Live(c) /\ c.timer.restart.gen = c.generation => c.timer.restart.by = "app"

Well(c) == c \in Object /\ Final(c) /\ Recent(c) /\ Own(c)

\* What every method keeps to.
Follows(c, d) ==
    /\ Well(d)
    /\ c.generation <= d.generation
    /\ Trying(c) \/ c.generation < d.generation => Trying(d)
    /\ Live(d) /\ d.generation = c.generation => Live(c)

-----------------------------------------------------------------------------
(* The methods.                                                            *)

\* The restart, poll and connection timers are all there are.
LEMMA Timers ==
    ASSUME NEW f \in [Timer -> Wait \cup {NoWait}]
    PROVE  /\ f.restart \in Wait \cup {NoWait}
           /\ f.poll \in Wait \cup {NoWait}
           /\ f.conn \in Wait \cup {NoWait}
  BY DEF Timer

\* A wait names a generation that the bound allows.
LEMMA Waits ==
    ASSUME NEW w \in Wait \cup {NoWait}
    PROVE  /\ w.gen \in -1..MaxGeneration /\ w.by \in {"core", "app"}
           /\ w = NoWait <=> w.gen = -1
  BY BoundAssumption DEF Wait, NoWait

\* Nothing follows itself wrongly.
LEMMA Stays == ASSUME NEW c, Well(c) PROVE Follows(c, c)
  BY BoundAssumption DEF Follows, Well, Object

\* Session::stop().
LEMMA StopSessionType ==
    ASSUME NEW c \in Object
    PROVE  /\ StopSession(c) \in Object
           /\ ~Live(StopSession(c))
           /\ StopSession(c) = [c EXCEPT !.phase = StopSession(c).phase]
           /\ StopSession(c).generation = c.generation /\ StopSession(c).halt = c.halt
  BY DEF StopSession, Object, Phase, Live

\* cancel() of the three timers.
LEMMA CancelTimersType ==
    ASSUME NEW c \in Object
    PROVE  /\ CancelTimers(c) \in Object
           /\ CancelTimers(c).timer = [t \in Timer |-> NoWait]
           /\ CancelTimers(c).phase = c.phase
           /\ CancelTimers(c).generation = c.generation
           /\ CancelTimers(c).halt = c.halt
  BY DEF CancelTimers, Object

\* stop().
LEMMA StopFollows ==
    ASSUME NEW c, Well(c)
    PROVE  Follows(c, Stop(c)) /\ Stop(c).halt
<1>1. CASE c.halt
  BY <1>1, Stays DEF Stop
<1>2. CASE ~c.halt
  <2> DEFINE e == CancelTimers(StopSession(c))
  <2>1. /\ e \in Object /\ ~Live(e) /\ e.timer = [t \in Timer |-> NoWait]
        /\ e.generation = c.generation
    BY StopSessionType, CancelTimersType DEF Well, Live, Object
  <2>2. Stop(c) = [e EXCEPT !.halt = TRUE, !.preresolve = FALSE, !.work = FALSE]
    BY <1>2 DEF Stop
  <2> HIDE DEF e
  <2> DEFINE d == Stop(c)
  <2>3. d \in Object /\ d.halt /\ ~d.preresolve /\ ~d.work /\ d.phase = e.phase
        /\ d.timer = e.timer /\ d.generation = e.generation
    BY <2>1, <2>2 DEF Object
  <2> HIDE DEF d
  <2>4. ~Live(d)
    BY <2>1, <2>3 DEF Live
  <2>5. Final(d) /\ Own(d) /\ Trying(d)
    BY <2>1, <2>3, <2>4 DEF Final, Own, Trying
  <2>6. Recent(d)
    BY <2>1, <2>3, BoundAssumption DEF Recent, NoWait, Object
  <2>7. c.generation <= d.generation
    BY <2>1, <2>3 DEF Object
  <2> QED BY <2>3, <2>4, <2>5, <2>6, <2>7 DEF Follows, Well, d
<1> QED BY <1>1, <1>2

\* pause(): what keeps a paused object trying is its work.
LEMMA PauseFollows ==
    ASSUME NEW c, Well(c)
    PROVE  Follows(c, Pause(c))
<1>1. CASE c.halt \/ c.paused
  BY <1>1, Stays DEF Pause
<1>2. CASE ~(c.halt \/ c.paused)
  <2> DEFINE e == CancelTimers(StopSession(c))
  <2>1. /\ e \in Object /\ ~Live(e) /\ e.timer = [t \in Timer |-> NoWait]
        /\ e.generation = c.generation /\ e.halt = c.halt
    BY StopSessionType, CancelTimersType DEF Well, Live
  <2>2. Pause(c) = [e EXCEPT !.paused = TRUE, !.work = TRUE]
    BY <1>2 DEF Pause
  <2> HIDE DEF e
  <2> DEFINE d == Pause(c)
  <2>3. d \in Object /\ d.halt = e.halt /\ d.paused /\ d.work /\ d.phase = e.phase
        /\ d.timer = e.timer /\ d.generation = e.generation
    BY <2>1, <2>2 DEF Object
  <2> HIDE DEF d
  <2>4. ~Live(d)
    BY <2>1, <2>3 DEF Live
  <2>5. Final(d) /\ Own(d) /\ Trying(d)
    BY <1>2, <2>1, <2>3, <2>4 DEF Final, Own, Trying
  <2>6. Recent(d)
    BY <2>1, <2>3, BoundAssumption DEF Recent, NoWait, Object
  <2>7. c.generation <= d.generation
    BY <2>1, <2>3 DEF Object
  <2> QED BY <2>3, <2>4, <2>5, <2>6, <2>7 DEF Follows, Well, d
<1> QED BY <1>1, <1>2

\* Arming the restart timer, for a client that has ended or because the app wants it.
LEMMA ArmRestartFollows ==
    ASSUME NEW c \in Object, Recent(c), ~c.halt, NEW by \in {"core", "app"},
           by = "app" \/ ~Live(c)
    PROVE  LET d == ArmRestart(c, by)
           IN  /\ Well(d) /\ Trying(d) /\ d.phase = c.phase
               /\ d.generation = c.generation /\ d.halt = c.halt
<1> DEFINE w == [gen |-> c.generation, by |-> by]
           f == [[c.timer EXCEPT !.poll = NoWait] EXCEPT !.restart = w]
           d == ArmRestart(c, by)
<1>1. w \in Wait /\ w.gen = c.generation /\ w.by = by
  BY DEF Wait, Object
<1>2. c.timer \in [Timer -> Wait \cup {NoWait}]
  BY DEF Object
<1> HIDE DEF w
<1>3. f \in [Timer -> Wait \cup {NoWait}] /\ f.restart = w
      /\ \A t \in Timer : f[t] = w \/ f[t] = NoWait \/ f[t] = c.timer[t]
  BY <1>1, <1>2 DEF Timer
<1>4. d = [c EXCEPT !.timer = f]
  BY <1>1 DEF ArmRestart, Object, w
<1> HIDE DEF f
<1>5. d \in Object /\ d.timer = f /\ d.phase = c.phase /\ d.generation = c.generation
      /\ d.halt = c.halt
  BY <1>3, <1>4 DEF Object
<1> HIDE DEF d
<1>6. Recent(d)
  <2> SUFFICES ASSUME NEW t \in Timer PROVE d.timer[t].gen <= d.generation
    BY DEF Recent
  <2>1. CASE f[t] = w
    BY <2>1, <1>1, <1>5 DEF Object
  <2>2. CASE f[t] = NoWait
    BY <2>2, <1>5, BoundAssumption DEF Object, NoWait
  <2>3. CASE f[t] = c.timer[t]
    BY <2>3, <1>5 DEF Recent
  <2> QED BY <1>3, <2>1, <2>2, <2>3
<1>7. Final(d) /\ Trying(d)
  BY <1>1, <1>3, <1>5 DEF Final, Trying
<1>8. Own(d)
  BY <1>1, <1>3, <1>5 DEF Own, Live
<1> QED BY <1>5, <1>6, <1>7, <1>8 DEF Well, d

\* reconnect().
LEMMA ReconnectFollows ==
    ASSUME NEW c, Well(c)
    PROVE  Follows(c, Reconnect(c))
<1>1. CASE c.halt
  BY <1>1, Stays DEF Reconnect
<1>2. CASE ~c.halt
  BY <1>2, ArmRestartFollows DEF Reconnect, Well, Follows, Live, Object
<1> QED BY <1>1, <1>2

\* client_proto_terminate(): the client is halted, or owes a restart.
LEMMA TerminateFollows ==
    ASSUME NEW c \in Object, Final(c), Recent(c), NEW fatal \in BOOLEAN
    PROVE  LET d == Terminate(c, fatal)
           IN  Well(d) /\ Trying(d) /\ ~Live(d) /\ c.generation <= d.generation
<1> DEFINE e == StopSession(c)
<1>1. /\ e \in Object /\ ~Live(e) /\ e.timer = c.timer /\ e.generation = c.generation
      /\ e.halt = c.halt /\ e.work = c.work /\ e.preresolve = c.preresolve
  BY StopSessionType DEF Object
<1>2. Recent(e) /\ Final(e) /\ Own(e)
  BY <1>1 DEF Recent, Final, Own
<1>3. Terminate(c, fatal) =
        IF c.halt THEN e ELSE IF fatal THEN Stop(e) ELSE QueueRestart(e)
  BY DEF Terminate
<1> HIDE DEF e
<1>4. Well(e)
  BY <1>1, <1>2 DEF Well
<1>5. CASE c.halt
  <2>1. Terminate(c, fatal) = e
    BY <1>3, <1>5
  <2>2. c.generation <= e.generation /\ Trying(e)
    BY <1>1, <1>5 DEF Trying, Object
  <2> QED BY <1>1, <1>4, <2>1, <2>2
<1>6. CASE ~c.halt /\ fatal
  BY <1>1, <1>3, <1>4, <1>6, StopFollows DEF Follows, Trying, Final, Well
<1>7. CASE ~c.halt /\ ~fatal
  <2> DEFINE d == ArmRestart(e, "core")
  <2>1. /\ Well(d) /\ Trying(d) /\ d.phase = e.phase /\ d.generation = e.generation
    BY <1>1, <1>2, <1>7, ArmRestartFollows
  <2>2. Terminate(c, fatal) = d
    BY <1>3, <1>7 DEF QueueRestart
  <2> HIDE DEF d
  <2> QED BY <1>1, <2>1, <2>2 DEF Live, Object
<1> QED BY <1>5, <1>6, <1>7

\* new_client(), up to where the new Session starts.
LEMMA BuildClientFollows ==
    ASSUME NEW c \in Object, Recent(c), options \in Options,
           c.generation # MaxGeneration, ~c.halt
    PROVE  LET d == BuildClient(c)
           IN  Well(d) /\ Live(d) /\ d.generation = c.generation + 1
<1> DEFINE g == c.generation + 1
           w == [gen |-> g, by |-> "core"]
           armConn == options.conn /\ ~c.connPending
           poll == IF options.poll THEN w ELSE c.timer.poll
           conn == IF armConn THEN w ELSE c.timer.conn
           f == [restart |-> NoWait, poll |-> poll, conn |-> conn]
           d == BuildClient(c)
<1>1. c.generation \in Nat /\ g \in 0..MaxGeneration /\ MaxGeneration \in Nat
  BY BoundAssumption DEF Object
<1>2. w \in Wait /\ w.gen = g
  BY <1>1 DEF Wait
<1>3. /\ c.timer.poll \in Wait \cup {NoWait} /\ c.timer.conn \in Wait \cup {NoWait}
      /\ c.timer.poll.gen \in Int /\ c.timer.conn.gen \in Int
      /\ c.timer.poll.gen <= g /\ c.timer.conn.gen <= g
  BY <1>1, Timers, Waits DEF Object, Recent, Timer
<1>4. options \in Options /\ c.connPending \in BOOLEAN
  BY DEF Object
<1> HIDE DEF w
<1>5. /\ poll \in Wait \cup {NoWait} /\ poll.gen <= g
      /\ conn \in Wait \cup {NoWait} /\ conn.gen <= g
  BY <1>1, <1>2, <1>3
<1> HIDE DEF poll, conn
<1>6. f \in [Timer -> Wait \cup {NoWait}]
      /\ f.restart = NoWait /\ f.poll = poll /\ f.conn = conn
  BY <1>5 DEF Timer
<1>7. d = [c EXCEPT !.generation = g, !.work = FALSE, !.phase = "connecting",
                    !.heard = FALSE, !.timer = f,
                    !.connPending = c.connPending \/ armConn]
  BY DEF BuildClient, Object, f, poll, conn, w
<1> DEFINE pending == c.connPending \/ armConn
<1>8. pending \in BOOLEAN
  BY <1>4 DEF Options
<1> HIDE DEF f, pending
<1>9. d \in Object /\ d.generation = g /\ d.phase = "connecting" /\ d.timer = f
      /\ d.halt = c.halt
  BY <1>1, <1>6, <1>7, <1>8 DEF Object, Phase, pending
<1> HIDE DEF d
<1>10. Live(d) /\ Final(d)
  BY <1>9 DEF Live, Final
<1>11. Recent(d)
  BY <1>1, <1>5, <1>6, <1>9 DEF Recent, Timer, NoWait
<1>12. Own(d)
  BY <1>1, <1>6, <1>9 DEF Own, NoWait
<1> QED BY <1>9, <1>10, <1>11, <1>12 DEF Well, d

\* new_client(): a later client is live, or has failed and owes a restart.
LEMMA NewClientFollows ==
    ASSUME NEW c \in Object, Recent(c), options \in Options, ~c.halt,
           NEW d \in NewClient(c)
    PROVE  Well(d) /\ Trying(d) /\ c.generation < d.generation
<1> DEFINE b == BuildClient(c)
<1>1. c.generation # MaxGeneration /\ d \in {b, Terminate(b, FALSE)}
  BY DEF NewClient
<1>2. Well(b) /\ Live(b) /\ b.generation = c.generation + 1
  BY <1>1, BuildClientFollows
<1> HIDE DEF b
<1>3. CASE d = b
  BY <1>2, <1>3 DEF Trying, Object
<1>4. CASE d = Terminate(b, FALSE)
  <2>1. b \in Object /\ Final(b) /\ Recent(b)
    BY <1>2 DEF Well
  <2>2. Well(d) /\ Trying(d) /\ b.generation <= d.generation
    BY <1>4, <2>1, TerminateFollows
  <2> QED BY <1>2, <2>1, <2>2 DEF Well, Object
<1> QED BY <1>1, <1>3, <1>4

\* resume().
LEMMA ResumeFollows ==
    ASSUME NEW c, Well(c), options \in Options, NEW d \in Resume(c)
    PROVE  Follows(c, d)
<1>1. CASE c.halt \/ ~c.paused
  BY <1>1, Stays DEF Resume
<1>2. CASE ~(c.halt \/ ~c.paused)
  <2> DEFINE e == [c EXCEPT !.paused = FALSE]
  <2>1. e \in Object /\ Recent(e) /\ ~e.halt /\ e.generation = c.generation
    BY <1>2 DEF Object, Recent, Well
  <2>2. d \in NewClient(e)
    BY <1>2 DEF Resume
  <2> HIDE DEF e
  <2>3. Well(d) /\ Trying(d) /\ c.generation < d.generation
    BY <2>1, <2>2, NewClientFollows
  <2> QED BY <2>3 DEF Follows, Well, Object
<1> QED BY <1>1, <1>2

\* pre_resolve_done(): a halted object has no pre-resolve.
LEMMA PreResolveDoneFollows ==
    ASSUME NEW c, Well(c), options \in Options, NEW d \in PreResolveDone(c)
    PROVE  Follows(c, d)
<1>1. CASE ~c.preresolve
  BY <1>1, Stays DEF PreResolveDone
<1>2. CASE c.preresolve
  <2> DEFINE e == [c EXCEPT !.preresolve = FALSE]
  <2>1. e \in Object /\ Recent(e) /\ ~e.halt /\ e.generation = c.generation
    BY <1>2 DEF Object, Recent, Well, Final
  <2>2. d \in NewClient(e)
    BY <1>2 DEF PreResolveDone
  <2> HIDE DEF e
  <2>3. Well(d) /\ Trying(d) /\ c.generation < d.generation
    BY <2>1, <2>2, NewClientFollows
  <2> QED BY <2>3 DEF Follows, Well, Object
<1> QED BY <1>1, <1>2

\* restart_wait_callback(): one of this generation leaves the object trying.
LEMMA RestartFollows ==
    ASSUME NEW c, Well(c), options \in Options, NEW gen,
           NEW d \in RestartWaitCallback(c, gen)
    PROVE  /\ Follows(c, d)
           /\ gen = c.generation => Trying(d)
           /\ gen # c.generation => d = c
<1>1. CASE c.halt \/ gen # c.generation
  BY <1>1, Stays DEF RestartWaitCallback, Trying
<1>2. CASE ~c.halt /\ gen = c.generation /\ c.paused
  <2> DEFINE e == [c EXCEPT !.paused = FALSE]
  <2>1. e \in Object /\ Recent(e) /\ ~e.halt
    BY <1>2 DEF Object, Recent, Well
  <2>2. d \in NewClient(e) /\ d \in Resume(c)
    BY <1>2 DEF Resume, RestartWaitCallback
  <2> HIDE DEF e
  <2>3. Trying(d)
    BY <2>1, <2>2, NewClientFollows
  <2> QED BY <1>2, <2>2, <2>3, ResumeFollows
<1>3. CASE ~c.halt /\ gen = c.generation /\ ~c.paused
  <2>1. Well(d) /\ Trying(d) /\ c.generation < d.generation
    BY <1>3, NewClientFollows DEF RestartWaitCallback, Well
  <2> QED BY <1>3, <2>1 DEF Follows, Well, Object
<1> QED BY <1>1, <1>2, <1>3

\* server_poll_callback(): a client that has been heard stays.
LEMMA PollFollows ==
    ASSUME NEW c, Well(c), options \in Options, NEW gen,
           NEW d \in ServerPollCallback(c, gen)
    PROVE  Follows(c, d) /\ (c.heard => d = c)
<1>1. CASE c.halt \/ gen # c.generation \/ c.heard
  BY <1>1, Stays DEF ServerPollCallback
<1>2. CASE ~(c.halt \/ gen # c.generation \/ c.heard)
  <2>1. Well(d) /\ Trying(d) /\ c.generation < d.generation
    BY <1>2, NewClientFollows DEF ServerPollCallback, Well
  <2> QED BY <1>2, <2>1 DEF Follows, Well, Object
<1> QED BY <1>1, <1>2

\* conn_timer_callback().
LEMMA ConnTimerFollows ==
    ASSUME NEW c, Well(c)
    PROVE  Follows(c, ConnTimerCallback(c))
  BY StopFollows, PauseFollows DEF ConnTimerCallback

\* The first packet of a live session.
LEMMA PacketFollows ==
    ASSUME NEW c, Well(c)
    PROVE  Follows(c, [c EXCEPT !.heard = TRUE])
<1> DEFINE d == [c EXCEPT !.heard = TRUE]
<1>1. d \in Object /\ d.generation = c.generation /\ d.timer = c.timer /\ d.phase = c.phase
      /\ d.halt = c.halt /\ d.paused = c.paused /\ d.work = c.work
      /\ d.preresolve = c.preresolve
  BY DEF Well, Object
<1> HIDE DEF d
<1>2. Live(d) = Live(c)
  BY <1>1 DEF Live
<1>3. Well(d) /\ (Trying(c) => Trying(d))
  BY <1>1, <1>2 DEF Well, Final, Recent, Own, Trying
<1> QED BY <1>1, <1>2, <1>3 DEF Follows, Object, d

\* client_proto_connected(), of a live session.
LEMMA ConnectedFollows ==
    ASSUME NEW c, Well(c), Live(c)
    PROVE  Follows(c, ClientProtoConnected(c))
<1> DEFINE f == [c.timer EXCEPT !.conn = NoWait]
           d == ClientProtoConnected(c)
<1>1. c.timer \in [Timer -> Wait \cup {NoWait}]
  BY DEF Well, Object
<1>2. f \in [Timer -> Wait \cup {NoWait}] /\ f.restart = c.timer.restart
      /\ \A t \in Timer : f[t] = NoWait \/ f[t] = c.timer[t]
  BY <1>1 DEF Timer
<1>3. d = [c EXCEPT !.phase = "connected", !.timer = f, !.connPending = FALSE]
  BY DEF ClientProtoConnected, Well, Object
<1> HIDE DEF f
<1>4. d \in Object /\ d.generation = c.generation /\ d.timer = f /\ d.phase = "connected"
      /\ d.halt = c.halt
  BY <1>2, <1>3 DEF Well, Object, Phase
<1> HIDE DEF d
<1>5. Live(d) /\ Trying(d) /\ ~d.halt
  BY <1>4 DEF Live, Trying, Well, Final
<1>6. Recent(d)
  <2> SUFFICES ASSUME NEW t \in Timer PROVE d.timer[t].gen <= d.generation
    BY DEF Recent
  <2>1. CASE f[t] = NoWait
    BY <2>1, <1>4, BoundAssumption DEF Object, NoWait
  <2>2. CASE f[t] = c.timer[t]
    BY <2>2, <1>4 DEF Well, Recent
  <2> QED BY <1>2, <2>1, <2>2
<1>7. Own(d)
  BY <1>2, <1>4 DEF Well, Own
<1> QED BY <1>4, <1>5, <1>6, <1>7 DEF Follows, Well, Final, Object, d

-----------------------------------------------------------------------------
(* The queue of handlers.                                                  *)

\* No handler waits for a client yet to be built; a queued restart of a live
\* client was wanted by the app.
QueueRight ==
    \A i \in DOMAIN ready :
        /\ ready[i].gen <= cc.generation
        /\ Live(cc) /\ ready[i].call = "restart" /\ ready[i].gen = cc.generation
             => ready[i].by = "app"

Inv == TypeOK /\ Well(cc) /\ QueueRight /\ (Trying(cc) \/ Queued("restart", cc.generation))

\* The invariant says what AlwaysTrying and StopIsFinal say.
LEMMA InvMeans == Inv => TypeOK /\ AlwaysTrying /\ StopIsFinal
  BY DEF Inv, AlwaysTrying, StopIsFinal, Trying, Well, Final

\* A handler at the end of the queue.
LEMMA Enqueued ==
    ASSUME TypeOK, NEW call, NEW wait \in Wait \cup {NoWait}, Enqueue(call, wait),
           call \in Timer \cup Call \cup SessionEvent \cup {"resolved"}
    PROVE  /\ ready' \in Seq(Handler) /\ Len(ready') <= MaxReady
           /\ options' = options
           /\ DOMAIN ready' = 1..Len(ready) + 1
           /\ \A i \in DOMAIN ready : ready'[i] = ready[i]
           /\ ready'[Len(ready) + 1] = [call |-> call, gen |-> wait.gen, by |-> wait.by]
<1> DEFINE h == [call |-> call, gen |-> wait.gen, by |-> wait.by]
<1>1. h \in Handler
  BY Waits DEF Handler
<1>2. ready \in Seq(Handler) /\ ready' = Append(ready, h) /\ Len(ready) < MaxReady
      /\ MaxReady \in Nat
  BY BoundAssumption DEF TypeOK, Enqueue
<1> HIDE DEF h
<1>3. ready' \in Seq(Handler) /\ Len(ready') = Len(ready) + 1 /\ Len(ready') <= MaxReady
  BY <1>1, <1>2
<1>4. /\ DOMAIN ready' = 1..Len(ready) + 1
      /\ \A i \in DOMAIN ready : ready'[i] = ready[i]
      /\ ready'[Len(ready) + 1] = h
  BY <1>1, <1>2
<1> QED BY <1>3, <1>4 DEF Enqueue, h

\* The first handler leaves the queue.
LEMMA Dequeued ==
    ASSUME TypeOK, ready # <<>>, ready' = Tail(ready)
    PROVE  /\ ready' \in Seq(Handler) /\ Len(ready') <= MaxReady
           /\ Head(ready) = ready[1] /\ 1 \in DOMAIN ready
           /\ \A i \in DOMAIN ready' : i + 1 \in DOMAIN ready /\ ready'[i] = ready[i + 1]
           /\ \A i \in DOMAIN ready \ {1} :
                 i - 1 \in DOMAIN ready' /\ ready'[i - 1] = ready[i]
<1>1. ready \in Seq(Handler) /\ Len(ready) \in Nat /\ Len(ready) # 0
      /\ Len(ready) <= MaxReady /\ MaxReady \in Nat
  BY BoundAssumption DEF TypeOK
<1> QED BY <1>1

\* A handler is queued: the object forgets at most a timer, which it held.
LEMMA EnqueueKeepsQueue ==
    ASSUME Inv, NEW call, NEW wait \in Wait \cup {NoWait}, Enqueue(call, wait),
           call \in Timer \cup Call \cup SessionEvent \cup {"resolved"},
           cc'.generation = cc.generation, Live(cc') => Live(cc),
           wait.gen <= cc.generation,
           Live(cc) /\ call = "restart" /\ wait.gen = cc.generation => wait.by = "app"
    PROVE  /\ QueueRight'
           /\ Queued("restart", cc.generation) => Queued("restart", cc.generation)'
           /\ call = "restart" /\ wait.gen = cc.generation
                => Queued("restart", cc.generation)'
<1> DEFINE last == Len(ready) + 1
<1>0. TypeOK /\ Len(ready) \in Nat /\ DOMAIN ready = 1..Len(ready)
  BY DEF Inv, TypeOK
<1>1. /\ DOMAIN ready' = 1..last /\ last \in 1..last /\ DOMAIN ready = 1..last - 1
      /\ \A i \in DOMAIN ready : ready'[i] = ready[i]
      /\ ready'[last].call = call /\ ready'[last].gen = wait.gen
      /\ ready'[last].by = wait.by
  <2>1. /\ DOMAIN ready' = 1..last
        /\ \A i \in DOMAIN ready : ready'[i] = ready[i]
        /\ ready'[last] = [call |-> call, gen |-> wait.gen, by |-> wait.by]
    BY <1>0, Enqueued
  <2>2. last \in 1..last /\ DOMAIN ready = 1..last - 1
    BY <1>0
  <2> QED BY <2>1, <2>2
<1>2. \A i \in DOMAIN ready : i \in DOMAIN ready'
  BY <1>1 DEF Inv, TypeOK
<1>3. \A i \in DOMAIN ready' : i \in DOMAIN ready \/ i = last
  BY <1>1 DEF Inv, TypeOK
<1>4. Live(cc)' => Live(cc)
  BY DEF Live
<1>5. QueueRight'
  BY <1>1, <1>3, <1>4 DEF Inv, QueueRight
<1>6. Queued("restart", cc.generation) => Queued("restart", cc.generation)'
  BY <1>1, <1>2 DEF Queued
<1>7. call = "restart" /\ wait.gen = cc.generation => Queued("restart", cc.generation)'
  BY <1>1 DEF Queued
<1> QED BY <1>5, <1>6, <1>7

\* thread_safe_stop() and the like, pre-resolve and the session's events leave
\* the object alone.
LEMMA QueueStep ==
    ASSUME Inv, NEW call \in Call \cup SessionEvent \cup {"resolved"},
           NEW wait \in Wait \cup {NoWait}, Enqueue(call, wait), wait.gen <= cc.generation,
           UNCHANGED cc, calls' \in 0..MaxCalls
    PROVE  Inv'
<1>1. call # "restart"
  BY DEF Call, SessionEvent
<1>2. QueueRight' /\ (Queued("restart", cc.generation) => Queued("restart", cc.generation)')
  <2>1. cc'.generation = cc.generation /\ (Live(cc') => Live(cc))
    BY DEF Live
  <2> QED BY <1>1, <2>1, EnqueueKeepsQueue
<1>3. TypeOK'
  BY Enqueued DEF Inv, TypeOK
<1>4. Well(cc)' /\ Trying(cc)' = Trying(cc)
  BY DEF Inv, Well, Final, Recent, Own, Trying, Live
<1> QED BY <1>2, <1>3, <1>4 DEF Inv, Queued

\* A timer expires: a restart moves from its timer to the queue.
LEMMA ExpireStep ==
    ASSUME Inv, NEW t \in Timer, Expire(t)
    PROVE  Inv'
<1> DEFINE w == cc.timer[t]
           f == [cc.timer EXCEPT ![t] = NoWait]
<1>1. cc \in Object /\ cc.timer \in [Timer -> Wait \cup {NoWait}] /\ w \in Wait \cup {NoWait}
  BY DEF Inv, Well, Object
<1>2. /\ f \in [Timer -> Wait \cup {NoWait}] /\ f[t] = NoWait
      /\ \A u \in Timer \ {t} : f[u] = cc.timer[u]
  BY <1>1
<1>3. cc' = [cc EXCEPT !.timer = f]
  BY <1>1 DEF Expire, Object
<1> HIDE DEF f
<1>4. /\ cc' \in Object /\ cc'.timer = f /\ cc'.phase = cc.phase
      /\ cc'.generation = cc.generation /\ cc'.halt = cc.halt /\ cc'.work = cc.work
      /\ cc'.paused = cc.paused /\ cc'.preresolve = cc.preresolve
  BY <1>1, <1>2, <1>3 DEF Object
<1>5. Live(cc)' = Live(cc) /\ ~cc.halt
  BY <1>4 DEF Live, Inv, Well, Final, Expire
<1>6. w.gen <= cc.generation
  BY DEF Inv, Well, Recent
<1>7. Live(cc) /\ t = "restart" /\ w.gen = cc.generation => w.by = "app"
  BY DEF Inv, Well, Own
<1>8. /\ QueueRight'
      /\ Queued("restart", cc.generation) => Queued("restart", cc.generation)'
      /\ t = "restart" /\ w.gen = cc.generation => Queued("restart", cc.generation)'
  <2>1. cc'.generation = cc.generation /\ (Live(cc') => Live(cc))
    BY <1>4 DEF Live
  <2>2. Enqueue(t, w)
    BY DEF Expire
  <2> HIDE DEF w
  <2> QED BY <1>1, <1>6, <1>7, <2>1, <2>2, EnqueueKeepsQueue
<1>9. TypeOK'
  <2>1. Enqueue(t, w) /\ calls' = calls
    BY DEF Expire
  <2> HIDE DEF w
  <2> QED BY <1>1, <1>4, <2>1, Enqueued DEF Inv, TypeOK
<1>10. Recent(cc)'
  BY <1>2, <1>4, BoundAssumption DEF Inv, Well, Recent, NoWait, Object
<1>11. "restart" \in Timer /\ cc.generation \in Nat /\ NoWait.gen = -1
  BY <1>1 DEF Timer, Object, NoWait
<1>12. Own(cc)'
  <2>1. CASE t = "restart"
    BY <2>1, <1>2, <1>4, <1>11 DEF Own
  <2>2. CASE t # "restart"
    BY <2>2, <1>2, <1>4, <1>5, <1>11 DEF Inv, Well, Own
  <2> QED BY <2>1, <2>2
<1>13. Final(cc)'
  BY <1>4, <1>5 DEF Final
<1>14. Trying(cc)' \/ Queued("restart", cc.generation)'
  <2>1. CASE Queued("restart", cc.generation)
    BY <2>1, <1>8
  <2>2. CASE Trying(cc) /\ t = "restart" /\ cc.timer.restart.gen = cc.generation
    BY <2>2, <1>8
  <2>3. CASE Trying(cc) /\ ~(t = "restart" /\ cc.timer.restart.gen = cc.generation)
    BY <2>3, <1>2, <1>4, <1>5, <1>11 DEF Trying
  <2> QED BY <2>1, <2>2, <2>3 DEF Inv
<1> QED BY <1>4, <1>8, <1>9, <1>10, <1>12, <1>13, <1>14 DEF Inv, Well, Queued

\* Running a handler that is not a restart of this generation.
LEMMA HandleStep ==
    ASSUME Inv, NEW call, NEW outcomes, Handle(call, outcomes), Follows(cc, cc'),
           call = "restart" /\ Head(ready).gen = cc.generation => Trying(cc')
    PROVE  Inv'
<1>1. TypeOK /\ ready # <<>> /\ ready' = Tail(ready) /\ Head(ready).call = call
      /\ options' = options /\ calls' = calls
  BY DEF Handle, Inv
<1>2. /\ ready' \in Seq(Handler) /\ Len(ready') <= MaxReady
      /\ Head(ready) = ready[1] /\ 1 \in DOMAIN ready
      /\ \A i \in DOMAIN ready' : i + 1 \in DOMAIN ready /\ ready'[i] = ready[i + 1]
      /\ \A i \in DOMAIN ready \ {1} :
            i - 1 \in DOMAIN ready' /\ ready'[i - 1] = ready[i]
  BY <1>1, Dequeued
<1>3. Well(cc)' /\ (Trying(cc) => Trying(cc)')
  BY DEF Follows, Well, Final, Recent, Own, Trying, Live
<1>4. TypeOK'
  BY <1>1, <1>2, <1>3 DEF TypeOK, Well
<1>5. cc.generation <= cc'.generation /\ cc.generation \in Nat /\ cc'.generation \in Nat
  BY BoundAssumption DEF Follows, Inv, Well, Object
<1>6. Live(cc)' /\ cc'.generation = cc.generation => Live(cc)
  BY DEF Follows, Live
<1>7. QueueRight'
  <2> SUFFICES ASSUME NEW i \in DOMAIN ready'
               PROVE  /\ ready'[i].gen <= cc'.generation
                      /\ Live(cc)' /\ ready'[i].call = "restart"
                           /\ ready'[i].gen = cc'.generation => ready'[i].by = "app"
    BY DEF QueueRight
  <2>1. i + 1 \in DOMAIN ready /\ ready'[i] = ready[i + 1]
    BY <1>2
  <2> DEFINE h == ready[i + 1]
  <2>2. h \in Handler
    BY <1>1, <2>1 DEF TypeOK
  <2>3. h.gen \in Int
    BY <2>2, BoundAssumption DEF Handler
  <2>4. /\ h.gen <= cc.generation
        /\ Live(cc) /\ h.call = "restart" /\ h.gen = cc.generation => h.by = "app"
    BY <2>1 DEF Inv, QueueRight
  <2> HIDE DEF h
  <2>5. ready'[i] = h
    BY <2>1 DEF h
  <2> QED BY <1>5, <1>6, <2>3, <2>4, <2>5
<1>8. Trying(cc)' \/ Queued("restart", cc.generation)'
  <2>1. CASE Trying(cc)
    BY <2>1, <1>3
  <2>2. CASE ~Trying(cc) /\ Trying(cc')
    BY <2>2 DEF Trying, Live
  <2>3. CASE ~Trying(cc) /\ ~Trying(cc')
    <3>1. PICK i \in DOMAIN ready : ready[i].call = "restart" /\ ready[i].gen = cc.generation
      BY <2>3 DEF Inv, Queued
    <3>2. i # 1
      BY <1>1, <1>2, <2>3, <3>1
    <3>3. cc'.generation = cc.generation
      BY <2>3, <1>5 DEF Follows
    <3>4. i - 1 \in DOMAIN ready' /\ ready'[i - 1] = ready[i]
      BY <1>2, <3>2
    <3> QED BY <3>1, <3>3, <3>4 DEF Queued
  <2> QED BY <2>1, <2>2, <2>3
<1> QED BY <1>3, <1>4, <1>7, <1>8 DEF Inv, Queued

\* Every handler of the object, or of its session, keeps the invariant.
LEMMA DispatchStep ==
    ASSUME Inv, Dispatch
    PROVE  Inv'
<1> DEFINE h == Head(ready)
<1>1. Well(cc) /\ options \in Options /\ Follows(cc, cc)
  BY Stays DEF Inv, TypeOK
<1>2. CASE Handle("stop", {Stop(cc)})
  BY <1>1, <1>2, StopFollows, HandleStep DEF Handle
<1>3. CASE Handle("pause", {Pause(cc)})
  BY <1>1, <1>3, PauseFollows, HandleStep DEF Handle
<1>4. CASE Handle("resume", Resume(cc))
  BY <1>1, <1>4, ResumeFollows, HandleStep DEF Handle
<1>5. CASE Handle("reconnect", {Reconnect(cc)})
  BY <1>1, <1>5, ReconnectFollows, HandleStep DEF Handle
<1>6. CASE Handle("resolved", PreResolveDone(cc))
  BY <1>1, <1>6, PreResolveDoneFollows, HandleStep DEF Handle
<1>7. CASE Handle("restart", RestartWaitCallback(cc, h.gen))
  <2>1. Follows(cc, cc') /\ (h.gen = cc.generation => Trying(cc'))
    BY <1>1, <1>7, RestartFollows DEF Handle
  <2> QED BY <1>7, <2>1, HandleStep
<1>8. CASE Handle("poll", ServerPollCallback(cc, h.gen))
  <2>1. Follows(cc, cc')
    BY <1>1, <1>8, PollFollows DEF Handle
  <2> QED BY <1>8, <2>1, HandleStep
<1>9. CASE Handle("conn", {ConnTimerCallback(cc)})
  BY <1>1, <1>9, ConnTimerFollows, HandleStep DEF Handle
<1>10. CASE HandleEvent("packet", [cc EXCEPT !.heard = TRUE])
  <2>1. Follows(cc, cc')
    BY <1>1, <1>10, PacketFollows DEF HandleEvent, Handle
  <2> QED BY <1>10, <2>1, HandleStep DEF HandleEvent
<1>11. CASE HandleEvent("connected", ClientProtoConnected(cc))
  <2>1. Follows(cc, cc')
    BY <1>1, <1>11, ConnectedFollows DEF HandleEvent, Handle
  <2> QED BY <1>11, <2>1, HandleStep DEF HandleEvent
<1>12. ASSUME NEW fatal \in BOOLEAN, NEW event, event # "restart",
              HandleEvent(event, Terminate(cc, fatal))
       PROVE  Inv'
  <2>1. Follows(cc, Terminate(cc, fatal))
    BY <1>1, TerminateFollows DEF Well, Follows
  <2>2. Follows(cc, cc')
    BY <1>1, <1>12, <2>1 DEF HandleEvent, Handle
  <2> QED BY <1>12, <2>2, HandleStep DEF HandleEvent
<1> QED BY <1>2, <1>3, <1>4, <1>5, <1>6, <1>7, <1>8, <1>9, <1>10, <1>11, <1>12 DEF Dispatch

\* start() makes an object that is trying.
LEMMA Start == Init => Inv
<1> SUFFICES ASSUME Init PROVE Inv
  OBVIOUS
<1> DEFINE u == Unstarted
           p == [Unstarted EXCEPT !.preresolve = TRUE]
<1>1. options \in Options /\ ready = <<>> /\ calls = 0 /\ {MaxCalls, MaxReady} \subseteq Nat
  BY BoundAssumption DEF Init
<1>2. /\ u \in Object /\ ~u.halt /\ Recent(u)
      /\ p \in Object /\ ~p.halt /\ ~Live(p) /\ p.preresolve /\ Recent(p)
  <2> DEFINE f == [t \in Timer |-> NoWait]
  <2>1. f \in [Timer -> Wait \cup {NoWait}] /\ \A t \in Timer : f[t].gen <= 0
    BY DEF NoWait
  <2>2. 0 \in 0..MaxGeneration
    BY BoundAssumption
  <2> HIDE DEF f
  <2>3. u = [generation |-> 0, halt |-> FALSE, paused |-> FALSE, work |-> FALSE,
             preresolve |-> FALSE, phase |-> "none", heard |-> FALSE,
             timer |-> f, connPending |-> FALSE]
    BY DEF Unstarted, f
  <2>4. p = [u EXCEPT !.preresolve = TRUE]
    OBVIOUS
  <2> HIDE DEF u, p
  <2>5. u \in Object
    BY <2>1, <2>2, <2>3 DEF Object, Phase
  <2>6. /\ u.timer = f /\ u.generation = 0 /\ u.phase = "none" /\ ~u.halt
    BY <2>3
  <2>7. /\ p \in Object /\ p.timer = f /\ p.generation = 0 /\ p.phase = "none" /\ ~p.halt
        /\ p.preresolve
    BY <2>4, <2>5, <2>6 DEF Object
  <2> QED BY <2>1, <2>5, <2>6, <2>7 DEF Recent, Live
<1>3. cc = p \/ cc \in NewClient(u)
  BY DEF Init
<1> HIDE DEF u, p
<1>4. Well(cc) /\ Trying(cc)
  BY <1>1, <1>2, <1>3, NewClientFollows DEF Well, Final, Own, Trying
<1>5. TypeOK /\ QueueRight
  BY <1>1, <1>4 DEF TypeOK, QueueRight, Well
<1> QED BY <1>4, <1>5 DEF Inv

\* The invariant is inductive.
LEMMA Step == Inv /\ [Next]_vars => Inv'
<1> SUFFICES ASSUME Inv, [Next]_vars PROVE Inv'
  OBVIOUS
<1>1. NoWait \in Wait \cup {NoWait} /\ NoWait.gen <= cc.generation /\ calls \in 0..MaxCalls
      /\ MaxCalls \in Nat
  BY BoundAssumption DEF NoWait, Inv, TypeOK, Object
<1>2. ASSUME NEW call \in Call, Post(call) PROVE Inv'
  <2>1. calls' \in 0..MaxCalls
    BY <1>1, <1>2 DEF Post
  <2> QED BY <1>1, <1>2, <2>1, QueueStep DEF Post
<1>3. ASSUME NEW t \in Timer, Expire(t) PROVE Inv'
  BY <1>3, ExpireStep
<1>4. CASE Resolved
  BY <1>1, <1>4, QueueStep DEF Resolved
<1>5. ASSUME NEW event \in SessionEvent, Occur(event) PROVE Inv'
  <2> DEFINE w == [gen |-> cc.generation, by |-> "core"]
  <2>1. w \in Wait \cup {NoWait} /\ w.gen <= cc.generation
    BY DEF Inv, TypeOK, Object, Wait
  <2>2. Enqueue(event, w) /\ UNCHANGED <<cc, calls>>
    BY <1>5 DEF Occur
  <2> HIDE DEF w
  <2> QED BY <1>1, <2>1, <2>2, QueueStep
<1>6. CASE Dispatch
  BY <1>6, DispatchStep
<1>7. CASE UNCHANGED vars
  BY <1>7 DEF vars, Inv, TypeOK, Well, Final, Recent, Own, QueueRight, Trying, Queued, Live
<1> QED BY <1>2, <1>3, <1>4, <1>5, <1>6, <1>7 DEF Next

LEMMA Invariance == Spec => []Inv
  BY Start, Step, PTL DEF Spec

-----------------------------------------------------------------------------
(* The theorems.                                                           *)

\* The object, its timers and the queue are always well typed.
THEOREM Types == Spec => []TypeOK
  BY Invariance, InvMeans, PTL

\* Until it is stopped, a live session, a restart or a pre-resolve is under
\* way, or the object is paused and holds the event loop: no order of calls,
\* failures and late handlers makes it come to rest by accident.
THEOREM KeepsTrying == Spec => []AlwaysTrying
  BY Invariance, InvMeans, PTL

\* stop() is final: whatever was queued before it, the object never again has
\* a live session, a timer, a pre-resolve or work.
THEOREM StopHolds == Spec => []StopIsFinal
  BY Invariance, InvMeans, PTL

\* A session that has heard from its server is neither ended by a server poll
\* timeout nor by a restart queued for an earlier failure.
THEOREM HeardIsKept == Spec => HeardSessionKept
<1> DEFINE A == Live(cc) /\ cc.heard /\ ~cc.paused
                  /\ ~(Live(cc)' /\ cc'.generation = cc.generation)
                  => /\ Head(ready).call # "poll"
                     /\ (Head(ready).call = "restart" => Head(ready).by = "app")
<1>1. ASSUME Inv, [Next]_vars PROVE [A]_vars
  <2> SUFFICES ASSUME Live(cc), cc.heard,
                      ~(Live(cc)' /\ cc'.generation = cc.generation)
               PROVE  /\ Head(ready).call # "poll"
                      /\ (Head(ready).call = "restart" => Head(ready).by = "app")
    OBVIOUS
  <2>1. cc' # cc
    BY DEF Live
  <2>2. ASSUME NEW t \in Timer, Expire(t) PROVE FALSE
    BY <2>2 DEF Expire, Live, Inv, Well, Object
  <2>3. Dispatch
    BY <1>1, <2>1, <2>2 DEF Next, Post, Resolved, Occur, vars
  <2>4. PICK call, outcomes : Handle(call, outcomes)
    BY <2>3 DEF Dispatch, HandleEvent
  <2>5. ready # <<>> /\ ready \in Seq(Handler) /\ Head(ready) = ready[1]
        /\ 1 \in DOMAIN ready
    BY <1>1, <2>4 DEF Handle, Inv, TypeOK
  <2>6. Well(cc) /\ options \in Options
    BY <1>1 DEF Inv, TypeOK
  <2>7. Head(ready).call # "poll"
    <3>1. SUFFICES ASSUME Head(ready).call = "poll" PROVE FALSE
      OBVIOUS
    <3>2. cc' \in ServerPollCallback(cc, Head(ready).gen)
      BY <2>3, <3>1 DEF Dispatch, HandleEvent, Handle
    <3> QED BY <2>1, <2>6, <3>2, PollFollows
  <2>8. ASSUME Head(ready).call = "restart" PROVE Head(ready).by = "app"
    <3>1. cc' \in RestartWaitCallback(cc, Head(ready).gen)
      BY <2>3, <2>8 DEF Dispatch, HandleEvent, Handle
    <3>2. Head(ready).gen = cc.generation
      BY <2>1, <2>6, <3>1, RestartFollows
    <3> QED BY <1>1, <2>5, <2>8, <3>2 DEF Inv, QueueRight
  <2> QED BY <2>7, <2>8
<1>2. Inv /\ [Next]_vars => [A]_vars
  BY <1>1
<1>3. HeardSessionKept <=> [][A]_vars
  BY DEF HeardSessionKept
<1> QED BY <1>2, <1>3, Invariance, PTL DEF Spec

=============================================================================
