# A TLA+ model of the OpenVPN client in HippoVPN

HippoVPN is an iOS app that starts a packet-tunnel extension. The extension
drives OpenVPNAdapter, an Objective-C++ wrapper of the OpenVPN3 client library,
whose sources the repository carries and builds
(`src/IKEv2_Demo/OpenVPNAdapter/Libraries/Vendors/openvpn/`, called `V/` below,
with `V/openvpn/ssl/proto.hpp` shortened to `ssl/proto.hpp` and so on). The
app's own code is a user interface with a polling loop. Nearly everything that
is hard to get right is in the library: a reliable protocol over a lossy
network, keys that two peers replace independently, and a client that must keep
trying whatever its timers, its network and its user do. The model is about
these, and about the path from a pushed reply to the settings of the device, on
which library, adapter, extension and system meet.

`PROJECT.json` lists the components, runs, theorems, findings and hazards, and
gives for every definition of a module the source lines it models.

## 1. The system and its parts

### Components

| Component | State it keeps | Operations | Modules |
|---|---|---|---|
| Control-channel stack: `ProtoStackBase` (`ssl/protostack.hpp`), `ReliableSend`, `ReliableRecv`, `ReliableAck` (`reliable/`), `MessageWindow` (`common/msgwin.hpp`) | send and receive windows, queued messages, acknowledgements to send | `raw_send`, `app_send`, `start_handshake`, `flush`, `net_recv`, `retransmit`, `invalidate` | `ProtoStack`, `ReliableLink` |
| Packet IDs and replay window: `PacketIDSend`, `PacketIDReceive` (`crypto/packet_id.hpp`) | next ID; ring of bits, highest ID, floor | `next`, `write_next`, `test_add` | `ReplayWindow` (and, by what it decides, `ProtoStack`) |
| Key contexts: `ProtoContext`, `KeyContext` (`ssl/proto.hpp`), `DataLimit` (`ssl/datalimit.hpp`) | a primary and a secondary key, each with a handshake state and one pending event; the next key ID | `start`, `flush`, `housekeeping`, `control_net_recv`, `renegotiate`, data-limit callbacks | `KeyContexts` (partly) |
| Connect loop: `ClientConnect` (`client/cliconnect.hpp`) | generation, halt and pause flags, the current session, three timers, pre-resolve | `start`, `stop`, `pause`, `resume`, `reconnect`, timer handlers, `client_proto_terminate`, `client_proto_connected` | `ClientConnect` |
| Remote list: `RemoteList`, `PreResolve` (`client/remotelist.hpp`) | the "remote" entries, their addresses, the index of the current one | `next`, `set_endpoint_range`, `endpoint_available`, `get_endpoint`, `reset_cache_item`, `prune_uncached` | `RemoteList` (partly) |
| Client session: `ClientProto::Session` (`client/cliproto.hpp`) | halt flag, parts of the reply, four timers, held INFO messages, the tun | `transport_recv`, `control_recv`, push request and reply, INFO, `AUTH_FAILED`, `HALT`, `RESTART`, housekeeping, inactivity, `tun_connected`, `tun_error`, `stop` | `ClientSession`, `SessionContract` |
| Tun device: the tun client (`tun/builder/client.hpp`), `TunPersist` (`tun/persist/`) | the descriptor, the options it was made with, the reader | `tun_start`, `stop_`, `finalize`, `close_local` | `PacketTunnel` (partly) |
| OpenVPNAdapter (`OpenVPNAdapter.mm`, `OpenVPNClient.mm`) and packet-flow bridge | the bridge that exists | `establishTunnel`, `resetTun` | `PacketTunnel` (partly) |
| Packet-tunnel extension (`src/PacketTunnel/PacketTunnelProvider.m`) | requests made of the system | `configureTunnelWithNetworkSettings`, `setupUDPSession` | `PacketTunnel` (partly) |
| TCP transport: `LinkCommon` (`transport/tcplinkcommon.hpp`), `PacketStream` (`transport/pktstream.hpp`) | send queue, partial packet | `send`, `handle_send`, `handle_recv`, `put_pktstream`, `stop`, `tun_recv`'s limit | `TcpLink`, `PacketPipe` (partly) |
| Client API (`V/client/ovpncli.mm`) | the state behind `connect()`, posted calls | `connect`, `stop`, `pause`, `resume`, `reconnect`, `post_cc_msg` | its calls, in `ClientConnect` |
| App (`HomeViewController.m`) | `isConnect`, the shared default `auth`, poll counter | button, poll loop, status notification | none |

Subscriptions, the other screens, reachability, option parsing, the translation
of options to network settings, the data channel's cryptography, the TLS engine
and the third-party libraries are not modelled: they are user interface, pure I/O,
translation of values, or somebody else's code. `PROJECT.json` gives the reason
for each.

### How they interact

- A tap in the app resets the shared default `auth` and starts the tunnel. The
  extension sets up the adapter and writes `auth` when the client connects or
  fails. The app polls the default every two seconds, for at most forty.
- The adapter runs the library's `connect()` in a thread of its own. That thread
  runs an asio `io_context`: every handler of `ClientConnect`, of a session, of
  its transport and of its protocol context runs there, one at a time. Calls
  from other threads are posted to it (`thread_safe_stop` and so on). So there
  are no data races to speak of *inside* the library, but handlers already
  queued run after the state they were queued for has gone.
- `ClientConnect` owns one `Session` at a time, asks the `RemoteList` for the
  next server, and is called back when the session ends.
- A `Session` derives from `ProtoContext`, which owns two `KeyContext`s. Each
  `KeyContext` derives from `ProtoStackBase` and thus has a control-channel stack
  of its own, with sequence numbers from 0. All control packets pass the
  packet-ID check if `tls-auth` or `tls-crypt` is configured; data packets always
  pass a window per key.
- A complete push reply makes the session start its tun, in the same call: the
  adapter's tun builder makes a bridge (two sockets, one for the core) and asks
  the extension to configure the tunnel. The extension calls back at once and
  leaves the settings to the system. When the session ends, `resetTun` lets go of
  the bridge and asks for the settings to be removed, again without waiting.

### What is hard, and what makes each part correct

- **Stack.** Loss, repetition and reordering; acknowledgements piggybacked on
  packets that are later resent unchanged; ciphertext that arrives before the
  handshake has begun. *Delivery in order and exactly once; nothing is forgotten
  by the sender or turned away by the receiver before the receiver has it; under
  fair loss everything is delivered and acknowledged.*
- **Replay window.** Ring arithmetic at its limits, wraparound, a floor raised by
  time. *No packet accepted twice; none refused that is fresh and recent.*
- **Key contexts.** Two peers with clocks and timers of their own, one event slot
  per key, key IDs that wrap, either peer able to begin, outages. *The key a peer
  transmits on is one that the other has; negotiations end in time; a session
  does not die of a failed renegotiation; a data limit leads to a new key; the loop
  that handles events ends.* The code keeps the third and fourth only in part, and
  the last not for every configuration (section 3).
- **Connect loop.** Timers whose handlers are queued when they are cancelled,
  calls in any order, sessions that fail inside the call that starts them. *It
  never stops trying by accident; a stop leaves nothing behind; a paused client
  stays paused; a session that has heard from its server is not ended by a
  leftover timer.*
- **Remote list.** Two resolvers at work at once, lists that shrink, an index
  into lists that are replaced under it. *The index is always good; every entry
  has its turn.*
- **Session.** A reply in parts that may be repeated; messages that arrive around
  the connection; the rest of a read that goes on after one of its messages has
  stopped the session; timers replaced, cancelled and queued. *The owner sees a
  session hear, connect and end, in this order and once each; nothing is left
  waiting for a timer that nobody set.*
- **Tunnel.** Settings that the system applies later, in chains of two requests,
  while the next teardown is already under way; a device kept across sessions and
  known only by number. *When the system is done, the settings are those of the
  connection that is up; what is read is the bridge that exists.*
- **TCP.** Writes and reads that cut packets anywhere, sizes included; a queue at
  its limit. *Packets pass whole, in order, once; data waits in bounded amount.*

## 2. Modules and their correspondence to the code

### `ProtoStack`, `ReliableLink`, `MCProtoStack`

Two peers, each with one stack, and a network that is a set of packets: a packet
stays there until `Lose` takes it, so it may arrive late, often, and in any
order. One action stands for each operation:

| Code | Action | State |
|---|---|---|
| `raw_send`, `app_send` | `RawSend`, `AppSend` | `rawQueue`, `sslQueue` |
| `start_handshake` and its `up_sequenced` | `StartHandshake` | `started`, receive window |
| `flush`: `down_stack_raw`, `down_stack_app`, `send_pending_acks` | `Flush` | `sendNext`, `held`, `xmitAcks`, `pidSent`, `net` |
| `net_recv` and `decapsulate_post_process` | `RecvAck`, `RecvInWindow`, `RecvOutside`, `RecvReplayed`, one for each way it can end | all windows, `pidSeen`, `pidHigh` |
| `retransmit` | `Retransmit`: any set of the held packets may be due | `net` |
| `invalidate` | `Invalidate` | `invalidated` |
| `PKTID_RECV_EXPIRE` seconds without a packet | `Silence` | `pidFloor` |

`Flush` takes the whole of what a real flush sends in one step, including the
order in which the packets take chunks of the acknowledgement queue: only one
thread touches a stack, so nothing can come in between. The packet-ID window of
the stack is a set of seen IDs and a floor; that the ring of bits computes just
that is the subject of `ReplayWindow`. `sent` and `delivered` are history
variables.

`ReliableLink` is what a stack promises its parent: messages get numbers, arrive
in any order, are passed up in sequence (ciphertext only once the handshake has
begun), and count as acknowledged only when the other end has them. `LinkSpec`
states that `ProtoStack` implements it, with `received` and `acked` as the
mapping, until the first silence of 30 s; what happens then is the subject of
`link_silence`.

### `ReplayWindow`

`PacketIDSend::next()` in both forms (long with a time, short without) and
`PacketIDReceive::test_add()`, line by line: the ring is a function on
`0 .. Window - 1`, with `base` and `extent` moved as the code moves them. `Accept`
is a recording call with one disjunct for each branch under it; `TestOnly` is a
call that records nothing or fails. The model lets time pass between any two
calls (`late`), since the code looks at it only to raise the floor.

The code leaves it to the caller that a full round of IDs takes longer than a
second: at `2^32` packets it does. `Send` says so in its guard.

### `KeyContexts`

Both peers' `ProtoContext`: each context is a record with its handshake state,
its messages, the event it has to handle (`cur`), the one that is pending
(`next`, `due`) and its age. The operators follow the methods by name
(`ProcessPrimary`, `ProcessSecondary`, `Promote`, `PrepareExpire`,
`QueueRenegotiation`, ...). `Flush` is `ProtoContext::flush()`: rounds of
acknowledgement handling, timer events and event processing until nothing is
left to do. The loop of the code has no bound; here it goes round `MaxRounds`
times, and `FlushEnds` says that nothing is left to do by then (a round with
nothing to do changes nothing); a loop that has no end is cut there with an event
still due. Every action that ends in the code with a flush ends with one here.
`KevError` keeps the next event of a context that was invalid already, as
`kev_error()` does: `invalidate_callback()`, which clears it, runs once.

`LimitExceeded` is `schedule_key_limit_renegotiation()`, which is called when a
data limit is exceeded (64-bit block ciphers) and, with any cipher, when the packet
IDs of the primary are nearly used up (`PacketIdsWrap`). A key has long been the
primary by then.

The messages of a context go over the link that `ReliableLink` describes: they
arrive in order, and an acknowledgement means arrival. Time is counted in ticks.
A peer handles what is due before the next tick, and in a tick with the network
up every message arrives; in an outage any may be delayed. The first tick may be
one of outage, so that the first negotiation can fail like any other.

### `ClientConnect`

The object with its session and timers is one record, and every method is an
operator that maps it to what it becomes; `new_client()` maps it to a set,
because the session it starts may fail at once. `ready` is asio's queue of ready
handlers: `Expire`, `Post`, `Resolved` and `Occur` put handlers into it, and
`Dispatch` runs the first. Cancelling a timer that has not expired removes it;
one whose handler is in the queue already runs all the same, which is what asio
documents and why the code passes `generation` along. A session is a `phase`
here, and only what `SessionContract` allows happens to it.

### `RemoteList`

The list of entries, the index and the cache; `PreResolve` at work on its entry;
and the client, reduced to resolving, contacting, connected or ended. It refines
what `ClientConnect` takes for given: which server the next client contacts. The
two are separate modules because they share only the moments at which a client
is built (`NewClient`) and a restart queued (`QueueRestart`), and their product
would be too large to check.

### `PacketTunnel`, `SessionContract`, `ClientSession`, `MCClientSession`

`PacketTunnel` is what lies under the session: one record, `tunnel`, and an
operator for each call that reaches it.

| Code | Operator | State |
|---|---|---|
| `configureTunnelWithNetworkSettings`, `setupUDPSession` | `ConfigureTunnel` | `requests`: clear, then set |
| `setTunnelNetworkSettings` (the system) | `ApplySettings` | `installed`, `requests` |
| `establishTunnel` | `EstablishTunnel` | `bridge`, `made` |
| `resetTun` | `ResetTun` | `bridge`, `requests` |
| `tun_start` | `TunConnected`, `TunSetupFailed`, `Established` (its sockets then fail) | `sd`, `options`, `io` |
| `stop_`, `finalize`, `close_local` | `TunStop`, `Finalize`, `Teardown` | `io`, `sd`, `options` |

`ClientSession` extends it with the sessions of a client, one after the other.
`Read(n)` is a read that hands over `n` messages; `Receive` is `control_recv()`
for the first of them. Between the messages of a read only timers' expiry, the
server and the system move. A timer is armed, then due (its handler is queued),
then handled; halting disarms what is armed and leaves what is due, as cancelling
an asio timer does. `Stop(s, t, tell, final)` is the whole of `Session::stop()`:
`tell` when the owner is called back, `final` when the owner then stops for good
and with it the device that was kept for the next session. The owner is reduced
to `NewClient`, `Pause` and `Disconnect`, at any moment.

`SessionContract` is what that owner is written for: a session is connecting,
has been heard, is connected, has ended. `Contract` maps `ClientSession` to it,
and `ContractSpec` says that the mapping is a refinement. `ClientConnect`
supposes just this of its session, so the modules compose through the contract,
without a product of their states.

### `PacketPipe`, `TcpLink`, `MCTcpLink`

Two `LinkCommon`s with a stream of bytes each way. `HandleSend(p, n)` completes a
write of up to `n` bytes of the packet at the front, `HandleRecv(p, n, stops)` a
read of `n` bytes, which runs `put_pktstream()` to its end: `Put` and `Get` follow
`PacketStream::put()`, `ready()` and `get()`, with the part of a size that one
read brings kept in the buffer as the code keeps it. `Send` has `tun_recv()`'s
test of the queue's length in its guard, for data only. `PacketPipe` is what the
session counts on: packets, in order, whole, once. Bytes are digits in `Base`, so
that a size has two of them and sizes as well as contents can be cut.

### Proof modules

`ProtoStackProofs`, `ReplayWindowProofs`, `KeyContextsProofs`,
`ClientConnectProofs`, `RemoteListProofs`, `ClientSessionProofs` and
`TcpLinkProofs` hold theorems and the lemmas and invariants they need, and
nothing else; `SequenceLemmas` holds what several of them need of sequences and
of recursion. See section 5.

### Wrong versions

In front of some definitions stand wrong versions of them (`AcksUpTo`,
`HistoryCleared`, `PollEvenIfHeard`, ...). No specification uses them. Each is a
bug that the code could plausibly have had, and substituting it makes the
property that `PROJECT.json` names fail: that is how we know that every property
can tell right code from wrong.

## 3. What the runs show

Passing runs; each visits every reachable state of its instance.

| Run | Shows | Bounds, and why they are enough |
|---|---|---|
| `link_safety` | `InOrderExactlyOnce`, `QuietEvidence`, `QuietAcked`, `QuietRejected` and the refinement `LinkSpec`, with a silence of 30 s at the server at any time | Window 2, two messages one way and one the other, three packet IDs per peer: both windows move past a gap, acknowledgements travel alone and piggybacked, first copies meet retransmissions. Theorems cover every other size. |
| `link_liveness` | `TypeOK`, `Numbering`; `EventuallyDelivered`, `EventuallyAcked` over a network that loses packets, with a server that may be invalidated at any time | Three messages one way, so that the window of 2 fills and has to wait; plain TLS: packet IDs would have to be unbounded for endless retransmission with acknowledgements. |
| `replay_window` | `TypeOK`, `FreshIds`, `NeverTwice`, `WindowFaithful`, `OnlyOldRefused`, `RefusedForGood` | Ring of 4, IDs up to 6, two seconds: the ring wraps, is jumped over exactly and beyond, and the IDs wrap once. Theorems cover every other size. |
| `keys` | `SessionSurvives` through three ticks of outage at any times, the first included: a primary that is going to expire has a valid successor, and no session ends while outages are shorter than a handshake window and no limit is exceeded; `NegotiatedInTime` without an outage; `TransmitKeyKnown` when no limit is exceeded either; `TypeOK` and `FlushEnds` always | 20 ticks, in which a key is renewed every 6 and expires at 12; a handshake window of 2, so that outages of up to three ticks end sessions as well as spare them; key IDs 1 to 5, so that failed renegotiations make them wrap within the run; up to three limits exceeded by the client. |
| `connect` | `TypeOK`, `AlwaysTrying`, `StopIsFinal`, `HeardSessionKept`, `Retried` | Three clients, two calls, three handlers queued at once: a call and two stale handlers can stand in every order around a change of client. Theorems cover the first four for any number of each. |
| `remotes` | `TypeOK`, `EndpointDefined`, `OwnAddresses`, `PrunedRight`, `RotationUnpolled` | Every list of up to three entries of two hosts with up to two addresses, with and without cache and server poll, two calls of `reconnect()`. |
| `session` | `TypeOK`, `SettingsFollow`, `BridgeServesTun`, `InfoInOrder`, `NothingForgotten` and the refinement `ContractSpec` | Two sessions, so that what one leaves behind (requests, a kept device, late timers) meets the next; replies in two parts, up to two of them; two INFO messages, three sends in all; two settings, which is what "kept or made anew" tells apart; two requests before the server replies, so that the push timer has to be set again. 4.9 million states. |
| `tcp` | `Framing`, the inductive invariant, which implies `TypeOK` and `Conserved`; `DataBounded`, the refinement `PipeSpec`, and `Drained` | Two packets one way and one the other, of one and three bytes, over bytes of two values: every cut of every size and packet, and two packets in a read. With a limit of 0 data is queued only behind nothing. |

Runs that find the code to differ from what its comments say:

| Run | Finds |
|---|---|
| `link_silence` | After 30 s without a packet the floor of the packet-ID window rises to the highest ID seen. A message that was lost, and whose successor arrived, is then refused on retransmission because it carries its first packet ID, but acknowledged all the same (`ssl/proto.hpp:2524`). The sender forgets it and the handshake stalls until the session times out. |
| `keys_queue` | A data limit exceeded while a key waits for `KEV_BECOME_PRIMARY` is queued and then lost: on the first key because nobody handles the queued event, on a later one because promotion overwrites the renegotiation it has set (`ssl/proto.hpp:2018`, `3676`). |
| `connect_pause` | A server poll timeout whose handler is queued when `pause()` runs builds a new client for a paused object (`client/cliconnect.hpp:326`). |
| `remotes_poll` | With caching off and the server poll on, as by default, an entry whose host has two addresses is tried for ever and later entries never: the poll handler does not reset the entry's addresses as `queue_restart()` does (`client/cliconnect.hpp:326`, `client/remotelist.hpp:598`). |

Two more faults of the key contexts show with other constants in `KeyContexts.cfg`:

- *An outage of one handshake window may end a session.* The bound of
  `SessionSurvives` is sharp, and not only for the first key: with `MaxOutage = 2`
  and `MaxLimits = 0`, one peer comes to have `pri.invalid = "NEGOTIATE"` and
  `pri.num > 1` while the other still runs. The outage comes as the client asks for a
  renegotiation, and lets the server's own time come. The server's request replaces
  what the client's began and never completes, because the client answers without a
  reset (`ssl/proto.hpp:2144`); it is repeated until the primary expires, a secondary
  still negotiating takes its place (`3699`), and its `KEV_NEGOTIATE`, now on a
  primary, disconnects (`3708`), long after the network is back. A comment says that
  only the first key is fatal to the session and that a later one is renegotiated
  (`1315`).
- *`flush()` may go round for ever.* `kev_error()` (`2105`) leaves the next event of a
  context that was invalid already, because `invalidate()` clears it only the first
  time (`ssl/protostack.hpp:226`). If a handshake may take as long as a key lives
  (`hand-window` not less than `reneg-sec` plus `tran-window`), a server whose first
  key fails just as its second becomes active finds `KEV_EXPIRE` due on the invalid
  primary (`3728`), with nothing to give way to. `FlushEnds` fails so with
  `HandshakeWindow = 6`, `RenegotiateSec = 3` and `MaxOutage = 6`.

A renegotiation that only the server requests does not complete either when a limit
of a key is the reason: set `Limited = {Server}` in `KeyContexts.cfg`, and
`NegotiatedInTime` fails. Normally the client goes first, as its renegotiate time is
shorter by a handshake window, and the two never ask together; that is what
`NegotiatedInTime` rests on, and its mutant lets them.

Three more things came up that contradict no comment or test, and that the models
contain or exclude as said. The extension calls the adapter's `completionHandler`
when it has *asked* for the settings, and only logs a request that fails, so
`SettingsFollow` is about the moment at which the system has nothing left to do.
A part of a reply that does not parse ends the session, but a last part in the
same read would then start the tun of a halted session; the models suppose that
replies parse, and the hazard is listed. `stopTunnel` ends the extension without
stopping the adapter.

`CHECK_DEADLOCK FALSE` is set throughout because every system here may rightly
come to rest: all messages delivered, the clock at its bound, the client stopped.

## 4. Fairness

- **`ProtoStack`.** Weak fairness of `Flush` and `StartHandshake` (the parent
  flushes after every call, and starts a handshake once), and of resending each
  held message (the retransmit timer is re-armed until it is acknowledged).
  Strong fairness of the arrival of each message, and of each acknowledgement:
  the network may lose packets, but not every copy. Nothing is assumed about
  order or about how many are lost. The runs without liveness assume no fairness.
- **`ClientConnect`.** Weak fairness of the restart timer's expiry and of
  `Dispatch` (the event loop runs). Nothing is assumed of sessions: none need
  ever hear from a server, connect or end.
- **`RemoteList`.** A resolver answers, the restart timer expires, and a client
  that does not get connected ends: its transport, the server poll, or the
  handshake window of its first key sees to it. How it ends is left open.
- **`TcpLink`.** Weak fairness of `HandleSend` and `HandleRecv` at each peer: the
  system completes the write and the read that a link has started. That the other
  end sends, or goes on reading after a stop, is not assumed.
- **`ReplayWindow`, `KeyContexts`, `ClientSession`.** Safety only.
  `NegotiatedInTime` and `SessionSurvives` bound waiting by the clock, and
  `NothingForgotten` says that the timer which has to go on is set or has its
  handler queued.

## 5. What is proved

Every theorem holds for all values of the constants that the named `ASSUME`s of
its module allow: windows, lists, payloads, ID widths, parts, sessions, queued
handlers and all bounds on them. Invariants that are not inductive are
strengthened; each strengthening is given with its reason.

| Module | Theorem | States |
|---|---|---|
| `ProtoStackProofs` | `TypeCorrect` | `TypeOK` |
| | `StackNumbering`, `StackEvidence` | `Numbering`, `QuietEvidence` |
| | `InOrder` | `InOrderExactlyOnce` |
| | `AckedMeansReceived` | `QuietAcked` |
| | `RejectedMeansReceived` | `QuietRejected` |
| | `ImplementsLink` | the refinement `LinkSpec` |
| `ReplayWindowProofs` | `Types`, `IdsAreFresh`, `NoReplay`, `RingIsFaithful`, `RefusedAreOld`, `RefusalIsFinal` | `TypeOK`, `FreshIds`, `NeverTwice`, `WindowFaithful`, `OnlyOldRefused`, `RefusedForGood` |
| `KeyContextsProofs` | `TypeCorrect` | `TypeOK` |
| | `FlushLoopEnds` | the action property `FlushEnds`, where `HandshakeWindow < Expire` |
| | `PeersInStep`, `TransmitKeyIsKnown` | `InStep`, `TransmitKeyKnown` |
| | `NegotiationInTime` | `NegotiatedInTime` until a limit is exceeded |
| | `NegotiationInTimeUnlimited` | `NegotiatedInTime`, between peers that exceed no limit |
| `ClientConnectProofs` | `Types`, `KeepsTrying`, `StopHolds`, `HeardIsKept` | `TypeOK`, `AlwaysTrying`, `StopIsFinal`, `HeardSessionKept` |
| `RemoteListProofs` | `TypeCorrect`, `AlwaysAnEndpoint`, `AddressesAreOwn`, `PrunesRight` | `TypeOK`, `EndpointDefined`, `OwnAddresses`, the action property `PrunedRight` |
| `ClientSessionProofs` | `ContractIsKept` | the refinement `ContractSpec` |
| | `Types`, `SettingsAreRight`, `BridgeIsRead`, `InfosAreInOrder`, `NothingIsForgotten` | `TypeOK`, `SettingsFollow`, `BridgeServesTun`, `InfoInOrder`, `NothingForgotten` |
| `TcpLinkProofs` | `FramingInvariant`, `TypeCorrect`, `NothingLost`, `DataIsBounded` | `Framing`, `TypeOK`, `Conserved`, `DataBounded` |
| | `ImplementsPipe` | the refinement `PipeSpec` |

**The stack.** `InOrderExactlyOnce` is not inductive: whether the next message
passed up is the right one depends on what the slots and the network hold.
`Numbering` strengthens it: each number given out means the same message
everywhere (in the sender's history, in a packet held or in flight, in a receive
slot, in what was delivered), and no number is used that was not given out. Only
`Flush` (which gives out numbers), `RecvInWindow` (which stores) and
`UpSequenced` (which passes up) need work in its proof, the last in the lemmas
`UpSequencedFacts` and `PassingUp`.

`QuietAcked` and `QuietRejected` rest on `Evidence`: every acknowledgement,
whether queued, held or in flight, is for a message its sender has; every number
no longer held is one the other has; packet IDs are unique, and one marked as
seen belongs to a message that has been stored. Only with the last clause is the
acknowledgement of a *rejected* packet a true one. `Quiet` says that no peer has
had a silence of 30 s yet; `link_silence` shows that the theorems need it. Both
inductive invariants are also checked by runs.

**The stack implements the link.** Two facts are added to these: a slot freed or
erased by the sender is a message the other has (`ForgottenGot`), and nothing but
raw messages has been passed up before the handshake (`CipherWaited`). A received
message is then a `Receive` of the link, whatever run of slots it completes: the
lemma `PassingLinks` shows for any slots that what `UpSequenced` passes up is
just what `PassedUp` allows, and it is used both for a message and for
`StartHandshake`. All else is a `Send` or a stutter.

**The replay window.** The sender is right because all it has sent is `Below` its
counter. For the receiver, `Picture` says that each bit the ring covers is set
just if its packet was accepted, `Newest` that nothing newer was, `Covers` how far
the ring reaches. Under these `VerdictMeans` shows that a verdict depends on the
set of packets accepted only and not on the ring, whence all four properties of
the receiver follow. The arithmetic is in lemmas about `Index`, one for each way
around the ring.

**The key contexts.** `TypeOK` is inductive as it stands, but only because it
says, besides types, that the time at which a valid context becomes primary is
not past: `QueueRenegotiation` reckons the time of a queued renegotiation from
what is left of it, and a time past would give one before the age of the key,
even before zero. That clause holds after a call because `Flush` leaves nothing
due, and survives a tick because a peer with something due does not let time
pass.

`FlushEnds` rests on a rank and on an invariant, and holds where `HandshakeWindow`
is less than `Expire` (section 3 says why it must be). A context has at most
three things to do: see to the acknowledgements that have come in (after which it
may be active, an event), process the event it holds, and let the one fire that is
due. `Rank` counts them, twice for a secondary, since what a secondary does may give
its primary something to do; a promotion that is due counts for the renegotiation or
expiry that it may uncover. That handling an event lowers the rank is true only of
contexts that are `Orderly`: what is invalid has nothing more to do than expire, and
an invalid primary does that only when a valid secondary can replace it. `Orderly`
includes that a context under negotiation is `Punctual`, its window ending before
its age reaches `Expire`: so when the secondary that `disconnect()` has just
invalidated still has its `KEV_ACTIVE` to handle, the expiry which that sets on the
primary lies in the future. In the middle of a round a weaker form holds (`Midway`).
`PrimaryStage` goes from `Orderly` to `Midway` and `SecondaryStage` back, event by
event, and each either lowers the rank or finds nothing, so `RoundFacts`: a round
keeps contexts orderly and lowers the rank unless it is zero. It is at most 13, and
at zero a peer is `Idle` (`AtRest`). Between calls, `Order` says that the contexts of
running peers are orderly; a tick keeps it because `HandshakeWindow < Expire`
(`OlderOrderly`). With the durations of the run three rounds are enough, but not with
all durations (TLC finds a fourth needed with a renegotiation time of one tick and a
handshake window of four); 13 is what the argument gives for all of them.

**The peers in step.** `TransmitKeyKnown` relates the primary of one peer to a
context of the other, and says nothing of how the two got there: which key ID comes
next at each end, whether the old key is kept long enough, how far the handshake of
the next key is. `InStep` says it, of sessions that are `Undisturbed` (no outage, no
limit exceeded so far):

- each peer is on a `Course`: `Single` (one key, waiting to be used or in use),
  `Renewal` (the old key retires, or at the server is still in use, while the next
  is negotiated or waits to become primary), `Renewed` (the next is in use, the old
  one waits to expire). Each stage fixes the pending event of each context and when
  it is due, and the new context follows the old by one number, one key ID and
  `RenegotiateSec` in age;
- every context is `Usual`: its handshake is where the messages sent, received and
  acknowledged say (`Shaken`), and nothing has invalidated it;
- the peers are `Together`: two ends of one key (`Pair`) have the same ID and age,
  and neither knows of more than the other has sent. Only the client's first reset
  of a renewal may still be on its way (`Ahead`).

The proof goes along `Flush` for a peer by itself (`AckStage`, `PrimaryCourse`,
`SecondaryCourse` for the three stages of a round; each either keeps the contexts,
as `Kept` says, or begins a renewal) and along messages and ticks for the two. A
message finds the context it is for because the IDs of the up to four contexts
collide only for the same key (`KidsApart`), although IDs recur. A tick finds
everything delivered (`AtTick`), so that every handshake is finished (`Delivered`,
`HandshakeDone`) before anything ages. `InStep` has been checked with TLC as an
invariant of its own, and as an inductive one from the states of its stages, with
several values of the durations.

That a handshake over a working network takes no tick at all is the model's
(a tick outlasts any delivery, section 2); what the theorems add is that nothing in
the *code* holds one up: no reset dropped for its key ID, no context replaced while
it negotiates, nobody waiting for the other to begin. `DurationAssumption` is what
`load_common()` makes of the options (a key becomes primary more than a tick before
its renewal; three key IDs other than 0 at least); only these four theorems use it.

**The connect loop.** Every method is shown to map a well-formed object to one
that `Follows` it: still well formed (stopped means nothing left; no timer is
armed for a client yet to be built; the core restarts no client that is live),
still trying if it was or if the client is new. The queue of handlers is not
part of that and is used once, in the invariant: a restart that is queued with
the generation of a live client was wanted by the app. `HeardSessionKept` needs
the last clauses: a restart of the core that has the generation of a live client
would end that client though it had heard from its server.

**The remote list.** `Inv` is the three invariants together (the index names an
entry; no client's transport found nothing at it; addresses belong to their host)
and one clause that they lack: a pre-resolve is at work only with caching, so that
`ResetItem` does not clear, after the list has been pruned, the very addresses for
which an entry was kept. `Prune` runs along the list; `PruneKeeps` shows by
induction on its length what it leaves, `KnownUsable` that sharing the addresses
of a host keeps the list fit for use, and `NewClientSound` that the client which
follows gets an endpoint or resolves one. `PrunedRight` follows from `PruneKeeps`.

**The session and its tunnel.** `Inv` is the conjunction of

- `Stages`: how the flags of a session depend on each other (a connected one has
  a complete reply; the tun exists just while connected and not halted; a session
  that halts within a read leaves it only after its last reply);
- `TunnelFollows`: where the requests already queued *will leave* the settings
  (`EndsAt`) agrees with whether a connection is up, a device is kept, the owner
  has stopped. `SettingsFollow` speaks of the moment when nothing is queued and is
  not inductive, since the next `ApplySettings` may make another request. The
  first part of the module shows for each operator where it makes requests end;
- `Replies`: the parts received are the first ones in order, the parts of a
  reply are next to one another on the wire, and the first of the wire goes on
  from what was received. A reply that is repeated is only harmless with this;
- `Ends`, `Infos`: what ends a session is the last message; INFO numbers go on
  from shown to held to the wire.

Steps are classified once (those that only change flags, those that end the
session, those that connect, those that renew it), and each class is shown to be
a step of the contract or a stutter, and to keep each part of `Inv`.
`NothingForgotten` has its own small invariant, since its argument goes by timers
and not by stages.

**The TCP link.** `Conserved` is not inductive: it says nothing of a stopped end,
whose peer goes on reading what is on the wire, and it does not say that the
buffer waits *within* a size or a packet, without which the next read could
complete two things at once. `Framing` adds both, that what was delivered is a
beginning of what was accepted, and that data stands no deeper in the queue than
the limit allowed when it was queued (from which `DataBounded` follows by a count).
The proof takes one direction at a time: `Lane` is what `Framing` says of a sender,
the wire and a reader, and each of `Send`, `HandleSend` and `HandleRecv` keeps it.
For a read, `Parses` says that what the reader has found and what it still holds
are the framing of the packets to come; `FillParses`, `PassParses` and
`PutParses` keep it, over one fragment, one packet, and by induction over the loop
of `put_pktstream()`. That every packet found is the next one to be delivered is
then the step of `PacketPipe`.

**Induction.** The library's induction theorems take an operator as a parameter,
and the provers cannot instantiate them. `SequenceLemmas` goes around them:
`LeastNumber` (a nonempty set of numbers has a least member) gives `UpTo` (a set
that holds 0 and goes on from each number to the next holds all up to a bound),
and this gives `Recursion` (a function defined by steps exists) and the facts about
flattened sequences. The sets are sets of numbers, not operators, so each use is
a matter of citing a lemma. The loops of `Flush` and `PutPktstream` and the folds of
`Prune` and `FlattenSeq` are reasoned about this way.

*Assumed throughout:* the parts of a reply parse; a server sends nothing after it
has refused or ended a session. Without the first `ContractSpec` fails (section 3).

*Only model-checked.* Liveness (`EventuallyDelivered`, `EventuallyAcked`,
`Retried`, `RotationUnpolled`, `Drained`), which is outside the proof system's
reach. `SessionSurvives` of `KeyContexts`: what becomes of renegotiations through an outage
depends on how many ticks an outage, a handshake and a key's life take of one
another, and an invariant would have to say how far out of step the peers can be
after any number of failed renegotiations. `NegotiatedInTime` *after* a limit has
been exceeded: renewals then begin at times of their own, and a limit may replace a
secondary, so that contexts no longer keep to one course; the run has the client
exceed its limits.

## 6. What the models leave out

- The contents of messages, TLS, key derivation, HMACs and ciphers. A packet that
  fails authentication is dropped before anything here sees it.
- Exact times. A retransmission may happen at any time; `KeyContexts` counts
  ticks; `ClientConnect` and `RemoteList` let timers expire in any order. Runs
  therefore include schedules that real durations would rule out; where one
  matters (`BecomePrimary`, `HandshakeWindow`, the server's longer renegotiate
  time), `KeyContexts` keeps the inequality between the durations.
- In `ClientSession`: a configuration with neither keepalive nor renegotiation, in
  which the housekeeping timer may be cancelled (`client/cliproto.hpp:921`); the order
  of packets and the key exchange but for its
  outcomes, data packets, durations (with them `AUTH_PENDING`, which only
  lengthens one), auth-tokens, relays, echo, the explicit exit notification. A
  server sends nothing after it has refused or ended a session.
- In `PacketTunnel`: what the settings say, starting the adapter, the shared
  default that the app polls, the UDP or TCP session that the extension opens and
  never uses, a pending read of the packet flow by a bridge that is gone.
- In `TcpLink`: connecting, the HTTP proxy's negotiation, statistics, raw mode.
  Keepalive packets do not pass through `tun_recv` and join the queue unchecked: they
  count as control packets, and `DataBounded` is about what the tun hands on.
  Packets are not empty and fit a buffer, as the protocol's do.
- The app. What happens between a tap and the extension is decided by the
  system's NetworkExtension (whether a start is refused, when a status is
  announced, which process lives), of which neither code nor contract is in the
  repository; a model would be of guesses. Its known weak spot, an answer that is
  read by the wrong attempt, is a listed hazard.
- UDP is a network that loses, repeats and reorders: it is what `ProtoStack`
  has.
- Keepalive timeouts, `tls-crypt-v2` key unwrapping, session IDs and the data
  channel in `KeyContexts`. A data packet appears only as the one that turns a
  decrypt limit green.
- Relays, the lifecycle object (null on iOS), explicit exit notifications and the
  events sent to the app in `ClientConnect`; proxies, overrides and pauses in
  `RemoteList`.

## 7. Plan

Done, in order of importance: the stack with its abstract link; the replay
window; key contexts; the connect loop; the remote list; the session with its
contract and the tunnel under it; the TCP link; the theorems above.

Left:

1. **Keepalive** in `KeyContexts`, against renegotiation and outages: a timeout
   ends the session while a new key is under way. `ClientSession` has it as one
   of the causes of `Invalidate`.
2. **Parsing of replies** in `ClientSession`: a failing part as an outcome of
   `RecvPushReply`, with the contract weakened to what the code then keeps.
3. **`KeyContexts`:** `SessionSurvives`, and `NegotiatedInTime` beyond a limit
   exceeded, as theorems; both need an invariant of peers *out of* step, next to
   `InStep`.
4. **The packet IDs of the stack:** that the set `pidSeen` of `ProtoStack`, for
   IDs fewer than `Window` apart, is what the ring of `ReplayWindow` computes. The
   two are now related by what their theorems say only.
5. **Adapter threads:** the semaphore of `establishTunnel` and a completion that
   comes after its 30 s; with this extension, which completes at once, it cannot
   come late.
