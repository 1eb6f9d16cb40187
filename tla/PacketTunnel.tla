---------------------------- MODULE PacketTunnel ----------------------------
(***************************************************************************)
(* The tunnel of a client: the packet-tunnel extension                     *)
(* (PacketTunnelProvider.m), the OpenVPNAdapter between it and the core    *)
(* (OpenVPNAdapter.mm, OpenVPNClient.mm), and the core's tun device        *)
(* (tun/builder/client.hpp with tun/persist/).                             *)
(*                                                                         *)
(* Each connection installs the network settings that the server pushed,   *)
(* and each end of one removes them.  The extension does either through    *)
(* the system's setTunnelNetworkSettings(), twice, and goes on at once:    *)
(* the system applies what it was asked for later, in order, and the       *)
(* second request is made only when the first has been applied.            *)
(*                                                                         *)
(* Abstracted: what the settings say, packets, and the UDP or TCP session  *)
(* that the extension opens and never uses.                                *)
(* The wrong versions before some definitions are used by nothing: they    *)
(* are mistakes the properties have been shown to catch.                   *)
(***************************************************************************)
EXTENDS Naturals, Sequences

CONSTANTS
    Settings,   \* what a server may push: addresses, routes, DNS servers
    NoSettings  \* nil

ASSUME SettingsAssumption == NoSettings \notin Settings /\ "done" \notin Settings \cup {NoSettings}

VARIABLE tunnel

SomeSettings == Settings \cup {NoSettings}

\* persist is config->tunPersist; bridge is the number of the OpenVPNPacketFlowBridge that exists, of those
\* made, or 0; sd and options are TunPersist's, kept while the owner has not let
\* go of it; io is the bridge that the TunIO reads from.  The system is to set
\* what is in requests and then, if there is more to do, to call back.
Requests == Seq([set : SomeSettings, next : SomeSettings \cup {"done"}])
Tunnel ==
    [persist : BOOLEAN, bridge : Nat, made : Nat, sd : Nat, options : SomeSettings, io : Nat,
     installed : SomeSettings, requests : Requests]

NewTunnel(persist) ==
    [persist |-> persist, bridge |-> 0, made |-> 0, sd |-> 0, options |-> NoSettings,
     io |-> 0, installed |-> NoSettings, requests |-> <<>>]

-----------------------------------------------------------------------------
(* The extension and the adapter.                                          *)

Request(t, set, next) == [t EXCEPT !.requests = Append(@, [set |-> set, next |-> next])]

\* setupUDPSession(): clears the settings and, when that is done, sets the new ones.
ConfigureWithoutClearing(t, settings) ==
    IF settings = NoSettings THEN Request(t, NoSettings, NoSettings)
    ELSE Request(t, settings, "done")
ConfigureTunnel(t, settings) == Request(t, NoSettings, settings)

ResetTun(t) == ConfigureTunnel([t EXCEPT !.bridge = 0], NoSettings)

\* establishTunnel(): a bridge is made even when its sockets then fail.
EstablishTunnel(t, settings) ==
    ConfigureTunnel([t EXCEPT !.made = @ + 1, !.bridge = t.made + 1], settings)

\* The system applies the oldest request and calls back, which may make another.
ApplyNext(t) ==
    LET done == [t EXCEPT !.installed = Head(t.requests).set, !.requests = Tail(@)]
    IN  IF Head(t.requests).next = "done" THEN done
        ELSE Request(done, Head(t.requests).next, "done")

ApplySettings ==
    /\ tunnel.requests # <<>>
    /\ tunnel' = ApplyNext(tunnel)

-----------------------------------------------------------------------------
(* TunPersist and the tun client.                                          *)

\* close_local(); the descriptor is the bridge's to close.
Teardown(t) == ResetTun([t EXCEPT !.sd = 0, !.options = NoSettings])

\* stop_(): a short-term TunPersist goes with the tun client.
TunStop(t) == IF t.persist THEN [t EXCEPT !.io = 0] ELSE Teardown([t EXCEPT !.io = 0])

\* finalize(disconnected): a long-term one goes when the client disconnects.
Finalize(t) == IF t.persist THEN Teardown(t) ELSE t

\* tun_start(): what becomes of the device, by outcome.
UsePersistedTun(t, settings) == t.persist /\ t.sd # 0 /\ t.options = settings

Established(t, settings) == EstablishTunnel(ResetTun(t), settings)
TunConnected(t, settings) ==
    IF UsePersistedTun(t, settings) THEN [t EXCEPT !.io = t.sd]
    ELSE LET up == Established(t, settings)
         IN  [up EXCEPT !.sd = up.bridge, !.io = up.bridge,
                        !.options = IF t.persist THEN settings ELSE NoSettings]
\* The adapter refuses an option: close(), then stop().
TunSetupFailed(t) == TunStop(Teardown(ResetTun(t)))

=============================================================================
