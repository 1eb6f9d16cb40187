----------------------------- MODULE RemoteList -----------------------------
(***************************************************************************)
(* The rotation through a profile's "remote" entries: RemoteList, its      *)
(* PreResolve (client/remotelist.hpp), and the calls that ClientConnect    *)
(* and the transports make of them.                                        *)
(*                                                                         *)
(* An index names the entry, and the address in that entry's list, that    *)
(* the next client will contact.  An entry without addresses is resolved   *)
(* first, by the client's transport or, if addresses are cached, by a      *)
(* PreResolve that runs before the first client.                           *)
(*                                                                         *)
(* Abstracted: ports and protocols, except that they make two entries of   *)
(* one host different; the order of addresses, which may be shuffled;      *)
(* proxies and RemoteOverride; sessions, of which only the ends matter;    *)
(* timers, which are in ClientConnect; and pause(), for a paused client is *)
(* replaced like one that a server poll timeout ends.                      *)
(* The wrong versions before some definitions are used by nothing: they    *)
(* are mistakes the properties have been shown to catch.                   *)
(***************************************************************************)
EXTENDS Integers, SequencesExt

CONSTANTS
    Host,           \* server_host
    MaxEntries,     \* bound: entries of the profile
    MaxAddresses,   \* bound: addresses of a host
    MaxReconnects   \* bound: calls of reconnect()

ASSUME BoundAssumption ==
    {MaxEntries, MaxAddresses} \subseteq Nat \ {0} /\ MaxReconnects \in Nat

VARIABLES
    options,    \* enable_cache; server_poll_timeout_enabled()
    list,       \* RemoteList::list
    index,      \* RemoteList::index
    pre,        \* PreResolve: the place in list of the entry it resolves, or 0
    client,     \* the client that ClientConnect owns, and its restart
    reconnects  \* calls of reconnect() so far

vars == <<options, list, index, pre, client, reconnects>>

Options == [caching : BOOLEAN, polls : BOOLEAN]

\* What a resolver may answer.  Of an address, only its host is kept.
Answers == [host \in Host |-> {[i \in 1 .. n |-> host] : n \in 1 .. MaxAddresses}]
AddressList == {<<>>} \cup UNION {Answers[h] : h \in Host}

\* name is the entry's place in the profile.
Item == [name : 1 .. MaxEntries, host : Host, addrs : AddressList]

\* reached: reached_connected_state().  restart: its timer is pending.
Phase == {"none", "resolving", "contacting", "connected", "ended", "thrown"}
Client == [phase : Phase, reached : BOOLEAN, restart : BOOLEAN]

Cached(item) == item.addrs # <<>>

-----------------------------------------------------------------------------
(* RemoteList.  Its index counts from 0, a sequence from 1.                *)

Current == list[index.primary + 1]

AtStart == [primary |-> 0, secondary |-> 0]

SecondaryLength(l, i) == IF i < Len(l) THEN Len(l[i + 1].addrs) ELSE 0

\* Index::increment()
Increment(ix, n, m) ==
    IF ix.secondary + 1 < m THEN [ix EXCEPT !.secondary = @ + 1]
    ELSE [primary |-> IF ix.primary + 1 >= n THEN 0 ELSE ix.primary + 1, secondary |-> 0]

\* reset_item(), unless addresses are cached.
ResetItem(l, ix) ==
    IF options.caching THEN l ELSE [l EXCEPT ![ix.primary + 1].addrs = <<>>]

\* RemoteList::next()
NextRemote(l, ix) ==
    LET ix2 == Increment(ix, Len(l), SecondaryLength(l, ix.primary))
    IN  [list |-> ResetItem(l, ix2), index |-> ix2]

EndpointAvailable(l, ix) == ix.secondary < SecondaryLength(l, ix.primary)

PruneTruncates(l) == SubSeq(l, 1, Len(SelectSeq(l, Cached)))
\* prune_uncached()
Prune(l) ==
    LET kept[i \in 0 .. Len(l)] ==
          IF i = 0 THEN <<>>
          ELSE IF Cached(l[i]) THEN Append(kept[i - 1], l[i]) ELSE kept[i - 1]
    IN  kept[Len(l)]

ShareWithAny(l, i) == {j \in DOMAIN l : Cached(l[j])}
\* search_server_host()
SameHost(l, i) == {j \in DOMAIN l : l[j].host = l[i].host /\ Cached(l[j])}

-----------------------------------------------------------------------------
(* ClientConnect::new_client() and transport_start().                      *)

\* primary_index() throws for an index beyond the list.
TransportStart(l, ix) ==
    IF ix.primary >= Len(l) THEN "thrown"
    ELSE IF EndpointAvailable(l, ix) THEN "contacting" ELSE "resolving"

\* The next client, for a list l and an index ix.  Only one that follows a
\* client which never connected goes on to the next address.
NewClient(l, ix) ==
    LET next == IF client.phase # "none" /\ ~client.reached THEN NextRemote(l, ix)
                ELSE [list |-> l, index |-> ix]
    IN  /\ list' = next.list
        /\ index' = next.index
        /\ client' = [phase |-> TransportStart(next.list, next.index),
                      reached |-> FALSE, restart |-> FALSE]

ItemKept == list
ResetCacheItem == ResetItem(list, index)

\* queue_restart()
QueueRestart(phase) ==
    /\ list' = ResetCacheItem
    /\ client' = [client EXCEPT !.phase = phase, !.restart = TRUE]

-----------------------------------------------------------------------------
(* PreResolve::next(): from place i of l on, entries share the addresses   *)
(* of their host with others, up to the first that has to be resolved.     *)

IndexKeptByPrune == index
IndexAfterPrune == AtStart

PreNext(l, i) ==
    LET stop  == Min({k \in i .. Len(l) : SameHost(l, k) = {}} \cup {Len(l) + 1})
        known == [k \in DOMAIN l |->
                    IF k \in i .. stop - 1 /\ ~Cached(l[k])
                    THEN [l[k] EXCEPT !.addrs = l[Min(SameHost(l, k))].addrs] ELSE l[k]]
        some  == \E k \in DOMAIN l : Cached(l[k])
    IN  IF stop <= Len(l)
        THEN pre' = stop /\ list' = known /\ UNCHANGED <<index, client>>
        ELSE /\ pre' = 0
             /\ IF some THEN \E kept \in {Prune(known)} : NewClient(kept, IndexAfterPrune)
                ELSE NewClient(known, index)

PreResolveCallback ==
    /\ pre # 0
    /\ \E addrs \in Answers[list[pre].host] \cup {list[pre].addrs} :
         PreNext([list EXCEPT ![pre].addrs = addrs], pre + 1)
    /\ UNCHANGED <<options, reconnects>>

-----------------------------------------------------------------------------
(* The life of a client.                                                   *)

Live == client.phase \in {"resolving", "contacting", "connected"}

SecondaryKept == index.secondary
SecondaryReset == 0

\* resolve_callback() and start_connect_(): get_endpoint() may throw.
ResolveCallback ==
    /\ client.phase = "resolving"
    /\ \E addrs \in Answers[Current.host] :
         LET l  == [list EXCEPT ![index.primary + 1].addrs = addrs]
             ix == [index EXCEPT !.secondary = SecondaryReset]
         IN  /\ list' = l
             /\ index' = ix
             /\ client' = [client EXCEPT !.phase =
                             IF EndpointAvailable(l, ix) THEN "contacting" ELSE "thrown"]
    /\ UNCHANGED <<options, pre, reconnects>>

Connect ==
    /\ client.phase = "contacting"
    /\ client' = [client EXCEPT !.phase = "connected", !.reached = TRUE]
    /\ UNCHANGED <<options, list, index, pre, reconnects>>

\* A resolve error, a transport error or the end of the session.
ClientProtoTerminate ==
    /\ Live
    /\ QueueRestart("ended")
    /\ UNCHANGED <<options, index, pre, reconnects>>

Reconnect ==
    /\ reconnects < MaxReconnects
    /\ client.phase # "thrown"
    /\ QueueRestart(client.phase)
    /\ reconnects' = reconnects + 1
    /\ UNCHANGED <<options, index, pre>>

RestartWaitCallback ==
    /\ client.restart
    /\ NewClient(list, index)
    /\ UNCHANGED <<options, pre, reconnects>>

\* "Server poll timeout, trying next remote entry..."
ServerPollCallback ==
    /\ options.polls
    /\ client.phase \in {"resolving", "contacting"}
    /\ ~client.restart
    /\ NewClient(list, index)
    /\ UNCHANGED <<options, pre, reconnects>>

-----------------------------------------------------------------------------

\* ClientConnect::start().
Init ==
    /\ options \in Options
    /\ \E n \in 1 .. MaxEntries : \E host \in [1 .. n -> Host] :
         list = [i \in 1 .. n |-> [name |-> i, host |-> host[i], addrs |-> <<>>]]
    /\ index = AtStart
    /\ pre = IF options.caching THEN 1 ELSE 0
    /\ client = [phase |-> IF options.caching THEN "none" ELSE "resolving",
                 reached |-> FALSE, restart |-> FALSE]
    /\ reconnects = 0

Next ==
    \/ PreResolveCallback
    \/ ResolveCallback
    \/ Connect
    \/ ClientProtoTerminate
    \/ Reconnect
    \/ RestartWaitCallback
    \/ ServerPollCallback

\* A resolver answers, a timer expires, and a client that does not get
\* connected ends: by its transport, the server poll or the handshake window.
Fairness ==
    /\ WF_vars(PreResolveCallback)
    /\ WF_vars(RestartWaitCallback)
    /\ WF_vars(/\ client.phase \in {"resolving", "contacting"}
               /\ ResolveCallback \/ Connect \/ ClientProtoTerminate \/ ServerPollCallback)

Spec == Init /\ [][Next]_vars /\ Fairness

-----------------------------------------------------------------------------
(* Properties                                                              *)

\* Type invariant: the index names an entry, and there always is one.
TypeOK ==
    /\ options \in Options
    /\ list \in Seq(Item) /\ Len(list) <= MaxEntries
    /\ index \in [primary : 0 .. Len(list) - 1, secondary : 0 .. MaxAddresses - 1]
    /\ pre \in 0 .. Len(list)
    /\ client \in Client
    /\ reconnects \in 0 .. MaxReconnects

\* Whatever moves the index or replaces the addresses under it, a transport that
\* asks for its endpoint gets one: remote_list_error, which "generally indicate[s]
\* logic errors", is never thrown.
EndpointDefined == client.phase # "thrown"

\* An entry's addresses are those of its own host, although two resolvers may
\* be at work and the list may be pruned and shared in between.
OwnAddresses == \A i \in DOMAIN list : ToSet(list[i].addrs) \subseteq {list[i].host}

\* "Prune out all entries we were unable to resolve unless doing so would result
\* in an empty list": at the end of a pre-resolve no entry goes that has
\* addresses, and none stays without, unless none has any.
PrunedRight ==
    [][pre # 0 /\ pre' = 0 =>
         \/ \A i \in DOMAIN list' : ~Cached(list'[i]) /\ Len(list') = Len(list)
         \/ /\ \A i \in DOMAIN list' : Cached(list'[i])
            /\ \A i \in DOMAIN list : Cached(list[i]) =>
                 \E j \in DOMAIN list' : list'[j].name = list[i].name]_vars

\* The entry with this name is not in the list, or its turn has come, or a client
\* is connected.
TurnOf(name) ==
    \/ \A i \in DOMAIN list : list[i].name # name
    \/ Current.name = name
    \/ client.phase = "connected"

\* "with remote list rotation": while no client connects, every entry has its
\* turn again and again.
RotationReachesAll == \A name \in 1 .. MaxEntries : []<>TurnOf(name)

\* It does so if addresses are cached, or if clients end only by errors.
RotationUnpolled ==
    \A name \in 1 .. MaxEntries :
      []<>(TurnOf(name) \/ (~options.caching /\ options.polls))

=============================================================================
