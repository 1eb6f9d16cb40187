---------------------------- MODULE PacketPipe ----------------------------
(***************************************************************************)
(* What a TCP link promises a session: packets pass each way in order,     *)
(* whole and exactly once, for as long as both ends are up.  An end that   *)
(* has stopped sends nothing and receives nothing more, but for the rest   *)
(* of the read in which it stopped.                                        *)
(***************************************************************************)
EXTENDS Naturals, Sequences

CONSTANTS Peer, Packet

VARIABLES
    accepted,  \* packets that each peer's link took, in order
    delivered, \* packets that each peer's link handed over
    stopped    \* each peer's link is

vars == <<accepted, delivered, stopped>>

Init ==
    /\ accepted = [p \in Peer |-> <<>>]
    /\ delivered = [p \in Peer |-> <<>>]
    /\ stopped = [p \in Peer |-> FALSE]

Send(p) ==
    /\ ~stopped[p]
    /\ \E packet \in Packet : accepted' = [accepted EXCEPT ![p] = Append(@, packet)]
    /\ UNCHANGED <<delivered, stopped>>

\* One read hands over the next few packets, and the session may stop meanwhile.
Deliver(p, from) ==
    /\ ~stopped[p]
    /\ \E k \in Len(delivered[p]) + 1 .. Len(accepted[from]) :
          delivered' = [delivered EXCEPT ![p] = SubSeq(accepted[from], 1, k)]
    /\ stopped' \in {stopped, [stopped EXCEPT ![p] = TRUE]}
    /\ UNCHANGED accepted

Stop(p) ==
    /\ stopped' = [stopped EXCEPT ![p] = TRUE]
    /\ UNCHANGED <<accepted, delivered>>

Next == \E p \in Peer : Send(p) \/ Stop(p) \/ \E from \in Peer \ {p} : Deliver(p, from)

Spec == Init /\ [][Next]_vars

=============================================================================
