---------------------------- MODULE ReliableLink ----------------------------
(***************************************************************************)
(* What the control-channel stack promises its parent, with no packets,    *)
(* windows or timers in sight.  Each peer numbers messages; the other peer *)
(* gets them in any order, passes up exactly the messages next in          *)
(* sequence, and the sender takes a message for acknowledged only when the *)
(* other peer has it.                                                      *)
(***************************************************************************)
EXTENDS Integers, Sequences

CONSTANTS Client, Server, Payload

Peer == {Client, Server}
Other(p) == IF p = Client THEN Server ELSE Client
Message == [raw : BOOLEAN, data : Payload]

VARIABLES
    started,   \* the peer's TLS handshake has begun
    sent,      \* the messages a peer has numbered; the first has id 0
    received,  \* ids of the messages a peer has from the other
    delivered, \* the messages a peer has passed up
    acked      \* ids a peer takes for acknowledged by the other

vars == <<started, sent, received, delivered, acked>>

-----------------------------------------------------------------------------

\* Peer e, having the messages ids of the other, has passed up just the longest
\* run of them it may: TLS ciphertext has to wait until its handshake started.
PassedUp(e, ids, ssl, seq) ==
    LET from == sent[Other(e)]
        May(i) == i \in ids /\ (from[i + 1].raw \/ ssl)
    IN  /\ Len(seq) <= Len(from)
        /\ seq = SubSeq(from, 1, Len(seq))
        /\ \A i \in 0 .. Len(seq) - 1 : May(i)
        /\ ~May(Len(seq))

Init ==
    /\ started = [e \in Peer |-> FALSE]
    /\ sent = [e \in Peer |-> <<>>]
    /\ received = [e \in Peer |-> {}]
    /\ delivered = [e \in Peer |-> <<>>]
    /\ acked = [e \in Peer |-> {}]

\* e numbers some more messages.
Send(e) ==
    /\ SubSeq(sent'[e], 1, Len(sent[e])) = sent[e]
    /\ sent' = [sent EXCEPT ![e] = sent'[e]]
    /\ UNCHANGED <<started, received, delivered, acked>>

\* e starts its handshake, which lets waiting ciphertext through.
Start(e) ==
    /\ ~started[e]
    /\ started' = [started EXCEPT ![e] = TRUE]
    /\ PassedUp(e, received[e], TRUE, delivered'[e])
    /\ delivered' = [delivered EXCEPT ![e] = delivered'[e]]
    /\ UNCHANGED <<sent, received, acked>>

\* e gets at most one more message, and learns that some of its own arrived.
Receive(e) ==
    /\ \/ UNCHANGED <<received, delivered>>
       \/ \E id \in 0 .. Len(sent[Other(e)]) - 1 :
            /\ received' = [received EXCEPT ![e] = @ \cup {id}]
            /\ PassedUp(e, received'[e], started[e], delivered'[e])
            /\ delivered' = [delivered EXCEPT ![e] = delivered'[e]]
    /\ acked[e] \subseteq acked'[e]
    /\ acked'[e] \subseteq received[Other(e)]
    /\ acked' = [acked EXCEPT ![e] = acked'[e]]
    /\ UNCHANGED <<started, sent>>

Next == \E e \in Peer : Send(e) \/ Start(e) \/ Receive(e)

Spec == Init /\ [][Next]_vars

=============================================================================
