-------------------------- MODULE SessionContract --------------------------
(***************************************************************************)
(* What a Session promises its owner (ClientProto::NotifyCallback): it     *)
(* hears from the server, connects and ends in that order and each at most *)
(* once, whatever else reaches it; the owner is told of the connection     *)
(* when it is made, and of the end when the session ends of itself, and of *)
(* nothing after the end.  ClientConnect is written for such a session:    *)
(* its timers and its retry count on each of these.                        *)
(***************************************************************************)
EXTENDS Naturals, Sequences

VARIABLES
    num,   \* sessions so far
    phase, \* of the latest
    told   \* what it told its owner

vars == <<num, phase, told>>

Phase == {"connecting", "heard", "connected", "ended"}

Init == num = 1 /\ phase = "connecting" /\ told = <<>>

Hear ==
    /\ phase = "connecting"
    /\ phase' = "heard"
    /\ UNCHANGED <<num, told>>

Connect ==
    /\ phase = "heard"
    /\ phase' = "connected"
    /\ told' = Append(told, "connected")
    /\ UNCHANGED num

\* Of itself, or because the owner stops it.
End ==
    /\ phase # "ended"
    /\ phase' = "ended"
    /\ told' \in {told, Append(told, "terminated")}
    /\ UNCHANGED num

Renew ==
    /\ num' = num + 1
    /\ phase' = "connecting"
    /\ told' = <<>>

Next == Hear \/ Connect \/ End \/ Renew

Spec == Init /\ [][Next]_vars

=============================================================================
