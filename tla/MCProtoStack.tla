---------------------------- MODULE MCProtoStack ----------------------------
(* Instances of ProtoStack for TLC. *)
EXTENDS ProtoStack, TLC

CONSTANTS
    ToServer, ToClient,  \* messages handed to each peer's stack
    ServerSilence        \* how often the server hears nothing for 30 s

MCQueued == (Client :> ToServer) @@ (Server :> ToClient)
MCSilence == (Client :> 0) @@ (Server :> ServerSilence)
=============================================================================
