----------------------------- MODULE MCTcpLink -----------------------------
(* TcpLink on a small instance: bits for bytes, sizes of two bits, and packets
   of one to three bytes, of which those that begin with 1 are data. *)
EXTENDS TcpLink

CONSTANTS ClientPackets, ServerPackets

MCPacket == {<<0>>, <<1>>, <<1, 0, 1>>}
MCMaxPackets == [p \in Peer |-> IF p = Client THEN ClientPackets ELSE ServerPackets]
=============================================================================
