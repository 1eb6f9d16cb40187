-------------------------- MODULE MCClientSession --------------------------
(* ClientSession on a small instance; what a server may push is interchangeable. *)
EXTENDS ClientSession, TLC

Symmetry == Permutations(Settings)
=============================================================================
