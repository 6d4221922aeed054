--------------------------- MODULE MCGatewaySession ---------------------------
(* GatewaySession with a few callers for TLC.                               *)
EXTENDS GatewaySession, TLC

Symmetry == Permutations(Sockets)
=============================================================================
