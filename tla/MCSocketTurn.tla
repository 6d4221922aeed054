----------------------------- MODULE MCSocketTurn -----------------------------
(* SocketTurn and its contract with small channels for TLC.                 *)
EXTENDS SocketTurnRecord
=============================================================================
