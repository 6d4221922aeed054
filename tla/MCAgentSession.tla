--------------------------- MODULE MCAgentSession ---------------------------
(* AgentSession and its contract with small constants for TLC.             *)
EXTENDS AgentSessionContract, TLC

Symmetry == Permutations(Sends)
=============================================================================
