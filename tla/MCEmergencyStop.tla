--------------------------- MODULE MCEmergencyStop ---------------------------
(* EmergencyStop with small constants for TLC.                              *)
EXTENDS EmergencyStop, TLC

Symmetry == Permutations(Operators) \cup Permutations(Sends)
=============================================================================
