-------------------------- MODULE MCCapabilityGrants --------------------------
(* CapabilityGrants and its contract with a few scripts for TLC.            *)
EXTENDS CapabilityGrantsBook, TLC

Symmetry == Permutations(Scripts) \cup Permutations(Grants)
=============================================================================
