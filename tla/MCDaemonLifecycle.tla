-------------------------- MODULE MCDaemonLifecycle --------------------------
(* DaemonLifecycle with small sets of calls for TLC.                        *)
EXTENDS DaemonLifecycle, TLC

\* Sound for invariants only: a run with a liveness property does without.
Symmetry == Permutations(Starters) \cup Permutations(Stoppers)
=============================================================================
