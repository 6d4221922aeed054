--------------------------- MODULE MCSessionQueue ---------------------------
(* SessionQueue with a few callers for TLC.                                 *)
EXTENDS SessionQueueLock, TLC

\* Sound for invariants only: a run with a liveness property does without.
Symmetry == Permutations(Posts) \cup Permutations(Sockets)
=============================================================================
