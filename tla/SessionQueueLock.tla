--------------------------- MODULE SessionQueueLock ---------------------------
(* SessionQueue implements TurnLock: a caller waits from its fetch_add until *)
(* it has a SessionGuard, and is inside until the guard's permit is back.    *)
EXTENDS SessionQueue

InLine == {c \in Callers : at[c] \in {"counted", "waiting", "granted", "expired"}}
HasGuard == {c \in Callers : at[c] \in {"inside", "leaving"}}

Lock == INSTANCE TurnLock WITH waiting <- InLine, inside <- HasGuard

\* Whatever timeouts, drops and hand-overs do inside the queue, from outside it is
\* a lock: each step asks, gives up, enters an empty session, leaves, or is hidden.
KeepsLock == Lock!LockSpec
=============================================================================
