---------------------------- MODULE SessionQueue ----------------------------
(***************************************************************************)
(* The per-session queue of the gateway                                    *)
(* (zeroclaw/crates/zeroclaw-gateway/src/session_queue.rs): one semaphore  *)
(* with one permit, a counter of pending requests that refuses what is too *)
(* much, and a timeout on the wait.                                        *)
(*                                                                         *)
(* Two kinds of callers.  A socket (ws.rs) acquires for each chat message; *)
(* its task is never dropped.  A post (POST /api/sessions/{id}/messages)   *)
(* runs inside the gateway's TimeoutLayer and inside its connection, and   *)
(* either may drop its future at an await.  The queue is that of one       *)
(* session: sessions share nothing but the map of slots.                   *)
(***************************************************************************)
EXTENDS Integers, Sequences, FiniteSets

CONSTANTS Posts, Sockets,
          MaxDepth          \* max_queue_depth

Callers == Posts \cup Sockets

ASSUME QueueAssumption == IsFiniteSet(Callers) /\ MaxDepth \in Nat

VARIABLES pending,    \* SessionSlot.pending
          free,       \* permits in SessionSlot.semaphore
          waiters,    \* its queue of waiting acquires, oldest first
          at,         \* where each caller is
          seen,       \* what its fetch_add returned
          lost        \* history: calls dropped while they were counted

queueVars == <<pending, free, waiters, at, seen, lost>>

Places == {"out", "counted", "waiting", "granted", "expired", "inside", "leaving"}

Counted == {c \in Callers : at[c] \notin {"out", "leaving"}}
HasPermit(c) == at[c] \in {"granted", "inside", "leaving"}

-----------------------------------------------------------------------------
(* The semaphore, as tokio promises it: first come, first served.          *)

Move(c, place) == at' = [at EXCEPT ![c] = place]

\* The permit of c goes to the oldest waiter or back into the semaphore.
HandOn(c, place) ==
  IF waiters = <<>>
  THEN Move(c, place) /\ free' = free + 1 /\ UNCHANGED waiters
  ELSE /\ at' = [at EXCEPT ![c] = place, ![Head(waiters)] = "granted"]
       /\ waiters' = Tail(waiters)
       /\ UNCHANGED free

Without(s, i) == SubSeq(s, 1, i - 1) \o SubSeq(s, i + 1, Len(s))

\* The acquire future of c is dropped before it was ready.
DropAcquire(c, place) ==
  \/ /\ at[c] = "waiting"
     /\ \E i \in DOMAIN waiters : waiters[i] = c /\ waiters' = Without(waiters, i)
     /\ Move(c, place)
     /\ UNCHANGED free
  \/ /\ at[c] = "granted"
     /\ HandOn(c, place)

-----------------------------------------------------------------------------
(* One call of acquire after the other, and the guard it returns.          *)

\* Mutant: the semaphore has two permits.
InitTwoPermits ==
  /\ pending = 0 /\ free = 2 /\ waiters = <<>> /\ lost = 0
  /\ at = [c \in Callers |-> "out"]
  /\ seen = [c \in Callers |-> 0]

Init == /\ pending = 0
        /\ free = 1
        /\ waiters = <<>>
        /\ lost = 0
        /\ at = [c \in Callers |-> "out"]
        /\ seen = [c \in Callers |-> 0]

\* Mutant: only a call that will be admitted is counted, yet all are uncounted.
CountIfRoom(c) ==
  /\ at[c] = "out"
  /\ seen' = [seen EXCEPT ![c] = pending]
  /\ pending' = IF pending < MaxDepth THEN pending + 1 ELSE pending
  /\ Move(c, "counted")
  /\ UNCHANGED <<free, waiters, lost>>

\* fetch_add on the counter of the slot found (or made) in the map.
Count(c) ==
  /\ at[c] = "out"
  /\ seen' = [seen EXCEPT ![c] = pending]
  /\ pending' = pending + 1
  /\ Move(c, "counted")
  /\ UNCHANGED <<free, waiters, lost>>

\* QueueFull.
Refuse(c) ==
  /\ at[c] = "counted"
  /\ seen[c] >= MaxDepth
  /\ pending' = pending - 1
  /\ Move(c, "out")
  /\ UNCHANGED <<free, waiters, seen, lost>>

\* Mutant: one request too many.
JoinOffByOne(c) ==
  /\ at[c] = "counted"
  /\ seen[c] <= MaxDepth
  /\ IF free > 0
     THEN free' = free - 1 /\ Move(c, "inside") /\ UNCHANGED waiters
     ELSE waiters' = Append(waiters, c) /\ Move(c, "waiting") /\ UNCHANGED free
  /\ UNCHANGED <<pending, seen, lost>>

\* The first poll of acquire_owned: ready at once, or in line.
Join(c) ==
  /\ at[c] = "counted"
  /\ seen[c] < MaxDepth
  /\ IF free > 0
     THEN free' = free - 1 /\ Move(c, "inside") /\ UNCHANGED waiters
     ELSE waiters' = Append(waiters, c) /\ Move(c, "waiting") /\ UNCHANGED free
  /\ UNCHANGED <<pending, seen, lost>>

\* The task is polled again: the SessionGuard is built.
Enter(c) ==
  /\ at[c] = "granted"
  /\ Move(c, "inside")
  /\ UNCHANGED <<pending, free, waiters, seen, lost>>

\* Mutant: the permit is awaited without a timeout.
LockTimeoutForgotten(c) == FALSE /\ UNCHANGED queueVars

\* lock_timeout: the acquire is dropped, and then the count is taken back.
LockTimeout(c) ==
  /\ DropAcquire(c, "expired")
  /\ UNCHANGED <<pending, seen, lost>>

\* Mutant: a call that timed out stays counted.
ExpireSilently(c) ==
  /\ at[c] = "expired"
  /\ Move(c, "out")
  /\ UNCHANGED <<pending, free, waiters, seen, lost>>

Expire(c) ==
  /\ at[c] = "expired"
  /\ pending' = pending - 1
  /\ Move(c, "out")
  /\ UNCHANGED <<free, waiters, seen, lost>>

\* A post's handler is dropped at its await: there is no SessionGuard yet, so
\* the semaphore recovers and the counter does not.
DropPost(c) ==
  /\ DropAcquire(c, "out")
  /\ lost' = lost + 1
  /\ UNCHANGED <<pending, seen>>

\* SessionGuard::drop, and then the drop of its fields.
Leave(c) ==
  /\ at[c] = "inside"
  /\ pending' = pending - 1
  /\ Move(c, "leaving")
  /\ UNCHANGED <<free, waiters, seen, lost>>

Release(c) ==
  /\ at[c] = "leaving"
  /\ HandOn(c, "out")
  /\ UNCHANGED <<pending, seen, lost>>

-----------------------------------------------------------------------------
\* What a call does without waiting for the turn of another to end.
CallStep(c) ==
  \/ Refuse(c) \/ Join(c) \/ Enter(c) \/ LockTimeout(c) \/ Expire(c) \/ Release(c)

Next ==
  \/ \E c \in Callers : Count(c) \/ CallStep(c) \/ Leave(c)
  \/ \E c \in Posts : DropPost(c)

Spec == Init /\ [][Next]_queueVars

\* Tasks are polled and timers fire; a turn may go on for ever.
FairSpec == Spec /\ \A c \in Callers : WF_queueVars(CallStep(c))

-----------------------------------------------------------------------------
(* Properties.                                                             *)

TypeOK ==
  /\ pending \in Nat
  /\ free \in 0..1
  /\ waiters \in Seq(Callers)
  /\ at \in [Callers -> Places]
  /\ seen \in [Callers -> Nat]
  /\ lost \in Nat

\* "Each session gets at most one concurrent turn": whatever timeouts and drops
\* do to the waiters, one call has the permit, and none while it is free.
OneInside ==
  /\ \A c, d \in Callers : HasPermit(c) /\ HasPermit(d) => c = d
  /\ free > 0 => waiters = <<>> /\ \A c \in Callers : ~HasPermit(c)

\* The counter is exact but for the posts that were dropped: every other way out
\* of acquire, and the guard, takes its own count back once.
PendingExact == pending = Cardinality(Counted) + lost

\* The bound on the queue holds though the counter is raised before it is looked
\* at, and by calls that will be refused.
DepthBound == Cardinality({c \in Callers : at[c] \in {"waiting", "granted", "inside"}}) <= MaxDepth

\* No call waits for ever, though the turn it waits for may never end.
EveryWaitEnds == \A c \in Callers : at[c] = "waiting" ~> at[c] \in {"inside", "out"}
=============================================================================
