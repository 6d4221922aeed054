------------------------------- MODULE TurnLock -------------------------------
(***************************************************************************)
(* What the gateway's session queue promises those that work on a session: *)
(* one of them is inside at a time, and one that waits gets in or gives    *)
(* up.  SessionQueue implements it; GatewaySession is built on it.         *)
(***************************************************************************)
CONSTANT Callers

VARIABLES waiting,    \* callers that have asked
          inside      \* the caller whose turn it is, if any

lockVars == <<waiting, inside>>

LockInit == waiting = {} /\ inside = {}

AskLock(c) ==
  /\ c \notin waiting \cup inside
  /\ waiting' = waiting \cup {c}
  /\ UNCHANGED inside

\* Refused, timed out or dropped.
GiveUp(c) ==
  /\ c \in waiting
  /\ waiting' = waiting \ {c}
  /\ UNCHANGED inside

TakeLock(c) ==
  /\ c \in waiting /\ inside = {}
  /\ waiting' = waiting \ {c}
  /\ inside' = {c}

LeaveLock(c) ==
  /\ c \in inside
  /\ inside' = inside \ {c}
  /\ UNCHANGED waiting

LockNext == \E c \in Callers : AskLock(c) \/ GiveUp(c) \/ TakeLock(c) \/ LeaveLock(c)

LockSpec == LockInit /\ [][LockNext]_lockVars
=============================================================================
