------------------------------ MODULE DaemonSlot ------------------------------
(***************************************************************************)
(* What start_daemon, stop_daemon and the calls in between promise their   *)
(* callers: a slot for one daemon.  Each call takes effect in one step     *)
(* between its entry and its return, and its answer is true at that step.  *)
(* DaemonLifecycle implements it with two mutexes and a tokio runtime.     *)
(***************************************************************************)
CONSTANTS Starters, Stoppers, Users, None

VARIABLES serving,    \* the daemon that serves, named by its start, or None
          admitted,   \* the uses that found a daemon serving
          answer      \* what a call has returned, or "none"

slotVars == <<serving, admitted, answer>>

Answer(c, how) == answer[c] = "none" /\ answer' = [answer EXCEPT ![c] = how]

SlotInit == /\ serving = None
            /\ admitted = {}
            /\ answer = [c \in Starters \cup Stoppers \cup Users |-> "none"]

Start(c) ==
  /\ serving = None
  /\ serving' = c
  /\ Answer(c, "ok")
  /\ UNCHANGED admitted

Stop(c) ==
  /\ serving # None
  /\ serving' = None
  /\ Answer(c, "ok")
  /\ UNCHANGED admitted

RefuseStart(c) ==
  /\ serving # None
  /\ Answer(c, "already_running")
  /\ UNCHANGED <<serving, admitted>>

\* A stop or a use with no daemon.
RefuseIdle(c) ==
  /\ serving = None
  /\ c \notin admitted
  /\ Answer(c, "not_running")
  /\ UNCHANGED <<serving, admitted>>

\* A start or a use that fails before it looks at the slot.
Fail(c) ==
  /\ c \notin admitted
  /\ \E how \in {"invalid", "no_runtime"} : Answer(c, how)
  /\ UNCHANGED <<serving, admitted>>

Admit(c) ==
  /\ serving # None
  /\ answer[c] = "none"
  /\ admitted' = admitted \cup {c}
  /\ UNCHANGED <<serving, answer>>

Serve(c) ==
  /\ c \in admitted
  /\ \E how \in {"ok", "runtime_gone"} : Answer(c, how)
  /\ UNCHANGED <<serving, admitted>>

SlotNext ==
  \/ \E c \in Starters : Start(c) \/ RefuseStart(c) \/ Fail(c)
  \/ \E c \in Stoppers : Stop(c) \/ RefuseIdle(c)
  \/ \E c \in Users : RefuseIdle(c) \/ Fail(c) \/ Admit(c) \/ Serve(c)

SlotSpec == SlotInit /\ [][SlotNext]_slotVars
=============================================================================
