------------------------------- MODULE AppDaemon -------------------------------
(***************************************************************************)
(* The app's foreground service and its bridge to the daemon               *)
(* (app/.../service/ZeroAIDaemonService.kt, DaemonServiceBridge.kt), with  *)
(* the setup that uses the bridge behind the service's back                *)
(* (SetupOrchestrator.kt) and the state polls of ZeroAIApplication.kt.     *)
(*                                                                         *)
(* A coroutine runs on the main thread between its FFI blocks, which run   *)
(* on another thread and to their end even if the coroutine is cancelled.  *)
(* The daemon is the slot of module DaemonLifecycle: start fails if it is  *)
(* filled, stop if it is empty.                                            *)
(***************************************************************************)
EXTENDS Integers, Sequences, FiniteSets

CONSTANTS Starts,        \* start jobs of the service
          Stops,         \* jobs of handleStop
          Setups,        \* runs of the setup orchestrator
          MaxAttempts,   \* RetryPolicy.MAX_ATTEMPTS (8 in the code)
          MaxCommands,   \* bound: commands of the user
          MaxDeaths,     \* bound: deaths of the process
          NoJob

ASSUME AppAssumption ==
  /\ {MaxAttempts, MaxCommands, MaxDeaths} \subseteq Nat
  /\ NoJob \notin Starts \cup Stops \cup Setups
  /\ Stops \cap (Starts \cup Setups) = {} /\ Starts \cap Setups = {}

Jobs == Starts \cup Stops \cup Setups

VARIABLES daemon,      \* DAEMON is filled
          callbacks,   \* the event and credential callbacks are registered
          state,       \* _serviceState
          wasRunning,  \* the persisted flag
          up,          \* the service has an instance
          inbox,       \* what the system has to deliver to the service, in order
          preps,       \* coroutines of handleStartFromSettings
          at,          \* where each job is
          startJob,    \* the start job that is not cancelled, if any
          orphans,     \* jobs whose service instance is destroyed
          attempts,    \* retryPolicy.currentAttempt
          poll,        \* the status poll job: "none", "delay", or the answer it got
          sync,        \* a poll outside the service: "none", or what came of it
          seen,        \* the state the service's observer has handled
          commands, deaths,   \* bounds
          asked,       \* history: the last command
          crossed      \* history: the last stop met a start or an instance that ends

rust == <<daemon, callbacks>>
service == <<up, inbox, preps, startJob, orphans, attempts>>
polls == <<poll, sync, seen>>
counters == <<commands, deaths>>
past == <<asked, crossed>>
vars == <<rust, state, wasRunning, service, at, polls, counters, past>>

Init ==
  /\ daemon = FALSE /\ callbacks = FALSE
  /\ state = "stopped" /\ wasRunning = FALSE
  /\ up = FALSE /\ inbox = <<>> /\ preps = 0
  /\ at = [j \in Jobs |-> "idle"]
  /\ startJob = NoJob /\ orphans = {} /\ attempts = 0
  /\ poll = "none" /\ sync = "none" /\ seen = "stopped"
  /\ commands = 0 /\ deaths = 0
  /\ asked = "none" /\ crossed = FALSE

Cancelled(j) == (j \in Starts /\ j # startJob) \/ j \in orphans
Busy(J) == {j \in J : at[j] # "idle"}
Goto(j, p) == at' = [at EXCEPT ![j] = p]
End(j) == Goto(j, "idle") /\ orphans' = orphans \ {j}

Leaving(box) == \E i \in DOMAIN box : box[i] = "destroy"

\* stopSelf, with box to be delivered; nothing if the instance is on its way out.
StopSelf(box) == inbox' = IF Leaving(box) THEN box ELSE Append(box, "destroy")
StopSelfOf(j) == IF j \in orphans THEN UNCHANGED inbox ELSE StopSelf(inbox)

-----------------------------------------------------------------------------
(* DaemonServiceBridge.start: FFI block, then what the main thread does.   *)

\* syncRuntime is over.  Its catch clause takes a cancellation for an error, so a
\* cancelled job that had begun comes here too, and ends at the next suspension.
EnterStart(j) ==
  /\ at[j] = "sync"
  /\ state' \in {"starting"} \cup (IF Cancelled(j) THEN {state} ELSE {})
  /\ IF Cancelled(j) THEN End(j) ELSE Goto(j, "ensure") /\ UNCHANGED orphans
  /\ UNCHANGED <<rust, wasRunning, up, inbox, preps, startJob, attempts, polls, counters, past>>

InBlock == UNCHANGED <<state, wasRunning, service, polls, counters, past>>

EnsureStopped(j) ==
  /\ at[j] = "ensure"
  /\ daemon' = FALSE
  /\ Goto(j, "start")
  /\ UNCHANGED callbacks /\ InBlock

StartDaemon(j) ==
  /\ at[j] = "start"
  /\ IF daemon THEN Goto(j, "already") /\ UNCHANGED daemon
     ELSE \/ daemon' = TRUE /\ Goto(j, "register")
          \/ Goto(j, "failed") /\ UNCHANGED daemon
  /\ UNCHANGED callbacks /\ InBlock

\* Mutant: a cancelled start registers nothing.
RegisterUnlessCancelled(j) ==
  /\ at[j] \in {"register", "reregister"}
  /\ callbacks' = (callbacks \/ ~Cancelled(j))
  /\ Goto(j, IF at[j] = "register" THEN "started" ELSE "reregistered")
  /\ UNCHANGED daemon /\ InBlock

Register(j) ==
  /\ at[j] \in {"register", "reregister"}
  /\ callbacks' = TRUE
  /\ Goto(j, IF at[j] = "register" THEN "started" ELSE "reregistered")
  /\ UNCHANGED daemon /\ InBlock

\* Back on the main thread, where a cancelled job throws; the service records the
\* start and polls from now on.
StartReturns(j) ==
  /\ at[j] \in {"started", "reregistered"}
  /\ End(j)
  /\ IF Cancelled(j) THEN UNCHANGED <<state, wasRunning, attempts, poll>>
     ELSE /\ state' = IF at[j] = "started" THEN "running" ELSE state
          /\ IF j \in Starts
             THEN wasRunning' = TRUE /\ attempts' = 0 /\ poll' = "delay"
             ELSE UNCHANGED <<wasRunning, attempts, poll>>
  /\ UNCHANGED <<rust, up, inbox, preps, startJob, sync, seen, counters, past>>

\* "already running" is taken for success, and the callbacks are registered again.
AlreadyRunning(j) ==
  /\ at[j] = "already"
  /\ state' = "running"
  /\ IF Cancelled(j) THEN End(j) ELSE Goto(j, "reregister") /\ UNCHANGED orphans
  /\ UNCHANGED <<rust, wasRunning, up, inbox, preps, startJob, attempts, polls, counters, past>>

\* Mutant: one attempt too many.
ExhaustedLate == attempts > MaxAttempts

\* RetryPolicy.nextDelay has no delay left to give.
Exhausted == attempts >= MaxAttempts

\* The error is thrown to a cancelled job too.  The service waits and tries again, or
\* gives up and stops itself; of the counter of a destroyed instance nothing is known.
StartFails(j) ==
  /\ at[j] = "failed"
  /\ state' = "error"
  /\ \/ /\ j \in Starts /\ (j \in orphans \/ ~Exhausted)
        /\ attempts' = IF j \in orphans THEN attempts ELSE attempts + 1
        /\ IF Cancelled(j) THEN End(j) ELSE Goto(j, "delay") /\ UNCHANGED orphans
        /\ UNCHANGED <<wasRunning, inbox>>
     \/ /\ j \in Starts /\ (j \in orphans \/ Exhausted)
        /\ wasRunning' = FALSE
        /\ StopSelfOf(j)
        /\ End(j)
        /\ UNCHANGED attempts
     \/ j \in Setups /\ End(j) /\ UNCHANGED <<wasRunning, inbox, attempts>>
  /\ UNCHANGED <<rust, up, preps, startJob, polls, counters, past>>

\* The delay of the retry is over, or was cancelled.
RetryDelay(j) ==
  /\ at[j] = "delay"
  /\ IF Cancelled(j) THEN End(j) ELSE Goto(j, "sync") /\ UNCHANGED orphans
  /\ UNCHANGED <<rust, state, wasRunning, up, inbox, preps, startJob, attempts, polls, counters,
                 past>>

-----------------------------------------------------------------------------
(* DaemonServiceBridge.stop.                                               *)

EnterStop(j) ==
  /\ at[j] = "launched"
  /\ state' = "stopping"
  /\ Goto(j, "unregister")
  /\ UNCHANGED <<rust, wasRunning, service, polls, counters, past>>

Unregister(j) ==
  /\ at[j] = "unregister"
  /\ callbacks' = FALSE
  /\ Goto(j, "stop")
  /\ UNCHANGED daemon /\ InBlock

StopDaemon(j) ==
  /\ at[j] = "stop"
  /\ Goto(j, IF daemon THEN "halted" ELSE "unhalted")
  /\ daemon' = FALSE
  /\ UNCHANGED callbacks /\ InBlock

\* A stop of the service then stops the service; the setup goes on whatever came.
StopReturns(j) ==
  /\ at[j] \in {"halted", "unhalted"}
  /\ state' = IF at[j] = "halted" THEN "stopped" ELSE "error"
  /\ IF j \in Stops THEN StopSelfOf(j) /\ End(j)
                    ELSE Goto(j, "intent") /\ UNCHANGED <<inbox, orphans>>
  /\ UNCHANGED <<rust, wasRunning, up, preps, startJob, attempts, polls, counters, past>>

-----------------------------------------------------------------------------
(* The service.                                                            *)

\* Commands come from the user interface, the tile, the notification, a boot.
Command ==
  /\ commands < MaxCommands
  /\ \E c \in {"start", "retry", "stop"} : inbox' = Append(inbox, c)
  /\ commands' = commands + 1
  /\ UNCHANGED <<rust, state, wasRunning, up, preps, at, startJob, orphans, attempts, polls,
                 deaths, past>>

Deliver(c) == inbox # <<>> /\ Head(inbox) = c

\* A start reads its settings in a coroutine of its own, which may wait for the user.
HandleStart ==
  /\ Deliver("start") \/ Deliver("retry")
  /\ attempts' = IF Head(inbox) = "retry" THEN 0 ELSE attempts
  /\ inbox' = Tail(inbox)
  /\ up' = TRUE
  /\ preps' = preps + 1
  /\ asked' = "start"
  /\ UNCHANGED <<rust, state, wasRunning, at, startJob, orphans, polls, counters, crossed>>

Starting == preps > 0 \/ Busy(Starts \cup Setups) # {}

\* The main thread is first in, first out: if onDestroy is in line already, it cancels
\* the coroutine before its turn.
LaunchStop ==
  \E j \in Stops :
    /\ at[j] = "idle"
    /\ IF Leaving(inbox) THEN UNCHANGED at ELSE Goto(j, "launched")

\* Mutant: the stop is not recorded.
HandleStopUnrecorded ==
  /\ Deliver("stop")
  /\ LaunchStop
  /\ inbox' = Tail(inbox)
  /\ up' = TRUE
  /\ startJob' = NoJob /\ attempts' = 0 /\ poll' = "none"
  /\ asked' = "stop" /\ crossed' = (Starting \/ Leaving(inbox))
  /\ UNCHANGED <<rust, state, wasRunning, preps, orphans, sync, seen, counters>>

\* The start job and the poll are cancelled, a start still reading its settings is not.
HandleStop ==
  /\ Deliver("stop")
  /\ LaunchStop
  /\ inbox' = Tail(inbox)
  /\ up' = TRUE
  /\ startJob' = NoJob /\ attempts' = 0 /\ poll' = "none"
  /\ wasRunning' = FALSE
  /\ asked' = "stop" /\ crossed' = (Starting \/ Leaving(inbox))
  /\ UNCHANGED <<rust, state, preps, orphans, sync, seen, counters>>

\* A restart by the system, or the setup's intent without an action: start again what
\* was running, or stop.
HandleStickyRestart ==
  /\ Deliver("sticky")
  /\ up' = TRUE
  /\ IF wasRunning
     THEN preps' = preps + 1 /\ inbox' = Tail(inbox)
     ELSE UNCHANGED preps /\ StopSelf(Tail(inbox))
  /\ UNCHANGED <<rust, state, wasRunning, at, startJob, orphans, attempts, polls, counters, past>>

\* attemptStart: the job before it is cancelled.
AttemptStart ==
  /\ preps > 0
  /\ preps' = preps - 1
  /\ attempts' = 0
  /\ \E j \in Starts : at[j] = "idle" /\ Goto(j, "sync") /\ startJob' = j
  /\ UNCHANGED <<rust, state, wasRunning, up, inbox, orphans, polls, counters, past>>

\* The settings make no valid configuration: the service stops itself.
ConfigRejected ==
  /\ preps > 0
  /\ preps' = preps - 1
  /\ StopSelf(inbox)
  /\ UNCHANGED <<rust, state, wasRunning, up, at, startJob, orphans, attempts, polls, counters,
                 past>>

\* onDestroy cancels everything of this instance; what is in a block is left to itself.
Destroy ==
  /\ Deliver("destroy")
  /\ \A j \in Stops : at[j] # "launched"
  /\ inbox' = Tail(inbox)
  /\ up' = FALSE /\ preps' = 0 /\ startJob' = NoJob /\ attempts' = 0
  /\ poll' = "none" /\ seen' = state
  /\ orphans' = Busy(Starts \cup Stops)
  /\ UNCHANGED <<rust, state, wasRunning, at, sync, counters, past>>

\* observeServiceState: the poll lasts as long as the state is RUNNING.
ObserveState ==
  /\ up /\ seen # state
  /\ seen' = state
  /\ poll' = IF state = "running" THEN poll ELSE "none"
  /\ UNCHANGED <<rust, state, wasRunning, service, at, sync, counters, past>>

-----------------------------------------------------------------------------
(* Polls: the answer is read on one thread and applied on another.         *)

Answer == IF daemon THEN "on" ELSE "off"

\* Mutant: a poll corrects the state in one direction only.
AppliedIfOn(answer) == IF answer = "on" THEN "running" ELSE state

Applied(answer) ==
  IF answer = "on" THEN "running" ELSE IF state = "stopping" THEN state ELSE "stopped"

\* The observer has had its turn long before the interval is over.
PollReads ==
  /\ poll = "delay" /\ seen = state
  /\ poll' = Answer
  /\ UNCHANGED <<rust, state, wasRunning, service, at, sync, seen, counters, past>>

\* A daemon that is off ends the service and the poll.
PollApplies ==
  /\ poll \in {"on", "off"}
  /\ state' = Applied(poll)
  /\ IF poll = "on" THEN poll' = "delay" /\ UNCHANGED <<wasRunning, inbox>>
     ELSE poll' = "none" /\ wasRunning' = FALSE /\ StopSelf(inbox)
  /\ UNCHANGED <<rust, up, preps, at, startJob, orphans, attempts, sync, seen, counters, past>>

PollFails ==
  /\ poll \in {"on", "off"}
  /\ state' = "error" /\ poll' = "delay"
  /\ UNCHANGED <<rust, wasRunning, service, at, sync, seen, counters, past>>

\* syncState, when the app is created and whenever it comes to the foreground; the
\* setup polls the same way, but a failure of its poll changes nothing.
SyncReads ==
  /\ sync = "none"
  /\ sync' \in {Answer, "failed"}
  /\ UNCHANGED <<rust, state, wasRunning, service, at, poll, seen, counters, past>>

SyncApplies ==
  /\ sync \in {"on", "off"}
  /\ state' = Applied(sync)
  /\ sync' = "none"
  /\ UNCHANGED <<rust, wasRunning, service, at, poll, seen, counters, past>>

\* The catch clause takes a failure for a daemon that is off, whatever the state.
SyncFails ==
  /\ sync = "failed"
  /\ state' = "stopped"
  /\ sync' = "none"
  /\ UNCHANGED <<rust, wasRunning, service, at, poll, seen, counters, past>>

-----------------------------------------------------------------------------
(* The setup, and the death of the process.                                *)

\* runHotReload stops at once, runFullSetup if a poll says that something runs.
SetupBegins(j) ==
  /\ commands < MaxCommands
  /\ commands' = commands + 1
  /\ at[j] = "idle"
  /\ \E p \in {"launched", "intent"} : Goto(j, p)
  /\ asked' = "setup"
  /\ UNCHANGED <<rust, state, wasRunning, service, polls, deaths, crossed>>

SetupIntent(j) ==
  /\ at[j] = "intent"
  /\ inbox' = Append(inbox, "sticky")
  /\ Goto(j, "sync")
  /\ UNCHANGED <<rust, state, wasRunning, up, preps, startJob, orphans, attempts, polls, counters,
                 past>>

\* All but the flag is gone; the system brings a service back that was up.
ProcessDies ==
  /\ deaths < MaxDeaths
  /\ deaths' = deaths + 1
  /\ daemon' = FALSE /\ callbacks' = FALSE /\ state' = "stopped"
  /\ inbox' = IF up /\ ~Leaving(inbox) THEN <<"sticky">> ELSE <<>>
  /\ up' = FALSE /\ preps' = 0 /\ startJob' = NoJob /\ orphans' = {} /\ attempts' = 0
  /\ at' = [j \in Jobs |-> "idle"]
  /\ poll' = "none" /\ sync' = "none" /\ seen' = "stopped"
  /\ UNCHANGED <<wasRunning, commands, past>>

-----------------------------------------------------------------------------
StartStep(j) == EnterStart(j) \/ EnsureStopped(j) \/ StartDaemon(j) \/ Register(j)
                \/ StartReturns(j) \/ AlreadyRunning(j) \/ StartFails(j) \/ RetryDelay(j)
StopStep(j) == EnterStop(j) \/ Unregister(j) \/ StopDaemon(j) \/ StopReturns(j)
JobStep(j) == StartStep(j) \/ StopStep(j) \/ SetupIntent(j)
Prepare == AttemptStart \/ ConfigRejected
ServiceStep == HandleStart \/ HandleStop \/ HandleStickyRestart \/ Destroy \/ ObserveState
Polling == PollReads \/ PollApplies \/ PollFails
Foreground == SyncReads \/ SyncApplies \/ SyncFails

Next ==
  \/ \E j \in Jobs : JobStep(j)
  \/ \E j \in Setups : SetupBegins(j)
  \/ Command \/ Prepare \/ ServiceStep \/ Polling \/ Foreground \/ ProcessDies

Spec == Init /\ [][Next]_vars

\* Threads and the main loop run on; the user comes back to the app again and again and
\* answers what a start asks.
FairSpec ==
  Spec /\ (\A j \in Jobs : WF_vars(JobStep(j))) /\ WF_vars(Prepare) /\ WF_vars(ServiceStep)
       /\ WF_vars(Foreground)

-----------------------------------------------------------------------------
(* Properties.                                                             *)

TypeOK ==
  /\ {daemon, callbacks, wasRunning, up, crossed} \subseteq BOOLEAN
  /\ {state, seen} \subseteq {"stopped", "starting", "running", "stopping", "error"}
  /\ inbox \in Seq({"start", "retry", "stop", "sticky", "destroy"})
  /\ preps \in Nat /\ attempts \in 0..MaxAttempts
  /\ at \in [Jobs -> {"idle", "sync", "ensure", "start", "register", "started", "already",
                      "reregister", "reregistered", "failed", "delay", "launched", "unregister",
                      "stop", "halted", "unhalted", "intent"}]
  /\ startJob \in Starts \cup {NoJob} /\ orphans \subseteq Starts \cup Stops
  /\ poll \in {"none", "delay", "on", "off"} /\ sync \in {"none", "on", "off", "failed"}
  /\ commands \in 0..MaxCommands /\ deaths \in 0..MaxDeaths
  /\ asked \in {"none", "start", "stop", "setup"}

\* The daemon never runs deaf: its events and its credential questions find the app,
\* but while the start that made it has yet to register or a stop is about to stop it.
NoDeafDaemon ==
  daemon /\ ~callbacks => \E j \in Jobs : at[j] \in {"register", "stop"}

Quiet == inbox = <<>> /\ preps = 0 /\ Busy(Jobs) = {}

\* A stop that met no start under way, and no instance that ends, holds until the next
\* command: no late answer, no retry, no restart of service or process brings the daemon
\* back.
StopHolds == Quiet /\ asked = "stop" /\ ~crossed => ~daemon /\ ~wasRunning

\* When the user gives no more commands and polls do not fail for ever, all jobs come
\* to their end, retries included, and from some point on the app shows what is true.
SettlesOnTruth ==
  <>[][~(PollFails \/ SyncFails)]_vars => <>[](Quiet /\ (state = "running" <=> daemon))
=============================================================================
