-------------------------- MODULE DaemonLifecycle --------------------------
(***************************************************************************)
(* Start and stop of the native daemon, and the calls that borrow its      *)
(* tokio runtime (zeroclaw-android/zeroclaw-ffi/src/runtime.rs).           *)
(*                                                                         *)
(* Two global mutexes: DAEMON, held for a whole start or stop, and         *)
(* RUNTIME, held for a moment to fetch, create or take the runtime.  A     *)
(* call that has fetched a Handle keeps it after RUNTIME is released, so   *)
(* a stop may shut the runtime down under it.                              *)
(*                                                                         *)
(* Starters, Stoppers and Users are single calls of start_daemon,          *)
(* stop_daemon and send_message (or any call that fetches the runtime and  *)
(* blocks on it).  A daemon is named by the start call that made it and a  *)
(* runtime by the call that built it.                                      *)
(***************************************************************************)
EXTENDS Naturals

CONSTANTS Starters, Stoppers, Users,
          None              \* no call, no daemon, no runtime

Calls == Starters \cup Stoppers \cup Users
Runtimes == Starters \cup Users    \* the calls that can build one

ASSUME CallsAssumption ==
  /\ None \notin Calls
  /\ Starters \cap Stoppers = {}
  /\ Starters \cap Users = {}
  /\ Stoppers \cap Users = {}

VARIABLES runtime,     \* RUNTIME: the current runtime or None
          live,        \* the runtimes that have not been shut down
          daemon,      \* DAEMON: the daemon whose state is in the slot, or None
          lock,        \* the call that holds the DAEMON mutex over several steps
          handle,      \* the runtime whose Handle (or ownership) a call holds
          victim,      \* the daemon a stop call has taken out of DAEMON
          tasks,       \* the daemons whose supervisor tasks are alive
          aborted,     \* the daemons whose supervisor tasks have been aborted
          health,      \* the "daemon" entry of ffi_health
          pc,
          result

vars == <<runtime, live, daemon, lock, handle, victim, tasks, aborted, health, pc, result>>

PCs == {"idle", "fetching", "fetched", "spawning", "publishing",
        "aborting", "taking", "awaiting", "shutting", "marking",
        "using", "done"}
Results == {"none", "ok", "invalid", "no_runtime", "already_running",
            "not_running", "runtime_gone"}

-----------------------------------------------------------------------------
Init == /\ runtime = None
        /\ live = {}
        /\ daemon = None
        /\ lock = None
        /\ handle = [c \in Calls |-> None]
        /\ victim = [c \in Stoppers |-> None]
        /\ tasks = {}
        /\ aborted = {}
        /\ health = "unset"
        /\ pc = [c \in Calls |-> "idle"]
        /\ result = [c \in Calls |-> "none"]

Goto(c, point) == pc' = [pc EXCEPT ![c] = point]
Return(c, how) == Goto(c, "done") /\ result' = [result EXCEPT ![c] = how]

-----------------------------------------------------------------------------
(* get_or_create_runtime: one section of the RUNTIME mutex.                *)

\* Mutant: a new runtime replaces the current one.
FetchRuntimeAnew(c) ==
  /\ pc[c] = "fetching"
  /\ runtime' = c /\ live' = live \cup {c}
  /\ handle' = [handle EXCEPT ![c] = c]
  /\ Goto(c, "fetched")
  /\ UNCHANGED <<daemon, lock, victim, tasks, aborted, health, result>>

FetchRuntime(c) ==
  /\ pc[c] = "fetching"
  /\ IF runtime = None
     THEN runtime' = c /\ live' = live \cup {c}
     ELSE UNCHANGED <<runtime, live>>
  /\ handle' = [handle EXCEPT ![c] = runtime']
  /\ Goto(c, "fetched")
  /\ UNCHANGED <<daemon, lock, victim, tasks, aborted, health, result>>

\* The tokio builder fails.
RuntimeNotBuilt(c) ==
  /\ pc[c] = "fetching"
  /\ runtime = None
  /\ Return(c, "no_runtime")
  /\ UNCHANGED <<runtime, live, daemon, lock, handle, victim, tasks, aborted, health>>

-----------------------------------------------------------------------------
(* start_daemon: arguments, runtime, DAEMON lock, spawn, publish.          *)

StartDaemon(c) ==
  /\ pc[c] = "idle"
  /\ \/ Goto(c, "fetching") /\ UNCHANGED result
     \/ Return(c, "invalid")
  /\ UNCHANGED <<runtime, live, daemon, lock, handle, victim, tasks, aborted, health>>

\* Mutant: a start does not look whether a daemon runs.
LockForStartUnchecked(c) ==
  /\ pc[c] = "fetched"
  /\ lock = None
  /\ lock' = c
  /\ Goto(c, "spawning")
  /\ UNCHANGED <<runtime, live, daemon, handle, victim, tasks, aborted, health, result>>

LockForStart(c) ==
  /\ pc[c] = "fetched"
  /\ lock = None
  /\ daemon = None
  /\ lock' = c
  /\ Goto(c, "spawning")
  /\ UNCHANGED <<runtime, live, daemon, handle, victim, tasks, aborted, health, result>>

AlreadyRunning(c) ==
  /\ pc[c] = "fetched"
  /\ lock = None
  /\ daemon # None
  /\ Return(c, "already_running")
  /\ UNCHANGED <<runtime, live, daemon, lock, handle, victim, tasks, aborted, health>>

\* block_on spawns the supervisors; a runtime that has been shut down takes the
\* spawn and drops the task.
SpawnSupervisors(c) ==
  /\ pc[c] = "spawning"
  /\ health' = "ok"
  /\ tasks' = tasks \cup (IF handle[c] \in live THEN {c} ELSE {})
  /\ Goto(c, "publishing")
  /\ UNCHANGED <<runtime, live, daemon, lock, handle, victim, aborted, result>>

PublishDaemon(c) ==
  /\ pc[c] = "publishing"
  /\ daemon' = c
  /\ lock' = None
  /\ Return(c, "ok")
  /\ UNCHANGED <<runtime, live, handle, victim, tasks, aborted, health>>

-----------------------------------------------------------------------------
(* stop_daemon: the DAEMON mutex is held from the first step to the last.  *)

StopNotRunning(c) ==
  /\ pc[c] = "idle"
  /\ lock = None
  /\ daemon = None
  /\ Return(c, "not_running")
  /\ UNCHANGED <<runtime, live, daemon, lock, handle, victim, tasks, aborted, health>>

\* Mutant: a stop goes on with nothing to stop.
TakeDaemonUnchecked(c) ==
  /\ pc[c] = "idle"
  /\ lock = None
  /\ lock' = c
  /\ victim' = [victim EXCEPT ![c] = daemon]
  /\ daemon' = None
  /\ Goto(c, "aborting")
  /\ UNCHANGED <<runtime, live, handle, tasks, aborted, health, result>>

TakeDaemon(c) ==
  /\ pc[c] = "idle"
  /\ lock = None
  /\ daemon # None
  /\ lock' = c
  /\ victim' = [victim EXCEPT ![c] = daemon]
  /\ daemon' = None
  /\ Goto(c, "aborting")
  /\ UNCHANGED <<runtime, live, handle, tasks, aborted, health, result>>

\* Mutant: the tasks are awaited and not aborted.
AbortTasksForgotten(c) ==
  /\ pc[c] = "aborting"
  /\ Goto(c, "taking")
  /\ UNCHANGED <<runtime, live, daemon, lock, handle, victim, tasks, aborted, health, result>>

AbortTasks(c) ==
  /\ pc[c] = "aborting"
  /\ aborted' = aborted \cup {victim[c]}
  /\ Goto(c, "taking")
  /\ UNCHANGED <<runtime, live, daemon, lock, handle, victim, tasks, health, result>>

\* Whatever runtime is current; with none, nothing is awaited or shut down.
TakeRuntime(c) ==
  /\ pc[c] = "taking"
  /\ runtime' = None
  /\ handle' = [handle EXCEPT ![c] = runtime]
  /\ Goto(c, IF runtime = None THEN "marking" ELSE "awaiting")
  /\ UNCHANGED <<live, daemon, lock, victim, tasks, aborted, health, result>>

AwaitTasks(c) ==
  /\ pc[c] = "awaiting"
  /\ victim[c] \notin tasks
  /\ Goto(c, "shutting")
  /\ UNCHANGED <<runtime, live, daemon, lock, handle, victim, tasks, aborted, health, result>>

\* Mutant: the runtime is forgotten without a shutdown.
ShutDownRuntimeForgotten(c) ==
  /\ pc[c] = "shutting"
  /\ Goto(c, "marking")
  /\ UNCHANGED <<runtime, live, daemon, lock, handle, victim, tasks, aborted, health, result>>

\* shutdown_timeout kills every task of the runtime.
ShutDownRuntime(c) ==
  /\ pc[c] = "shutting"
  /\ live' = live \ {handle[c]}
  /\ tasks' = {d \in tasks : handle[d] # handle[c]}
  /\ Goto(c, "marking")
  /\ UNCHANGED <<runtime, daemon, lock, handle, victim, aborted, health, result>>

\* Mutant: the health entry is not written.
MarkStoppedSilently(c) ==
  /\ pc[c] = "marking"
  /\ lock' = None
  /\ Return(c, "ok")
  /\ UNCHANGED <<runtime, live, daemon, handle, victim, tasks, aborted, health>>

MarkStopped(c) ==
  /\ pc[c] = "marking"
  /\ health' = "error"
  /\ lock' = None
  /\ Return(c, "ok")
  /\ UNCHANGED <<runtime, live, daemon, handle, victim, tasks, aborted>>

-----------------------------------------------------------------------------
(* send_message: runtime, then configuration, then block_on.               *)

UseDaemon(c) ==
  /\ pc[c] = "idle"
  /\ \/ Goto(c, "fetching") /\ UNCHANGED result
     \/ Return(c, "invalid")
  /\ UNCHANGED <<runtime, live, daemon, lock, handle, victim, tasks, aborted, health>>

CloneConfig(c) ==
  /\ pc[c] = "fetched"
  /\ lock = None
  /\ IF daemon = None
     THEN Return(c, "not_running")
     ELSE Goto(c, "using") /\ UNCHANGED result
  /\ UNCHANGED <<runtime, live, daemon, lock, handle, victim, tasks, aborted, health>>

\* On a runtime that is gone, timers panic and I/O fails.
FinishUse(c) ==
  /\ pc[c] = "using"
  /\ \/ handle[c] \in live /\ Return(c, "ok")
     \/ handle[c] \notin live /\ Return(c, "runtime_gone")
  /\ UNCHANGED <<runtime, live, daemon, lock, handle, victim, tasks, aborted, health>>

\* An aborted supervisor ends at its next await.
TasksEnd(d) ==
  /\ d \in tasks \cap aborted
  /\ tasks' = tasks \ {d}
  /\ UNCHANGED <<runtime, live, daemon, lock, handle, victim, aborted, health, pc, result>>

\* A panic inside a component ends its supervisor task: nothing catches it.
SupervisorsPanic(d) ==
  /\ d \in tasks
  /\ tasks' = tasks \ {d}
  /\ UNCHANGED <<runtime, live, daemon, lock, handle, victim, aborted, health, pc, result>>

-----------------------------------------------------------------------------
StartStep(c) ==
  \/ FetchRuntime(c) \/ RuntimeNotBuilt(c) \/ LockForStart(c) \/ AlreadyRunning(c)
  \/ SpawnSupervisors(c) \/ PublishDaemon(c)

StopStep(c) ==
  \/ AbortTasks(c) \/ TakeRuntime(c) \/ AwaitTasks(c) \/ ShutDownRuntime(c)
  \/ MarkStopped(c)

UseStep(c) ==
  \/ FetchRuntime(c) \/ RuntimeNotBuilt(c) \/ CloneConfig(c) \/ FinishUse(c)

StopEnter(c) == StopNotRunning(c) \/ TakeDaemon(c)

Next ==
  \/ \E c \in Starters : StartDaemon(c) \/ StartStep(c)
  \/ \E d \in Starters : TasksEnd(d) \/ SupervisorsPanic(d)
  \/ \E c \in Stoppers : StopEnter(c) \/ StopStep(c)
  \/ \E c \in Users : UseDaemon(c) \/ UseStep(c)

Spec == Init /\ [][Next]_vars

\* Threads are scheduled, aborted tasks reach an await, and block_on ends.  The
\* calls are finitely many, so a mutex is in the end free for good.
FairSpec ==
  /\ Spec
  /\ \A c \in Starters : WF_vars(StartStep(c)) /\ WF_vars(TasksEnd(c))
  /\ \A c \in Stoppers : WF_vars(StopStep(c))
  /\ \A c \in Users : WF_vars(UseStep(c))

-----------------------------------------------------------------------------
(* Properties.                                                             *)

TypeOK ==
  /\ runtime \in Runtimes \cup {None}
  /\ live \subseteq Runtimes
  /\ daemon \in Starters \cup {None}
  /\ lock \in Calls \cup {None}
  /\ handle \in [Calls -> Runtimes \cup {None}]
  /\ victim \in [Stoppers -> Starters \cup {None}]
  /\ tasks \subseteq Starters
  /\ aborted \subseteq Starters
  /\ health \in {"unset", "ok", "error"}
  /\ pc \in [Calls -> PCs]
  /\ result \in [Calls -> Results]

\* No orphaned supervisors: tasks alive belong to the daemon in the slot, to
\* the one being published, or to the one a stop is still tearing down.  In
\* particular two daemons never serve at once, and none outlives its stop.
NoOrphanTasks ==
  \A d \in tasks :
    \/ d = daemon
    \/ pc[d] = "publishing"
    \/ \E c \in Stoppers :
         victim[c] = d /\ pc[c] \in {"aborting", "taking", "awaiting"}

\* No runtime leaks: one that has not been shut down is in RUNTIME, where the
\* next stop finds it, or owned by a stop that will shut it down.
NoLeakedRuntime ==
  \A r \in live :
    \/ r = runtime
    \/ \E c \in Stoppers : handle[c] = r /\ pc[c] \in {"awaiting", "shutting"}

\* A stop shuts down the runtime its daemon runs on, never another: as long as
\* the runtime of the daemon in the slot lives, it is the one in RUNTIME.
StopFindsRuntime == daemon # None /\ handle[daemon] \in live => runtime = handle[daemon]

\* Whoever holds no lock sees a health report that agrees with the slot.
HealthAgrees == lock = None => (daemon # None <=> health = "ok")

\* No deadlock between the DAEMON mutex, the RUNTIME mutex and the await of the
\* aborted tasks: every start, stop and use that was entered returns.
EveryCallReturns == \A c \in Calls : pc[c] # "idle" ~> pc[c] = "done"
=============================================================================
