----------------------- MODULE DaemonLifecycleProofs -----------------------
(***************************************************************************)
(* Safety of DaemonLifecycle for any sets of calls.                        *)
(*                                                                         *)
(* The argument rests on who owns what.  The DAEMON mutex is held exactly  *)
(* at the points LockPoints, so at most one start or stop is there and the *)
(* slot is empty meanwhile (LockInv).  A runtime that has not been shut    *)
(* down is the current one or is owned by the stop at those points         *)
(* (RuntimeInv), and live tasks run on a live runtime (TaskInv); hence a   *)
(* stop that finds no current runtime finds no live tasks either.          *)
(***************************************************************************)
EXTENDS DaemonLifecycleSlot, TLAPS

LockPoints == {"spawning", "publishing", "aborting", "taking", "awaiting",
               "shutting", "marking"}
StopPoints == {"aborting", "taking", "awaiting", "shutting", "marking"}
Owning == {"awaiting", "shutting"}

PointInv ==
  /\ \A c \in Starters : pc[c] \notin StopPoints \cup {"using"}
  /\ \A c \in Stoppers : pc[c] \in StopPoints \cup {"idle", "done"}
  /\ \A c \in Users : pc[c] \notin LockPoints
  /\ \A c \in Stoppers : pc[c] \in StopPoints => victim[c] \in Starters

LockInv ==
  /\ \A c \in Calls : pc[c] \in LockPoints <=> lock = c
  /\ lock # None => daemon = None

\* A call that has not fetched a runtime yet has built none.
FreshInv ==
  /\ runtime # None => pc[runtime] \notin {"idle", "fetching"}
  /\ \A r \in live : pc[r] \notin {"idle", "fetching"}
  /\ \A c \in Calls : handle[c] # None => pc[handle[c]] \notin {"idle", "fetching"}

RuntimeInv ==
  /\ runtime # None => runtime \in live
  /\ \A c \in Stoppers : pc[c] \in Owning => handle[c] # runtime
  /\ NoLeakedRuntime

TaskInv ==
  /\ \A d \in tasks : pc[d] \in {"publishing", "done"} /\ handle[d] \in live
  /\ NoOrphanTasks

HealthInv ==
  /\ HealthAgrees
  /\ \A c \in Starters : pc[c] = "publishing" => health = "ok"

IInv == TypeOK /\ PointInv /\ LockInv /\ FreshInv /\ RuntimeInv /\ TaskInv /\ HealthInv

-----------------------------------------------------------------------------
(* Every variable keeps its type.                                          *)

\* No step of runtime.rs takes a variable out of its type.
LEMMA TypeStep == TypeOK /\ PointInv /\ [Next]_vars => TypeOK'
<1> SUFFICES ASSUME TypeOK, PointInv, [Next]_vars PROVE TypeOK'
  OBVIOUS
<1> USE DEF TypeOK, Calls, Runtimes, PCs, Results, Goto, Return
<1>1. ASSUME NEW c \in Starters, StartDaemon(c) PROVE TypeOK'
  BY <1>1 DEF StartDaemon
<1>2. ASSUME NEW c \in Starters \cup Users, FetchRuntime(c) \/ RuntimeNotBuilt(c)
      PROVE  TypeOK'
  BY <1>2 DEF FetchRuntime, RuntimeNotBuilt
<1>3. ASSUME NEW c \in Starters,
             LockForStart(c) \/ AlreadyRunning(c) \/ SpawnSupervisors(c) \/ PublishDaemon(c)
      PROVE  TypeOK'
  BY <1>3 DEF LockForStart, AlreadyRunning, SpawnSupervisors, PublishDaemon
<1>4. ASSUME NEW d \in Starters, TasksEnd(d) \/ SupervisorsPanic(d) PROVE TypeOK'
  BY <1>4 DEF TasksEnd, SupervisorsPanic
<1>5. ASSUME NEW c \in Stoppers, StopNotRunning(c) \/ TakeDaemon(c) \/ AbortTasks(c)
      PROVE  TypeOK'
  <2>1. CASE StopNotRunning(c)
    BY <2>1 DEF StopNotRunning
  <2>2. CASE TakeDaemon(c)
    BY <2>2 DEF TakeDaemon
  <2>3. CASE AbortTasks(c)
    <3>1. victim[c] \in Starters
      BY <2>3 DEF AbortTasks, PointInv, StopPoints
    <3> QED BY <2>3, <3>1 DEF AbortTasks
  <2> QED BY <1>5, <2>1, <2>2, <2>3
<1>6. ASSUME NEW c \in Stoppers,
             TakeRuntime(c) \/ AwaitTasks(c) \/ ShutDownRuntime(c) \/ MarkStopped(c)
      PROVE  TypeOK'
  BY <1>6 DEF TakeRuntime, AwaitTasks, ShutDownRuntime, MarkStopped
<1>7. ASSUME NEW c \in Users, UseDaemon(c) \/ CloneConfig(c) \/ FinishUse(c)
      PROVE  TypeOK'
  BY <1>7 DEF UseDaemon, CloneConfig, FinishUse
<1>8. CASE UNCHANGED vars
  BY <1>8 DEF vars
<1> QED
  BY <1>1, <1>2, <1>3, <1>4, <1>5, <1>6, <1>7, <1>8
     DEF Next, StartStep, StopEnter, StopStep, UseStep

-----------------------------------------------------------------------------
(* Where the calls are, and what they have fetched.                        *)

\* A call is only at points its own function has, and a stop past its entry has
\* a daemon to tear down.
LEMMA PointStep == TypeOK /\ PointInv /\ [Next]_vars => PointInv'
<1> SUFFICES ASSUME TypeOK, PointInv, [Next]_vars PROVE PointInv'
  OBVIOUS
<1> USE CallsAssumption
     DEF TypeOK, PointInv, Calls, PCs, Goto, Return, StopPoints, LockPoints
<1>1. ASSUME NEW c \in Starters, StartDaemon(c) PROVE PointInv'
  BY <1>1 DEF StartDaemon
<1>2. ASSUME NEW c \in Starters, StartStep(c) PROVE PointInv'
  BY <1>2 DEF StartStep, FetchRuntime, RuntimeNotBuilt, LockForStart, AlreadyRunning,
              SpawnSupervisors, PublishDaemon
<1>3. ASSUME NEW d \in Starters, TasksEnd(d) \/ SupervisorsPanic(d) PROVE PointInv'
  BY <1>3 DEF TasksEnd, SupervisorsPanic
<1>4. ASSUME NEW c \in Stoppers, StopEnter(c) PROVE PointInv'
  BY <1>4 DEF StopEnter, StopNotRunning, TakeDaemon
<1>5. ASSUME NEW c \in Stoppers, StopStep(c) PROVE PointInv'
  BY <1>5 DEF StopStep, AbortTasks, TakeRuntime, AwaitTasks, ShutDownRuntime, MarkStopped
<1>6. ASSUME NEW c \in Users, UseDaemon(c) \/ UseStep(c) PROVE PointInv'
  BY <1>6 DEF UseDaemon, UseStep, FetchRuntime, RuntimeNotBuilt, CloneConfig, FinishUse
<1>7. CASE UNCHANGED vars
  BY <1>7 DEF vars
<1> QED
  BY <1>1, <1>2, <1>3, <1>4, <1>5, <1>6, <1>7 DEF Next

\* No runtime carries the name of a call that has not fetched one yet, so a name
\* is given to one runtime only.
LEMMA FreshStep == TypeOK /\ PointInv /\ FreshInv /\ [Next]_vars => FreshInv'
<1> SUFFICES ASSUME TypeOK, PointInv, FreshInv, [Next]_vars PROVE FreshInv'
  OBVIOUS
<1> USE CallsAssumption DEF TypeOK, FreshInv, Calls, Runtimes, PCs, Goto, Return
<1>1. ASSUME NEW c \in Starters \cup Users, FetchRuntime(c) PROVE FreshInv'
  BY <1>1 DEF FetchRuntime
<1>2. ASSUME NEW c \in Starters \cup Users, RuntimeNotBuilt(c) PROVE FreshInv'
  BY <1>2 DEF RuntimeNotBuilt
<1>3. ASSUME NEW c \in Starters,
             \/ StartDaemon(c) \/ LockForStart(c) \/ AlreadyRunning(c)
             \/ SpawnSupervisors(c) \/ PublishDaemon(c)
      PROVE  FreshInv'
  BY <1>3 DEF StartDaemon, LockForStart, AlreadyRunning, SpawnSupervisors, PublishDaemon
<1>4. ASSUME NEW d \in Starters, TasksEnd(d) \/ SupervisorsPanic(d) PROVE FreshInv'
  BY <1>4 DEF TasksEnd, SupervisorsPanic
<1>5. ASSUME NEW c \in Stoppers, StopEnter(c) \/ AbortTasks(c) \/ AwaitTasks(c)
                                 \/ ShutDownRuntime(c) \/ MarkStopped(c)
      PROVE  FreshInv'
  BY <1>5 DEF StopEnter, StopNotRunning, TakeDaemon, AbortTasks, AwaitTasks,
              ShutDownRuntime, MarkStopped
<1>6. ASSUME NEW c \in Stoppers, TakeRuntime(c) PROVE FreshInv'
  BY <1>6 DEF TakeRuntime
<1>7. ASSUME NEW c \in Users, UseDaemon(c) \/ CloneConfig(c) \/ FinishUse(c)
      PROVE  FreshInv'
  BY <1>7 DEF UseDaemon, CloneConfig, FinishUse
<1>8. CASE UNCHANGED vars
  BY <1>8 DEF vars
<1> QED
  BY <1>1, <1>2, <1>3, <1>4, <1>5, <1>6, <1>7, <1>8
     DEF Next, StartStep, StopStep, UseStep

-----------------------------------------------------------------------------
(* The DAEMON mutex.                                                       *)

\* Whoever is inside the DAEMON section is the one call that holds the mutex.
LEMMA LockStep == TypeOK /\ PointInv /\ LockInv /\ [Next]_vars => LockInv'
<1> SUFFICES ASSUME TypeOK, PointInv, LockInv, [Next]_vars PROVE LockInv'
  OBVIOUS
<1> USE CallsAssumption
     DEF TypeOK, PointInv, LockInv, Calls, PCs, Goto, Return, StopPoints, LockPoints
<1>1. ASSUME NEW c \in Starters \cup Users, FetchRuntime(c) \/ RuntimeNotBuilt(c)
      PROVE  LockInv'
  BY <1>1 DEF FetchRuntime, RuntimeNotBuilt
<1>2. ASSUME NEW c \in Starters, StartDaemon(c) \/ AlreadyRunning(c) \/ SpawnSupervisors(c)
      PROVE  LockInv'
  BY <1>2 DEF StartDaemon, AlreadyRunning, SpawnSupervisors
<1>3. ASSUME NEW c \in Starters, LockForStart(c) PROVE LockInv'
  BY <1>3 DEF LockForStart
<1>4. ASSUME NEW c \in Starters, PublishDaemon(c) PROVE LockInv'
  BY <1>4 DEF PublishDaemon
<1>5. ASSUME NEW d \in Starters, TasksEnd(d) \/ SupervisorsPanic(d) PROVE LockInv'
  BY <1>5 DEF TasksEnd, SupervisorsPanic
<1>6. ASSUME NEW c \in Stoppers, StopNotRunning(c) PROVE LockInv'
  BY <1>6 DEF StopNotRunning
<1>7. ASSUME NEW c \in Stoppers, TakeDaemon(c) PROVE LockInv'
  BY <1>7 DEF TakeDaemon
<1>8. ASSUME NEW c \in Stoppers,
             AbortTasks(c) \/ TakeRuntime(c) \/ AwaitTasks(c) \/ ShutDownRuntime(c)
      PROVE  LockInv'
  BY <1>8 DEF AbortTasks, TakeRuntime, AwaitTasks, ShutDownRuntime
<1>9. ASSUME NEW c \in Stoppers, MarkStopped(c) PROVE LockInv'
  BY <1>9 DEF MarkStopped
<1>10. ASSUME NEW c \in Users, UseDaemon(c) \/ CloneConfig(c) \/ FinishUse(c)
       PROVE  LockInv'
  BY <1>10 DEF UseDaemon, CloneConfig, FinishUse
<1>11. CASE UNCHANGED vars
  BY <1>11 DEF vars
<1> QED
  BY <1>1, <1>2, <1>3, <1>4, <1>5, <1>6, <1>7, <1>8, <1>9, <1>10, <1>11
     DEF Next, StartStep, StopEnter, StopStep, UseStep

-----------------------------------------------------------------------------
(* The RUNTIME slot and who owns a runtime.                                *)

\* A live runtime is in RUNTIME or with the stop that took it out, and a stop
\* holds only what it took.
LEMMA RuntimeStep ==
  TypeOK /\ PointInv /\ LockInv /\ FreshInv /\ RuntimeInv /\ [Next]_vars => RuntimeInv'
<1> SUFFICES ASSUME TypeOK, PointInv, LockInv, FreshInv, RuntimeInv, [Next]_vars
             PROVE  RuntimeInv'
  OBVIOUS
<1> USE CallsAssumption
     DEF TypeOK, PointInv, RuntimeInv, NoLeakedRuntime, Owning, Calls, Runtimes,
         PCs, Goto, Return, StopPoints
<1>1. ASSUME NEW c \in Starters \cup Users, FetchRuntime(c) PROVE RuntimeInv'
  <2>1. CASE runtime = None
    BY <1>1, <2>1 DEF FetchRuntime, FreshInv
  <2>2. CASE runtime # None
    BY <1>1, <2>2 DEF FetchRuntime
  <2> QED BY <2>1, <2>2
<1>2. ASSUME NEW c \in Starters \cup Users, RuntimeNotBuilt(c) PROVE RuntimeInv'
  BY <1>2 DEF RuntimeNotBuilt
<1>3. ASSUME NEW c \in Starters,
             \/ StartDaemon(c) \/ LockForStart(c) \/ AlreadyRunning(c)
             \/ SpawnSupervisors(c) \/ PublishDaemon(c)
      PROVE  RuntimeInv'
  BY <1>3 DEF StartDaemon, LockForStart, AlreadyRunning, SpawnSupervisors, PublishDaemon
<1>4. ASSUME NEW d \in Starters, TasksEnd(d) \/ SupervisorsPanic(d) PROVE RuntimeInv'
  BY <1>4 DEF TasksEnd, SupervisorsPanic
<1>5. ASSUME NEW c \in Stoppers,
             \/ StopNotRunning(c) \/ TakeDaemon(c) \/ AbortTasks(c) \/ AwaitTasks(c)
             \/ MarkStopped(c)
      PROVE  RuntimeInv'
  BY <1>5 DEF StopNotRunning, TakeDaemon, AbortTasks, AwaitTasks, MarkStopped
<1>6. ASSUME NEW c \in Stoppers, TakeRuntime(c) PROVE RuntimeInv'
  <2>1. \A x \in Stoppers : x # c => pc[x] \notin Owning
    BY <1>6 DEF LockInv, LockPoints, TakeRuntime
  <2>2. handle'[c] = runtime /\ runtime' = None /\ live' = live
    BY <1>6 DEF TakeRuntime
  <2>3. runtime # None => pc'[c] = "awaiting"
    BY <1>6 DEF TakeRuntime
  <2>4. \A x \in Stoppers : pc'[x] \in Owning => handle'[x] # runtime'
    <3>1. runtime = None => pc'[c] = "marking"
      BY <1>6 DEF TakeRuntime
    <3> QED BY <1>6, <2>1, <2>2, <3>1 DEF TakeRuntime
  <2>5. NoLeakedRuntime'
    BY <1>6, <2>1, <2>2, <2>3 DEF TakeRuntime
  <2> QED BY <2>2, <2>4, <2>5
<1>7. ASSUME NEW c \in Stoppers, ShutDownRuntime(c) PROVE RuntimeInv'
  <2>1. \A x \in Stoppers : x # c => pc[x] \notin Owning
    BY <1>7 DEF LockInv, LockPoints, ShutDownRuntime
  <2> QED BY <1>7, <2>1 DEF ShutDownRuntime
<1>8. ASSUME NEW c \in Users, UseDaemon(c) \/ CloneConfig(c) \/ FinishUse(c)
      PROVE  RuntimeInv'
  BY <1>8 DEF UseDaemon, CloneConfig, FinishUse
<1>9. CASE UNCHANGED vars
  BY <1>9 DEF vars
<1> QED
  BY <1>1, <1>2, <1>3, <1>4, <1>5, <1>6, <1>7, <1>8, <1>9
     DEF Next, StartStep, StopEnter, StopStep, UseStep

-----------------------------------------------------------------------------
(* Supervisor tasks: they run on a live runtime and have an owner.         *)

\* Live supervisor tasks sit on a live runtime and belong to the daemon being
\* published, served or torn down.
LEMMA TaskStep ==
  TypeOK /\ PointInv /\ LockInv /\ FreshInv /\ RuntimeInv /\ TaskInv /\ [Next]_vars => TaskInv'
<1> SUFFICES ASSUME TypeOK, PointInv, LockInv, FreshInv, RuntimeInv, TaskInv, [Next]_vars
             PROVE  TaskInv'
  OBVIOUS
<1> USE CallsAssumption
     DEF TypeOK, TaskInv, NoOrphanTasks, Calls, Runtimes, PCs, Goto, Return
<1>1. ASSUME NEW c \in Starters \cup Users, FetchRuntime(c) PROVE TaskInv'
  <2>1. c \notin tasks
    BY <1>1 DEF FetchRuntime
  <2> QED BY <1>1, <2>1 DEF FetchRuntime
<1>2. ASSUME NEW c \in Starters \cup Users, RuntimeNotBuilt(c) PROVE TaskInv'
  BY <1>2 DEF RuntimeNotBuilt
<1>3. ASSUME NEW c \in Starters, StartDaemon(c) \/ LockForStart(c) \/ AlreadyRunning(c)
      PROVE  TaskInv'
  BY <1>3 DEF StartDaemon, LockForStart, AlreadyRunning
<1>4. ASSUME NEW c \in Starters, SpawnSupervisors(c) PROVE TaskInv'
  BY <1>4 DEF SpawnSupervisors
<1>5. ASSUME NEW c \in Starters, PublishDaemon(c) PROVE TaskInv'
  BY <1>5 DEF PublishDaemon, LockInv, LockPoints
<1>6. ASSUME NEW d \in Starters, TasksEnd(d) \/ SupervisorsPanic(d) PROVE TaskInv'
  BY <1>6 DEF TasksEnd, SupervisorsPanic
<1>7. ASSUME NEW c \in Stoppers, StopNotRunning(c) \/ TakeDaemon(c) \/ AbortTasks(c)
      PROVE  TaskInv'
  BY <1>7 DEF StopNotRunning, TakeDaemon, AbortTasks
<1>8. ASSUME NEW c \in Stoppers, TakeRuntime(c) PROVE TaskInv'
  <2>1. \A x \in Stoppers : x # c => pc[x] \notin Owning
    BY <1>8 DEF LockInv, LockPoints, Owning, TakeRuntime
  <2>2. CASE runtime = None
    <3>1. tasks = {}
      BY <1>8, <2>1, <2>2 DEF RuntimeInv, NoLeakedRuntime, Owning, TakeRuntime
    <3> QED BY <1>8, <3>1 DEF TakeRuntime
  <2>3. CASE runtime # None
    BY <1>8, <2>3 DEF TakeRuntime
  <2> QED BY <2>2, <2>3
<1>9. ASSUME NEW c \in Stoppers, AwaitTasks(c) PROVE TaskInv'
  BY <1>9 DEF AwaitTasks
<1>10. ASSUME NEW c \in Stoppers, ShutDownRuntime(c) \/ MarkStopped(c) PROVE TaskInv'
  BY <1>10 DEF ShutDownRuntime, MarkStopped
<1>11. ASSUME NEW c \in Users, UseDaemon(c) \/ CloneConfig(c) \/ FinishUse(c)
       PROVE  TaskInv'
  BY <1>11 DEF UseDaemon, CloneConfig, FinishUse
<1>12. CASE UNCHANGED vars
  BY <1>12 DEF vars
<1> QED
  BY <1>1, <1>2, <1>3, <1>4, <1>5, <1>6, <1>7, <1>8, <1>9, <1>10, <1>11, <1>12
     DEF Next, StartStep, StopEnter, StopStep, UseStep

-----------------------------------------------------------------------------
(* The health entry is written under the DAEMON mutex only.                *)

\* The health entry follows the DAEMON slot whenever the mutex is free.
LEMMA HealthStep ==
  TypeOK /\ PointInv /\ LockInv /\ HealthInv /\ [Next]_vars => HealthInv'
<1> SUFFICES ASSUME TypeOK, PointInv, LockInv, HealthInv, [Next]_vars PROVE HealthInv'
  OBVIOUS
<1> USE CallsAssumption
     DEF TypeOK, PointInv, LockInv, HealthInv, HealthAgrees, Calls, PCs, Goto, Return,
         StopPoints, LockPoints
<1>1. ASSUME NEW c \in Starters \cup Users, FetchRuntime(c) \/ RuntimeNotBuilt(c)
      PROVE  HealthInv'
  BY <1>1 DEF FetchRuntime, RuntimeNotBuilt
<1>2. ASSUME NEW c \in Starters, StartDaemon(c) \/ LockForStart(c) \/ AlreadyRunning(c)
      PROVE  HealthInv'
  BY <1>2 DEF StartDaemon, LockForStart, AlreadyRunning
<1>3. ASSUME NEW c \in Starters, SpawnSupervisors(c) \/ PublishDaemon(c) PROVE HealthInv'
  BY <1>3 DEF SpawnSupervisors, PublishDaemon
<1>4. ASSUME NEW d \in Starters, TasksEnd(d) \/ SupervisorsPanic(d) PROVE HealthInv'
  BY <1>4 DEF TasksEnd, SupervisorsPanic
<1>5. ASSUME NEW c \in Stoppers, StopEnter(c) \/ StopStep(c) PROVE HealthInv'
  BY <1>5 DEF StopEnter, StopNotRunning, TakeDaemon, StopStep, AbortTasks, TakeRuntime,
              AwaitTasks, ShutDownRuntime, MarkStopped
<1>6. ASSUME NEW c \in Users, UseDaemon(c) \/ CloneConfig(c) \/ FinishUse(c)
      PROVE  HealthInv'
  BY <1>6 DEF UseDaemon, CloneConfig, FinishUse
<1>7. CASE UNCHANGED vars
  BY <1>7 DEF vars
<1> QED
  BY <1>1, <1>2, <1>3, <1>4, <1>5, <1>6, <1>7 DEF Next, StartStep, UseStep

-----------------------------------------------------------------------------
(* The inductive invariant and what follows from it.                       *)

\* IInv holds in every state the starts, stops and uses can reach.
THEOREM Invariance == Spec => []IInv
<1>1. Init => IInv
  <2> SUFFICES ASSUME Init PROVE IInv
    OBVIOUS
  <2> USE CallsAssumption DEF Init, Calls, Runtimes
  <2>1. TypeOK
    BY DEF TypeOK, PCs, Results
  <2>2. PointInv /\ LockInv /\ FreshInv
    BY DEF PointInv, LockInv, FreshInv, StopPoints, LockPoints
  <2>3. RuntimeInv /\ TaskInv /\ HealthInv
    BY DEF RuntimeInv, TaskInv, HealthInv, NoLeakedRuntime, NoOrphanTasks, HealthAgrees,
           Owning
  <2> QED BY <2>1, <2>2, <2>3 DEF IInv
<1>2. IInv /\ [Next]_vars => IInv'
  BY TypeStep, PointStep, LockStep, FreshStep, RuntimeStep, TaskStep, HealthStep DEF IInv
<1> QED BY <1>1, <1>2, PTL DEF Spec

\* Every variable of the daemon keeps its type, for any sets of calls.
THEOREM TypeCorrect == Spec => []TypeOK
<1>1. IInv => TypeOK
  BY DEF IInv
<1> QED BY <1>1, Invariance, PTL

\* No supervisor task outlives the stop of its daemon, and two daemons never
\* serve at once, however starts, stops and uses interleave.
THEOREM NoOrphans == Spec => []NoOrphanTasks
<1>1. IInv => NoOrphanTasks
  BY DEF IInv, TaskInv
<1> QED BY <1>1, Invariance, PTL

\* A runtime that was built stays reachable until it is shut down.
THEOREM NoRuntimeLeaks == Spec => []NoLeakedRuntime
<1>1. IInv => NoLeakedRuntime
  BY DEF IInv, RuntimeInv
<1> QED BY <1>1, Invariance, PTL

\* The runtime that stop_daemon finds is the one its daemon runs on: with a
\* daemon in the slot nobody holds the mutex, so no stop owns that runtime.
THEOREM StopFinds == Spec => []StopFindsRuntime
<1>1. IInv => StopFindsRuntime
  <2> SUFFICES ASSUME IInv, daemon # None, handle[daemon] \in live
               PROVE  runtime = handle[daemon]
    BY DEF StopFindsRuntime
  <2>1. \A c \in Stoppers : pc[c] \notin Owning
    BY CallsAssumption DEF IInv, TypeOK, LockInv, LockPoints, Owning, Calls
  <2> QED BY <2>1 DEF IInv, RuntimeInv, NoLeakedRuntime, Owning
<1> QED BY <1>1, Invariance, PTL

\* With the DAEMON mutex free, the health entry says whether a daemon runs.
THEOREM HealthIsTrue == Spec => []HealthAgrees
<1>1. IInv => HealthAgrees
  BY DEF IInv, HealthInv
<1> QED BY <1>1, Invariance, PTL

-----------------------------------------------------------------------------
(* A stop that has returned has stopped its daemon.                        *)

\* The stop of a daemon, from the moment it takes the daemon out of the slot, is on
\* its way to shut down the runtime the daemon was started on, unless that runtime
\* is gone already.
OnItsWay(z) ==
  LET home == handle[victim[z]]
  IN  /\ pc[z] # "idle" /\ pc[victim[z]] = "done" /\ home # None
      /\ home \in live => \/ pc[z] \in {"aborting", "taking"} /\ runtime = home
                          \/ pc[z] \in Owning /\ handle[z] = home

TearDownInv == \A z \in Stoppers : victim[z] # None => OnItsWay(z)

\* The daemon in the slot, and one about to be, was started on some runtime.
HomeInv ==
  /\ daemon # None => pc[daemon] = "done" /\ handle[daemon] # None
  /\ \A c \in Starters \cup Users : pc[c] \in {"fetched", "spawning", "publishing", "using"}
                                   => handle[c] # None

\* The daemon's runtime is the current one, or gone: a corollary of NoLeakedRuntime
\* at a moment when no stop is past its entry.
LEMMA SlotRuntime ==
  ASSUME IInv, lock = None, daemon # None, handle[daemon] \in live
  PROVE  runtime = handle[daemon]
<1>1. \A c \in Stoppers : pc[c] \notin Owning
  BY CallsAssumption DEF IInv, TypeOK, LockInv, LockPoints, Owning, Calls
<1> QED BY <1>1 DEF IInv, RuntimeInv, NoLeakedRuntime, Owning

\* What is in the slot, or about to be, has a runtime.
LEMMA HomeStep == IInv /\ HomeInv /\ [Next]_vars => HomeInv'
<1> SUFFICES ASSUME IInv, HomeInv, [Next]_vars PROVE HomeInv'
  OBVIOUS
<1> USE CallsAssumption
     DEF IInv, TypeOK, PointInv, HomeInv, Calls, Runtimes, PCs, Goto, Return, StopPoints,
         LockPoints
<1>1. ASSUME NEW c \in Starters \cup Users, FetchRuntime(c) \/ RuntimeNotBuilt(c)
      PROVE  HomeInv'
  BY <1>1 DEF FetchRuntime, RuntimeNotBuilt
<1>2. ASSUME NEW c \in Starters, StartDaemon(c) \/ LockForStart(c) \/ AlreadyRunning(c)
                                 \/ SpawnSupervisors(c) \/ PublishDaemon(c)
      PROVE  HomeInv'
  BY <1>2 DEF StartDaemon, LockForStart, AlreadyRunning, SpawnSupervisors, PublishDaemon
<1>3. ASSUME NEW d \in Starters, TasksEnd(d) \/ SupervisorsPanic(d) PROVE HomeInv'
  BY <1>3 DEF TasksEnd, SupervisorsPanic
<1>4. ASSUME NEW c \in Stoppers, StopEnter(c) \/ AbortTasks(c) \/ AwaitTasks(c)
                                 \/ ShutDownRuntime(c) \/ MarkStopped(c)
      PROVE  HomeInv'
  BY <1>4 DEF StopEnter, StopNotRunning, TakeDaemon, AbortTasks, AwaitTasks,
              ShutDownRuntime, MarkStopped
<1>5. ASSUME NEW c \in Stoppers, TakeRuntime(c) PROVE HomeInv'
  BY <1>5 DEF TakeRuntime
<1>6. ASSUME NEW c \in Users, UseDaemon(c) \/ CloneConfig(c) \/ FinishUse(c)
      PROVE  HomeInv'
  BY <1>6 DEF UseDaemon, CloneConfig, FinishUse
<1>7. CASE UNCHANGED vars
  BY <1>7 DEF vars
<1> QED
  BY <1>1, <1>2, <1>3, <1>4, <1>5, <1>6, <1>7 DEF Next, StartStep, StopStep, UseStep

\* A stop stays on its way to the runtime of its daemon: only the stop that holds
\* the mutex empties RUNTIME, and a runtime built meanwhile is a new one.
LEMMA TearDownStep == IInv /\ HomeInv /\ TearDownInv /\ [Next]_vars => TearDownInv'
<1> SUFFICES ASSUME IInv, HomeInv, TearDownInv, [Next]_vars,
                    NEW z \in Stoppers, victim'[z] # None
             PROVE  OnItsWay(z)'
  BY DEF TearDownInv
<1>t. TypeOK /\ PointInv /\ LockInv /\ FreshInv
  BY DEF IInv
<1> USE CallsAssumption, <1>t
     DEF TypeOK, PointInv, Calls, Runtimes, PCs, Goto, Return, StopPoints, LockPoints
<1>w. victim[z] # None => OnItsWay(z) /\ victim[z] \in Starters
  BY DEF TearDownInv
<1>1. ASSUME NEW c \in Starters \cup Users, FetchRuntime(c) \/ RuntimeNotBuilt(c)
      PROVE  OnItsWay(z)'
  <2>1. OnItsWay(z) /\ victim[z] \in Starters /\ victim' = victim /\ c # z /\ pc[c] = "fetching"
    BY <1>1, <1>w DEF FetchRuntime, RuntimeNotBuilt
  <2>2. victim[z] # c /\ handle[victim[z]] # c
    BY <2>1 DEF FreshInv, OnItsWay
  <2> QED BY <1>1, <2>1, <2>2 DEF FetchRuntime, RuntimeNotBuilt, OnItsWay
<1>2. ASSUME NEW c \in Starters, StartDaemon(c) \/ LockForStart(c) \/ AlreadyRunning(c)
                                 \/ SpawnSupervisors(c) \/ PublishDaemon(c)
      PROVE  OnItsWay(z)'
  <2>1. /\ victim' = victim /\ UNCHANGED <<live, runtime, handle>> /\ pc'[z] = pc[z]
        /\ \A x \in Starters : pc[x] = "done" => pc'[x] = "done"
    BY <1>2 DEF StartDaemon, LockForStart, AlreadyRunning, SpawnSupervisors, PublishDaemon
  <2> QED BY <2>1, <1>w DEF OnItsWay
<1>3. ASSUME NEW d \in Starters, TasksEnd(d) \/ SupervisorsPanic(d) PROVE OnItsWay(z)'
  BY <1>3, <1>w DEF TasksEnd, SupervisorsPanic, OnItsWay
<1>4. ASSUME NEW c \in Stoppers, StopNotRunning(c) PROVE OnItsWay(z)'
  BY <1>4, <1>w DEF StopNotRunning, OnItsWay
<1>5. ASSUME NEW c \in Stoppers, TakeDaemon(c) PROVE OnItsWay(z)'
  <2>1. CASE c = z
    <3>1. pc[daemon] = "done" /\ handle[daemon] # None
      BY <1>5 DEF TakeDaemon, HomeInv
    <3>2. handle[daemon] \in live => runtime = handle[daemon]
      BY <1>5, SlotRuntime DEF TakeDaemon
    <3>3. victim'[z] = daemon /\ pc'[z] = "aborting" /\ daemon \in Starters
          /\ UNCHANGED <<live, runtime, handle>>
      BY <1>5, <2>1 DEF TakeDaemon
    <3>4. pc'[daemon] = pc[daemon]
      BY <1>5, <3>3 DEF TakeDaemon
    <3> QED BY <3>1, <3>2, <3>3, <3>4 DEF OnItsWay
  <2>2. CASE c # z
    BY <1>5, <2>2, <1>w DEF TakeDaemon, OnItsWay
  <2> QED BY <2>1, <2>2
<1>6. ASSUME NEW c \in Stoppers, AbortTasks(c) \/ AwaitTasks(c) PROVE OnItsWay(z)'
  BY <1>6, <1>w DEF AbortTasks, AwaitTasks, OnItsWay, Owning
<1>7. ASSUME NEW c \in Stoppers, TakeRuntime(c) PROVE OnItsWay(z)'
  <2>1. /\ OnItsWay(z) /\ victim[z] \in Starters /\ UNCHANGED <<victim, live>>
        /\ pc'[victim[z]] = pc[victim[z]] /\ handle'[victim[z]] = handle[victim[z]]
    BY <1>7, <1>w DEF TakeRuntime
  <2>2. CASE c = z
    BY <1>7, <2>1, <2>2 DEF TakeRuntime, OnItsWay, Owning
  <2>3. CASE c # z
    <3>1. pc[z] \notin LockPoints
      BY <1>7, <2>3 DEF TakeRuntime, LockInv
    <3> QED BY <1>7, <2>1, <2>3, <3>1 DEF TakeRuntime, OnItsWay, Owning
  <2> QED BY <2>2, <2>3
<1>8. ASSUME NEW c \in Stoppers, ShutDownRuntime(c) PROVE OnItsWay(z)'
  <2>1. /\ OnItsWay(z) /\ victim[z] \in Starters /\ UNCHANGED <<victim, runtime, handle>>
        /\ pc'[victim[z]] = pc[victim[z]] /\ live' = live \ {handle[c]}
        /\ pc[c] = "shutting" /\ pc'[c] = "marking"
    BY <1>8, <1>w DEF ShutDownRuntime
  <2>2. CASE c = z
    BY <2>1, <2>2 DEF OnItsWay, Owning
  <2>3. CASE c # z
    BY <1>8, <2>1, <2>3 DEF ShutDownRuntime, OnItsWay
  <2> QED BY <2>2, <2>3
<1>9. ASSUME NEW c \in Stoppers, MarkStopped(c) PROVE OnItsWay(z)'
  BY <1>9, <1>w DEF MarkStopped, OnItsWay, Owning
<1>10. ASSUME NEW c \in Users, UseDaemon(c) \/ CloneConfig(c) \/ FinishUse(c)
       PROVE  OnItsWay(z)'
  BY <1>10, <1>w DEF UseDaemon, CloneConfig, FinishUse, OnItsWay
<1>11. CASE UNCHANGED vars
  BY <1>11, <1>w DEF vars, OnItsWay
<1> QED
  BY <1>1, <1>2, <1>3, <1>4, <1>5, <1>6, <1>7, <1>8, <1>9, <1>10, <1>11
     DEF Next, StartStep, StopEnter, StopStep, UseStep

\* What a stop leaves behind when it has written the health entry: the runtime its
\* daemon was started on is shut down and none of the daemon's tasks is alive.
StoppedForGood ==
  \A z \in Stoppers :
    victim[z] # None /\ pc[z] \in {"marking", "done"} =>
      handle[victim[z]] \notin live /\ victim[z] \notin tasks

\* stop_daemon returns only when its daemon is gone, whichever runtime it found in
\* RUNTIME and whatever the calls that borrow the runtime do meanwhile.
THEOREM StopsForGood == Spec => []StoppedForGood
<1>1. Init => HomeInv /\ TearDownInv
  BY DEF Init, HomeInv, TearDownInv, Calls
<1>2. IInv /\ HomeInv /\ TearDownInv /\ [Next]_vars => HomeInv' /\ TearDownInv'
  BY HomeStep, TearDownStep
<1>3. IInv /\ TearDownInv => StoppedForGood
  <2> SUFFICES ASSUME IInv, TearDownInv, NEW z \in Stoppers, victim[z] # None,
                      pc[z] \in {"marking", "done"}
               PROVE  handle[victim[z]] \notin live /\ victim[z] \notin tasks
    BY DEF StoppedForGood
  <2>1. OnItsWay(z)
    BY DEF TearDownInv
  <2>2. handle[victim[z]] \notin live
    BY <2>1 DEF OnItsWay, Owning
  <2> QED BY <2>2 DEF IInv, TaskInv
<1> QED BY <1>1, <1>2, <1>3, Invariance, PTL DEF Spec

-----------------------------------------------------------------------------
(* A runtime is gone only because a stop shut it down.                     *)

Stopped(r) == \E z \in Stoppers : handle[z] = r /\ pc[z] \in {"marking", "done"}

GoneInv ==
  /\ \A c \in Starters \cup Users : handle[c] # None => handle[c] \in live \/ Stopped(handle[c])
  /\ \A c \in Users : /\ pc[c] \in {"fetched", "using"} => handle[c] # None
                      /\ result[c] = "runtime_gone" =>
                           pc[c] = "done" /\ handle[c] # None /\ handle[c] \notin live

\* A use that ends with "runtime_gone" was cut by a stop that has shut down the very
\* runtime the use had borrowed.
GoneMeansStopped == \A c \in Users : result[c] = "runtime_gone" => Stopped(handle[c])

\* A stop that has shut a runtime down keeps its name, so the runtime stays accounted for.
LEMMA StoppedStays ==
  ASSUME TypeOK, PointInv, [Next]_vars, NEW r, Stopped(r)
  PROVE  Stopped(r)'
<1>1. PICK z \in Stoppers : handle[z] = r /\ pc[z] \in {"marking", "done"}
  BY DEF Stopped
<1> USE CallsAssumption DEF TypeOK, Calls, Runtimes, PCs, Goto, Return
<1>2. ASSUME NEW c \in Starters, StartDaemon(c) \/ StartStep(c)
      PROVE  handle'[z] = handle[z] /\ pc'[z] = pc[z]
  BY <1>2 DEF StartDaemon, StartStep, FetchRuntime, RuntimeNotBuilt, LockForStart,
              AlreadyRunning, SpawnSupervisors, PublishDaemon
<1>3. ASSUME NEW d \in Starters, TasksEnd(d) \/ SupervisorsPanic(d)
      PROVE  handle'[z] = handle[z] /\ pc'[z] = pc[z]
  BY <1>3 DEF TasksEnd, SupervisorsPanic
<1>4. ASSUME NEW c \in Stoppers, StopEnter(c) \/ StopStep(c)
      PROVE  handle'[z] = handle[z] /\ pc'[z] \in {"marking", "done"}
  BY <1>1, <1>4 DEF StopEnter, StopNotRunning, TakeDaemon, StopStep, AbortTasks, TakeRuntime,
                    AwaitTasks, ShutDownRuntime, MarkStopped
<1>5. ASSUME NEW c \in Users, UseDaemon(c) \/ UseStep(c)
      PROVE  handle'[z] = handle[z] /\ pc'[z] = pc[z]
  BY <1>5 DEF UseDaemon, UseStep, FetchRuntime, RuntimeNotBuilt, CloneConfig, FinishUse
<1>6. CASE UNCHANGED vars
  BY <1>1, <1>6 DEF vars, Stopped
<1> QED BY <1>1, <1>2, <1>3, <1>4, <1>5, <1>6 DEF Next, Stopped

\* Runtimes leave live by a shutdown only, and a call borrows a live one.
LEMMA GoneStep == IInv /\ GoneInv /\ [Next]_vars => GoneInv'
<1> SUFFICES ASSUME IInv, GoneInv, [Next]_vars PROVE GoneInv'
  OBVIOUS
<1>t. TypeOK /\ PointInv /\ FreshInv /\ RuntimeInv
  BY DEF IInv
<1>s. \A r : Stopped(r) => Stopped(r)'
  BY <1>t, StoppedStays
<1> USE CallsAssumption, <1>t
     DEF TypeOK, PointInv, Calls, Runtimes, PCs, Goto, Return, StopPoints, LockPoints
<1>1. ASSUME NEW c \in Starters \cup Users, FetchRuntime(c) PROVE GoneInv'
  <2>1. /\ runtime' \in live' /\ runtime' # None /\ handle' = [handle EXCEPT ![c] = runtime']
        /\ live \subseteq live' /\ pc' = [pc EXCEPT ![c] = "fetched"] /\ result' = result
    BY <1>1 DEF FetchRuntime, RuntimeInv
  <2>2. \A x \in Users : handle[x] # None /\ handle[x] \notin live => handle[x] \notin live'
    BY <1>1 DEF FetchRuntime, FreshInv
  <2>3. pc[c] = "fetching"
    BY <1>1 DEF FetchRuntime
  <2> QED BY <2>1, <2>2, <2>3, <1>s DEF GoneInv
<1>2. ASSUME NEW c \in Starters \cup Users, RuntimeNotBuilt(c) PROVE GoneInv'
  BY <1>2, <1>s DEF RuntimeNotBuilt, GoneInv
<1>3. ASSUME NEW c \in Starters, StartDaemon(c) \/ LockForStart(c) \/ AlreadyRunning(c)
                                 \/ SpawnSupervisors(c) \/ PublishDaemon(c)
      PROVE  GoneInv'
  BY <1>3, <1>s DEF StartDaemon, LockForStart, AlreadyRunning, SpawnSupervisors,
                    PublishDaemon, GoneInv
<1>4. ASSUME NEW d \in Starters, TasksEnd(d) \/ SupervisorsPanic(d) PROVE GoneInv'
  BY <1>4, <1>s DEF TasksEnd, SupervisorsPanic, GoneInv
<1>5. ASSUME NEW c \in Stoppers, StopEnter(c) \/ AbortTasks(c) \/ TakeRuntime(c)
                                 \/ AwaitTasks(c) \/ MarkStopped(c)
      PROVE  GoneInv'
  BY <1>5, <1>s DEF StopEnter, StopNotRunning, TakeDaemon, AbortTasks, TakeRuntime,
                    AwaitTasks, MarkStopped, GoneInv
<1>6. ASSUME NEW c \in Stoppers, ShutDownRuntime(c) PROVE GoneInv'
  <2>1. Stopped(handle[c])'
    BY <1>6 DEF ShutDownRuntime, Stopped
  <2>2. /\ handle' = handle /\ live' = live \ {handle[c]} /\ result' = result
        /\ pc' = [pc EXCEPT ![c] = "marking"]
    BY <1>6 DEF ShutDownRuntime
  <2> QED BY <2>1, <2>2, <1>s DEF GoneInv
<1>7. ASSUME NEW c \in Users, UseDaemon(c) \/ CloneConfig(c) \/ FinishUse(c)
      PROVE  GoneInv'
  BY <1>7, <1>s DEF UseDaemon, CloneConfig, FinishUse, GoneInv
<1>8. CASE UNCHANGED vars
  BY <1>8, <1>s DEF vars, GoneInv
<1> QED
  BY <1>1, <1>2, <1>3, <1>4, <1>5, <1>6, <1>7, <1>8 DEF Next, StartStep, StopStep, UseStep

\* Nothing but a stop takes the runtime away from a call that borrowed it.
THEOREM OnlyStopsCutUses == Spec => []GoneMeansStopped
<1>1. Init => GoneInv
  BY CallsAssumption DEF Init, GoneInv, Calls
<1>2. IInv /\ GoneInv /\ [Next]_vars => GoneInv'
  BY GoneStep
<1>3. GoneInv => GoneMeansStopped
  BY DEF GoneInv, GoneMeansStopped
<1> QED BY <1>1, <1>2, <1>3, Invariance, PTL DEF Spec

-----------------------------------------------------------------------------
(* No circular wait.                                                       *)

\* A stop awaits aborted tasks only.
AbortInv ==
  \A z \in Stoppers : pc[z] \in {"taking", "awaiting", "shutting"} => victim[z] \in aborted

\* The call has a step of its own to take, or awaits tasks that have been aborted and
\* end at their next await.
CanMove(c) ==
  \/ pc[c] \in {"fetching", "spawning", "publishing", "aborting", "taking", "shutting",
                "marking", "using"}
  \/ pc[c] = "idle" /\ c \notin Stoppers
  \/ pc[c] = "awaiting" /\ (victim[c] \in tasks => victim[c] \in aborted)

AtMutex(c) == pc[c] = "fetched" \/ (pc[c] = "idle" /\ c \in Stoppers)

\* Every call that has not returned can move, or is at the DAEMON mutex and finds it
\* free or held by a call that can move.
NoCircularWait ==
  \A c \in Calls : \/ pc[c] = "done"
                   \/ CanMove(c)
                   \/ AtMutex(c) /\ (lock # None => lock \in Calls /\ CanMove(lock))

\* Only TakeDaemon brings a call to the abort, and AbortTasks past it.
LEMMA AbortStep == TypeOK /\ PointInv /\ AbortInv /\ [Next]_vars => AbortInv'
<1> SUFFICES ASSUME TypeOK, PointInv, AbortInv, [Next]_vars PROVE AbortInv'
  OBVIOUS
<1> USE CallsAssumption DEF TypeOK, AbortInv, Calls, PCs, Goto, Return
<1>1. ASSUME NEW c \in Starters, StartDaemon(c) \/ StartStep(c) PROVE AbortInv'
  BY <1>1 DEF StartDaemon, StartStep, FetchRuntime, RuntimeNotBuilt, LockForStart,
              AlreadyRunning, SpawnSupervisors, PublishDaemon
<1>2. ASSUME NEW d \in Starters, TasksEnd(d) \/ SupervisorsPanic(d) PROVE AbortInv'
  BY <1>2 DEF TasksEnd, SupervisorsPanic
<1>3. ASSUME NEW c \in Stoppers, StopEnter(c) \/ StopStep(c) PROVE AbortInv'
  BY <1>3 DEF StopEnter, StopNotRunning, TakeDaemon, StopStep, AbortTasks, TakeRuntime,
              AwaitTasks, ShutDownRuntime, MarkStopped
<1>4. ASSUME NEW c \in Users, UseDaemon(c) \/ UseStep(c) PROVE AbortInv'
  BY <1>4 DEF UseDaemon, UseStep, FetchRuntime, RuntimeNotBuilt, CloneConfig, FinishUse
<1>5. CASE UNCHANGED vars
  BY <1>5 DEF vars
<1> QED BY <1>1, <1>2, <1>3, <1>4, <1>5 DEF Next

\* The DAEMON mutex, the RUNTIME mutex and the await of the tasks under both cannot
\* block each other: the safety half of EveryCallReturns, for any sets of calls.
THEOREM NoDeadlock == Spec => []NoCircularWait
<1>1. Init => AbortInv
  BY DEF Init, AbortInv, Calls
<1>2. IInv /\ AbortInv /\ [Next]_vars => AbortInv'
  BY AbortStep DEF IInv
<1>3. IInv /\ AbortInv => NoCircularWait
  <2> SUFFICES ASSUME IInv, AbortInv PROVE NoCircularWait
    OBVIOUS
  <2> USE CallsAssumption DEF IInv, TypeOK, PointInv, Calls
  <2>1. \A c \in Calls : pc[c] \in LockPoints => CanMove(c)
    BY DEF LockPoints, CanMove, AbortInv, StopPoints
  <2>2. lock # None => lock \in Calls /\ pc[lock] \in LockPoints
    BY DEF LockInv
  <2>3. \A c \in Calls : pc[c] = "done" \/ CanMove(c) \/ AtMutex(c)
    BY <2>1 DEF LockPoints, CanMove, AtMutex, PCs
  <2> QED BY <2>1, <2>2, <2>3 DEF NoCircularWait
<1> QED BY <1>1, <1>2, <1>3, Invariance, PTL DEF Spec

-----------------------------------------------------------------------------
(* DaemonLifecycle implements DaemonSlot.                                  *)

\* A call has its answer exactly when it has returned, and the answers of an admitted
\* use come from the use.
AnswerInv ==
  /\ \A c \in Calls : result[c] # "none" <=> pc[c] = "done"
  /\ \A c \in Stoppers : pc[c] # "idle" /\ pc[c] # "done" => victim[c] # None

\* An answer is given once, with the return.
LEMMA AnswerStep == TypeOK /\ PointInv /\ AnswerInv /\ [Next]_vars => AnswerInv'
<1> SUFFICES ASSUME TypeOK, PointInv, AnswerInv, [Next]_vars PROVE AnswerInv'
  OBVIOUS
<1> USE CallsAssumption DEF TypeOK, PointInv, AnswerInv, Calls, PCs, Results, Goto, Return
<1>1. ASSUME NEW c \in Starters, StartDaemon(c) \/ StartStep(c) PROVE AnswerInv'
  BY <1>1 DEF StartDaemon, StartStep, FetchRuntime, RuntimeNotBuilt, LockForStart,
              AlreadyRunning, SpawnSupervisors, PublishDaemon
<1>2. ASSUME NEW d \in Starters, TasksEnd(d) \/ SupervisorsPanic(d) PROVE AnswerInv'
  BY <1>2 DEF TasksEnd, SupervisorsPanic
<1>3. ASSUME NEW c \in Stoppers, StopEnter(c) \/ StopStep(c) PROVE AnswerInv'
  BY <1>3 DEF StopEnter, StopNotRunning, TakeDaemon, StopStep, AbortTasks, TakeRuntime,
              AwaitTasks, ShutDownRuntime, MarkStopped
<1>4. ASSUME NEW c \in Users, UseDaemon(c) \/ UseStep(c) PROVE AnswerInv'
  BY <1>4 DEF UseDaemon, UseStep, FetchRuntime, RuntimeNotBuilt, CloneConfig, FinishUse
<1>5. CASE UNCHANGED vars
  BY <1>5 DEF vars
<1> QED BY <1>1, <1>2, <1>3, <1>4, <1>5 DEF Next

\* Each step of the code is one step of the slot or hidden from the callers.
LEMMA SlotStep ==
  IInv /\ AnswerInv /\ [Next]_vars => [Slot!SlotNext]_(Slot!slotVars)
<1> SUFFICES ASSUME IInv, AnswerInv, [Next]_vars PROVE [Slot!SlotNext]_(Slot!slotVars)
  OBVIOUS
<1>t. TypeOK /\ PointInv /\ LockInv
  BY DEF IInv
<1> USE CallsAssumption, <1>t
     DEF TypeOK, PointInv, AnswerInv, Calls, Goto, Return, StopPoints, LockPoints
<1> USE DEF Serving, LetIn, Slot!slotVars, Slot!Answer
<1> DEFINE Hidden == Serving' = Serving /\ LetIn' = LetIn /\ result' = result
<1>n. Hidden => [Slot!SlotNext]_(Slot!slotVars)
  OBVIOUS
<1>k. /\ lock = None => Serving = daemon
      /\ \A c \in Starters : lock = c => Serving = None
      /\ \A c \in Stoppers : lock = c => Serving = victim[c]
  BY DEF LockInv
<1>1. ASSUME NEW c \in Starters \cup Users, FetchRuntime(c) PROVE Hidden
  BY <1>1 DEF FetchRuntime
<1>2. ASSUME NEW c \in Starters, RuntimeNotBuilt(c) PROVE Slot!Fail(c)
  BY <1>2 DEF RuntimeNotBuilt, Slot!Fail
<1>3. ASSUME NEW c \in Starters, StartDaemon(c) PROVE Slot!Fail(c) \/ Hidden
  BY <1>3 DEF StartDaemon, Slot!Fail
<1>4. ASSUME NEW c \in Starters, LockForStart(c) \/ SpawnSupervisors(c) PROVE Hidden
  BY <1>4, <1>k DEF LockForStart, SpawnSupervisors
<1>5. ASSUME NEW c \in Starters, AlreadyRunning(c) PROVE Slot!RefuseStart(c)
  BY <1>5, <1>k DEF AlreadyRunning, Slot!RefuseStart
<1>6. ASSUME NEW c \in Starters, PublishDaemon(c) PROVE Slot!Start(c)
  BY <1>6, <1>k DEF PublishDaemon, LockInv, Slot!Start
<1>7. ASSUME NEW d \in Starters, TasksEnd(d) \/ SupervisorsPanic(d) PROVE Hidden
  BY <1>7 DEF TasksEnd, SupervisorsPanic
<1>8. ASSUME NEW c \in Stoppers, StopNotRunning(c) PROVE Slot!RefuseIdle(c)
  BY <1>8, <1>k DEF StopNotRunning, Slot!RefuseIdle
<1>9. ASSUME NEW c \in Stoppers, TakeDaemon(c) PROVE Hidden
  BY <1>9, <1>k DEF TakeDaemon
<1>10. ASSUME NEW c \in Stoppers,
              AbortTasks(c) \/ TakeRuntime(c) \/ AwaitTasks(c) \/ ShutDownRuntime(c)
       PROVE  Hidden
  BY <1>10 DEF AbortTasks, TakeRuntime, AwaitTasks, ShutDownRuntime
<1>11. ASSUME NEW c \in Stoppers, MarkStopped(c) PROVE Slot!Stop(c)
  BY <1>11, <1>k DEF MarkStopped, LockInv, Slot!Stop
<1>12. ASSUME NEW c \in Users, UseDaemon(c) \/ RuntimeNotBuilt(c)
       PROVE  Slot!Fail(c) \/ Hidden
  BY <1>12 DEF UseDaemon, RuntimeNotBuilt, Slot!Fail
<1>13. ASSUME NEW c \in Users, CloneConfig(c) PROVE Slot!RefuseIdle(c) \/ Slot!Admit(c)
  BY <1>13, <1>k DEF CloneConfig, Slot!RefuseIdle, Slot!Admit
<1>14. ASSUME NEW c \in Users, FinishUse(c) PROVE Slot!Serve(c)
  BY <1>14 DEF FinishUse, Slot!Serve
<1>15. CASE UNCHANGED vars
  BY <1>15 DEF vars
<1> HIDE DEF Hidden
<1> QED
  BY <1>n, <1>1, <1>2, <1>3, <1>4, <1>5, <1>6, <1>7, <1>8, <1>9, <1>10, <1>11, <1>12, <1>13,
     <1>14, <1>15
     DEF Next, StartStep, StopEnter, StopStep, UseStep, Slot!SlotNext

\* The calls are linearizable: whatever the interleaving of their steps, what they
\* answer is what a slot answers on which starts, stops and uses act one at a time.
THEOREM DaemonIsSlot == Spec => KeepsSlot
<1>1. Init => Slot!SlotInit /\ AnswerInv
  BY CallsAssumption DEF Init, Slot!SlotInit, AnswerInv, Serving, LetIn, Calls
<1>2. IInv /\ AnswerInv /\ [Next]_vars => AnswerInv' /\ [Slot!SlotNext]_(Slot!slotVars)
  BY AnswerStep, SlotStep DEF IInv
<1> QED BY <1>1, <1>2, Invariance, PTL DEF Spec, KeepsSlot, Slot!SlotSpec
=============================================================================
