---------------------------- MODULE AppDaemonProofs ----------------------------
(***************************************************************************)
(* Safety of AppDaemon for any sets of jobs and any bounds.                *)
(***************************************************************************)
EXTENDS AppDaemon, SequenceTheorems, TLAPS

\* A stop job is at the points of a stop only.
StopPointInv ==
  \A j \in Stops : at[j] \in {"idle", "launched", "unregister", "stop", "halted", "unhalted"}

\* Where a stop that met nothing has got: nothing that could start the daemon is left,
\* and while the daemon runs, a stop job is on its way to it.
StopInv ==
  asked = "stop" /\ ~crossed =>
    /\ preps = 0 /\ ~wasRunning
    /\ \A j \in Starts \cup Setups : at[j] = "idle"
    /\ daemon => \E j \in Stops : at[j] \in {"launched", "unregister", "stop"}

IInv == TypeOK /\ NoDeafDaemon /\ StopPointInv /\ StopInv

\* What is delivered to the service stays a sequence of commands.
LEMMA StopSelfType ==
  ASSUME NEW box \in Seq({"start", "retry", "stop", "sticky", "destroy"}), StopSelf(box)
  PROVE  inbox' \in Seq({"start", "retry", "stop", "sticky", "destroy"})
BY AppendProperties DEF StopSelf

\* Taking the first command leaves a sequence of commands.
LEMMA TailType ==
  ASSUME TypeOK, inbox # <<>>
  PROVE  Tail(inbox) \in Seq({"start", "retry", "stop", "sticky", "destroy"})
BY HeadTailProperties DEF TypeOK

\* The initial states satisfy the invariant.
LEMMA InitInv == Init => IInv
<1> SUFFICES ASSUME Init PROVE IInv
  OBVIOUS
<1>1. 0 \in 0..MaxAttempts /\ 0 \in 0..MaxCommands /\ 0 \in 0..MaxDeaths
  BY AppAssumption
<1>2. inbox \in Seq({"start", "retry", "stop", "sticky", "destroy"})
  BY EmptySeq DEF Init
<1>3. TypeOK
  BY <1>1, <1>2 DEF Init, TypeOK
<1> QED BY <1>3 DEF Init, IInv, NoDeafDaemon, StopPointInv, StopInv, Jobs

\* A step of a job keeps the types.
LEMMA JobType ==
  ASSUME TypeOK, NEW j \in Jobs, JobStep(j)
  PROVE  TypeOK'
<1> USE DEF TypeOK, Goto, End, InBlock, rust, service, polls, counters, past, Jobs
<1>1. CASE EnterStart(j)
  <2>1. state' \in {"stopped", "starting", "running", "stopping", "error"}
    BY <1>1 DEF EnterStart
  <2>2. orphans' \subseteq orphans /\ \E p \in {"idle", "ensure"} : at' = [at EXCEPT ![j] = p]
    BY <1>1 DEF EnterStart
  <2>3. /\ daemon' = daemon /\ callbacks' = callbacks /\ wasRunning' = wasRunning
        /\ up' = up /\ crossed' = crossed /\ seen' = seen /\ inbox' = inbox
        /\ preps' = preps /\ startJob' = startJob /\ attempts' = attempts
        /\ poll' = poll /\ sync' = sync /\ asked' = asked
        /\ commands' = commands /\ deaths' = deaths
    BY <1>1 DEF EnterStart
  <2>4. at' \in [Jobs -> {"idle", "sync", "ensure", "start", "register", "started", "already",
                         "reregister", "reregistered", "failed", "delay", "launched",
                         "unregister", "stop", "halted", "unhalted", "intent"}]
    BY <2>2
  <2>5. orphans' \subseteq Starts \cup Stops
    BY <2>2
  <2> QED BY <2>1, <2>3, <2>4, <2>5
<1>2. CASE EnsureStopped(j) \/ StartDaemon(j) \/ Register(j)
  <2>1. CASE EnsureStopped(j)
    BY <2>1 DEF EnsureStopped
  <2>2. CASE StartDaemon(j)
    BY <2>2 DEF StartDaemon
  <2>3. CASE Register(j)
    BY <2>3 DEF Register
  <2> QED BY <1>2, <2>1, <2>2, <2>3
<1>3. CASE StartReturns(j)
  <2>1. 0 \in 0..MaxAttempts
    BY AppAssumption
  <2> QED BY <1>3, <2>1 DEF StartReturns
<1>4. CASE AlreadyRunning(j) \/ RetryDelay(j)
  <2>1. CASE AlreadyRunning(j)
    BY <2>1 DEF AlreadyRunning
  <2>2. CASE RetryDelay(j)
    BY <2>2 DEF RetryDelay
  <2> QED BY <1>4, <2>1, <2>2
<1>5. CASE StartFails(j)
  <2>1. attempts' \in 0..MaxAttempts
    BY <1>5, AppAssumption DEF StartFails, Exhausted
  <2>2. inbox' \in Seq({"start", "retry", "stop", "sticky", "destroy"})
    BY <1>5, StopSelfType DEF StartFails, StopSelfOf
  <2> QED BY <1>5, <2>1, <2>2 DEF StartFails
<1>6. CASE EnterStop(j) \/ Unregister(j) \/ StopDaemon(j)
  <2>1. CASE EnterStop(j)
    BY <2>1 DEF EnterStop
  <2>2. CASE Unregister(j)
    BY <2>2 DEF Unregister
  <2>3. CASE StopDaemon(j)
    BY <2>3 DEF StopDaemon
  <2> QED BY <1>6, <2>1, <2>2, <2>3
<1>7. CASE StopReturns(j)
  <2>1. inbox' \in Seq({"start", "retry", "stop", "sticky", "destroy"})
    BY <1>7, StopSelfType DEF StopReturns, StopSelfOf
  <2> QED BY <1>7, <2>1 DEF StopReturns
<1>8. CASE SetupIntent(j)
  <2>1. inbox' \in Seq({"start", "retry", "stop", "sticky", "destroy"})
    BY <1>8, AppendProperties DEF SetupIntent
  <2> QED BY <1>8, <2>1 DEF SetupIntent
<1> QED BY <1>1, <1>2, <1>3, <1>4, <1>5, <1>6, <1>7, <1>8 DEF JobStep, StartStep, StopStep

\* So does every other step.
LEMMA ServiceType ==
  ASSUME TypeOK,
         \/ \E j \in Setups : SetupBegins(j)
         \/ Command \/ Prepare \/ ServiceStep \/ Polling \/ Foreground \/ ProcessDies
  PROVE  TypeOK'
<1> USE DEF TypeOK, Goto, rust, service, polls, counters, past, Jobs
<1> DEFINE Boxes == Seq({"start", "retry", "stop", "sticky", "destroy"})
<1>1. 0 \in 0..MaxAttempts
  BY AppAssumption
<1>2. CASE \E j \in Setups : SetupBegins(j)
  <2>1. commands' \in 0..MaxCommands
    BY <1>2, AppAssumption DEF SetupBegins
  <2> QED BY <1>2, <2>1 DEF SetupBegins
<1>3. CASE Command
  <2>1. commands' \in 0..MaxCommands
    BY <1>3, AppAssumption DEF Command
  <2>2. inbox' \in Boxes
    BY <1>3, AppendProperties DEF Command
  <2> QED BY <1>3, <2>1, <2>2 DEF Command
<1>4. CASE AttemptStart
  <2>1. preps' \in Nat
    BY <1>4 DEF AttemptStart
  <2> QED BY <1>1, <1>4, <2>1 DEF AttemptStart
<1>5. CASE ConfigRejected
  <2>1. preps' \in Nat
    BY <1>5 DEF ConfigRejected
  <2>2. inbox' \in Boxes
    BY <1>5, StopSelfType DEF ConfigRejected
  <2> QED BY <1>5, <2>1, <2>2 DEF ConfigRejected
<1>6. CASE HandleStart
  <2>1. Tail(inbox) \in Boxes
    BY <1>6, TailType DEF HandleStart, Deliver
  <2> QED BY <1>1, <1>6, <2>1 DEF HandleStart
<1>7. CASE HandleStop
  <2>1. Tail(inbox) \in Boxes
    BY <1>7, TailType DEF HandleStop, Deliver
  <2>2. crossed' \in BOOLEAN
    BY <1>7 DEF HandleStop, Starting, Leaving
  <2>3. at' \in [Jobs -> {"idle", "sync", "ensure", "start", "register", "started", "already",
                      "reregister", "reregistered", "failed", "delay", "launched", "unregister",
                      "stop", "halted", "unhalted", "intent"}]
    BY <1>7 DEF HandleStop, LaunchStop
  <2> QED BY <1>1, <1>7, <2>1, <2>2, <2>3 DEF HandleStop
<1>8. CASE HandleStickyRestart
  <2>1. Tail(inbox) \in Boxes
    BY <1>8, TailType DEF HandleStickyRestart, Deliver
  <2>2. inbox' \in Boxes
    BY <1>8, <2>1, StopSelfType DEF HandleStickyRestart
  <2> QED BY <1>8, <2>2 DEF HandleStickyRestart
<1>9. CASE Destroy
  <2>1. Tail(inbox) \in Boxes
    BY <1>9, TailType DEF Destroy, Deliver
  <2> QED BY <1>1, <1>9, <2>1 DEF Destroy, Busy
<1>10. CASE ObserveState
  BY <1>10 DEF ObserveState
<1>11. CASE PollReads \/ SyncReads
  BY <1>11 DEF PollReads, SyncReads, Answer
<1>12. CASE PollApplies
  <2>1. inbox' \in Boxes
    BY <1>12, StopSelfType DEF PollApplies
  <2> QED BY <1>12, <2>1 DEF PollApplies, Applied
<1>13. CASE PollFails \/ SyncApplies \/ SyncFails
  BY <1>13 DEF PollFails, SyncApplies, SyncFails, Applied
<1>14. CASE ProcessDies
  <2>1. deaths' \in 0..MaxDeaths
    BY <1>14, AppAssumption DEF ProcessDies
  <2>2. inbox' \in Boxes
    <3>1. <<>> \in Boxes /\ <<"sticky">> \in Boxes
      BY ONLY EmptySeq
    <3>2. inbox' = <<>> \/ inbox' = <<"sticky">>
      BY <1>14 DEF ProcessDies
    <3> QED BY <3>1, <3>2
  <2> QED BY <1>1, <1>14, <2>1, <2>2 DEF ProcessDies
<1> QED BY <1>2, <1>3, <1>4, <1>5, <1>6, <1>7, <1>8, <1>9, <1>10, <1>11, <1>12, <1>13, <1>14
        DEF Prepare, ServiceStep, Polling, Foreground

\* The daemon comes up in a start that registers next, and loses its callbacks in a stop
\* that stops it next; a job leaves these two points only by doing so.
LEMMA DeafStep ==
  ASSUME TypeOK, NoDeafDaemon, [Next]_vars
  PROVE  NoDeafDaemon'
<1> USE DEF TypeOK, NoDeafDaemon, Goto, End, InBlock, Jobs, rust
<1>1. CASE UNCHANGED vars
  BY <1>1 DEF vars
<1>2. ASSUME NEW j \in Jobs, JobStep(j)
      PROVE  NoDeafDaemon'
  <2>1. CASE EnterStart(j) \/ StartReturns(j) \/ AlreadyRunning(j)
    BY <2>1 DEF EnterStart, StartReturns, AlreadyRunning
  <2>2. CASE StartFails(j) \/ RetryDelay(j) \/ StopReturns(j) \/ SetupIntent(j)
    BY <2>2 DEF StartFails, RetryDelay, StopReturns, SetupIntent
  <2>3. CASE EnsureStopped(j) \/ StartDaemon(j)
    BY <2>3 DEF EnsureStopped, StartDaemon
  <2>4. CASE Register(j) \/ Unregister(j) \/ StopDaemon(j) \/ EnterStop(j)
    BY <2>4 DEF Register, Unregister, StopDaemon, EnterStop
  <2> QED BY <1>2, <2>1, <2>2, <2>3, <2>4 DEF JobStep, StartStep, StopStep
<1>3. CASE \E j \in Setups : SetupBegins(j)
  BY <1>3 DEF SetupBegins
<1>4. CASE Command \/ Prepare
  BY <1>4 DEF Command, Prepare, AttemptStart, ConfigRejected
<1>5. CASE ServiceStep
  BY <1>5 DEF ServiceStep, HandleStart, HandleStop, HandleStickyRestart, Destroy, ObserveState,
              LaunchStop
<1>6. CASE Polling \/ Foreground
  BY <1>6 DEF Polling, PollReads, PollApplies, PollFails, Foreground, SyncReads, SyncApplies,
     SyncFails
<1>7. CASE ProcessDies
  BY <1>7 DEF ProcessDies
<1> QED BY <1>1, <1>2, <1>3, <1>4, <1>5, <1>6, <1>7 DEF Next

\* Steps of jobs keep what holds after a stop: only stop jobs are left.
LEMMA StopJobStep ==
  ASSUME IInv, NEW j \in Jobs, JobStep(j)
  PROVE  StopPointInv' /\ StopInv'
<1> USE DEF IInv, TypeOK, StopPointInv, StopInv, Goto, End, InBlock, rust, past, service
<1>1. CASE StartStep(j)
  <2>1. at[j] \in {"sync", "ensure", "start", "register", "reregister", "started",
                   "reregistered", "already", "failed", "delay"}
    BY <1>1 DEF StartStep, EnterStart, EnsureStopped, StartDaemon, Register, StartReturns,
                AlreadyRunning, StartFails, RetryDelay
  <2>2. j \notin Stops /\ j \in Starts \cup Setups
    BY <2>1 DEF Jobs
  <2>3. \A k \in Stops : at'[k] = at[k]
    BY <1>1, <2>2 DEF StartStep, EnterStart, EnsureStopped, StartDaemon, Register, StartReturns,
                AlreadyRunning, StartFails, RetryDelay, Jobs
  <2>4. asked' = asked /\ crossed' = crossed
    BY <1>1 DEF StartStep, EnterStart, EnsureStopped, StartDaemon, Register, StartReturns,
                AlreadyRunning, StartFails, RetryDelay
  <2>5. ~(asked = "stop" /\ ~crossed)
    BY <2>1, <2>2
  <2> QED BY <2>3, <2>4, <2>5
<1>2. CASE SetupIntent(j)
  <2>1. at[j] = "intent" /\ j \notin Stops /\ j \in Starts \cup Setups
    BY <1>2 DEF SetupIntent, Jobs
  <2>2. \A k \in Stops : at'[k] = at[k]
    BY <1>2, <2>1 DEF SetupIntent, Jobs
  <2>3. asked' = asked /\ crossed' = crossed
    BY <1>2 DEF SetupIntent
  <2> QED BY <2>1, <2>2, <2>3
<1>3. CASE StopStep(j)
  <2>1. at[j] \in {"launched", "unregister", "stop", "halted", "unhalted"}
    BY <1>3 DEF StopStep, EnterStop, Unregister, StopDaemon, StopReturns
  <2>2. asked' = asked /\ crossed' = crossed /\ wasRunning' = wasRunning /\ preps' = preps
    BY <1>3 DEF StopStep, EnterStop, Unregister, StopDaemon, StopReturns
  <2>3. CASE j \in Starts \cup Setups
    <3>1. ~(asked = "stop" /\ ~crossed)
      BY <2>1, <2>3
    <3>2. \A k \in Stops : at'[k] = at[k]
      BY <1>3, <2>3, AppAssumption
      DEF StopStep, EnterStop, Unregister, StopDaemon, StopReturns, Jobs
    <3> QED BY <2>2, <3>1, <3>2
  <2>4. CASE j \in Stops
    <3>1. \A k \in Jobs : k # j => at'[k] = at[k]
      BY <1>3 DEF StopStep, EnterStop, Unregister, StopDaemon, StopReturns
    <3>2. at'[j] \in {"idle", "unregister", "stop", "halted", "unhalted"}
      BY <1>3, <2>4, AppAssumption
      DEF StopStep, EnterStop, Unregister, StopDaemon, StopReturns, Jobs
    <3>3. \/ daemon' = FALSE
          \/ daemon' = daemon /\ at'[j] \in {"unregister", "stop"}
          \/ daemon' = daemon /\ at[j] \in {"halted", "unhalted"}
      BY <1>3 DEF StopStep, EnterStop, Unregister, StopDaemon, StopReturns, Jobs
    <3>4. StopPointInv'
      BY <3>1, <3>2 DEF Jobs
    <3>5. \A k \in Starts \cup Setups : at'[k] = at[k]
      BY <2>4, <3>1, AppAssumption DEF Jobs
    <3>6. StopInv'
      <4> SUFFICES ASSUME asked = "stop", ~crossed
                   PROVE  daemon' => \E k \in Stops : at'[k] \in {"launched", "unregister", "stop"}
        BY <2>2, <3>5
      <4> QED BY <2>4, <3>1, <3>3 DEF Jobs
    <3> QED BY <3>4, <3>6
  <2> QED BY <2>3, <2>4 DEF Jobs
<1> QED BY <1>1, <1>2, <1>3 DEF JobStep

\* A stop that meets no start and no ending instance launches a job and leaves nothing
\* else behind.
LEMMA StopHandled ==
  ASSUME IInv, HandleStop
  PROVE  StopPointInv' /\ StopInv'
<1> USE DEF IInv, TypeOK, Goto
<1>1. PICK j \in Stops : /\ at[j] = "idle"
                         /\ IF Leaving(inbox) THEN UNCHANGED at ELSE Goto(j, "launched")
  BY DEF HandleStop, LaunchStop
<1>2. StopPointInv'
  BY <1>1 DEF StopPointInv, Jobs
<1>3. StopInv'
  <2> SUFFICES ASSUME ~crossed' PROVE StopInv'
    BY DEF StopInv
  <2>1. preps = 0 /\ Busy(Starts \cup Setups) = {} /\ ~Leaving(inbox)
    <3>1. crossed' = (Starting \/ Leaving(inbox))
      BY DEF HandleStop
    <3>2. ~Starting /\ ~Leaving(inbox)
      BY ONLY ~crossed', <3>1
    <3>3. preps \in Nat
      OBVIOUS
    <3> QED BY ONLY <3>2, <3>3 DEF Starting
  <2>2. at' = [at EXCEPT ![j] = "launched"]
    BY <1>1, <2>1
  <2>3. \A k \in Starts \cup Setups : at[k] = "idle" /\ k # j
    BY <2>1, AppAssumption DEF Busy
  <2>4. preps' = 0 /\ wasRunning' = FALSE
    BY <2>1 DEF HandleStop
  <2>5. \A k \in Starts \cup Setups : at'[k] = "idle"
    BY <2>2, <2>3 DEF Jobs
  <2>6. at'[j] = "launched"
    BY <2>2 DEF Jobs
  <2> QED BY <2>4, <2>5, <2>6 DEF StopInv
<1> QED BY <1>2, <1>3

\* No other step brings a start, or takes the stop away from the daemon.
LEMMA StopOtherStep ==
  ASSUME IInv,
         \/ UNCHANGED vars
         \/ \E j \in Setups : SetupBegins(j)
         \/ Command \/ Prepare \/ HandleStart \/ HandleStickyRestart \/ Destroy \/ ObserveState
         \/ Polling \/ Foreground \/ ProcessDies
  PROVE  StopPointInv' /\ StopInv'
<1> USE DEF IInv, TypeOK, StopPointInv, StopInv, Goto, rust, past, service, counters
<1>1. CASE UNCHANGED vars
  BY <1>1 DEF vars
<1>2. CASE \E j \in Setups : SetupBegins(j)
  BY <1>2, AppAssumption DEF SetupBegins, Jobs
<1>3. CASE Command
  BY <1>3 DEF Command
<1>4. CASE Prepare
  <2>1. ~(asked = "stop" /\ ~crossed)
    BY <1>4 DEF Prepare, AttemptStart, ConfigRejected
  <2>2. asked' = asked /\ crossed' = crossed
    BY <1>4 DEF Prepare, AttemptStart, ConfigRejected
  <2>3. \A j \in Stops : at'[j] = at[j]
    BY <1>4, AppAssumption DEF Prepare, AttemptStart, ConfigRejected, Jobs
  <2> QED BY <2>1, <2>2, <2>3
<1>5. CASE HandleStart
  BY <1>5 DEF HandleStart
<1>6. CASE HandleStickyRestart
  BY <1>6 DEF HandleStickyRestart
<1>7. CASE Destroy \/ ObserveState
  BY <1>7 DEF Destroy, ObserveState
<1>8. CASE Polling \/ Foreground
  BY <1>8 DEF Polling, PollReads, PollApplies, PollFails, Foreground, SyncReads, SyncApplies,
     SyncFails
<1>9. CASE ProcessDies
  BY <1>9 DEF ProcessDies, Jobs
<1> QED BY <1>1, <1>2, <1>3, <1>4, <1>5, <1>6, <1>7, <1>8, <1>9

\* Every step keeps the invariant.
LEMMA NextInv == IInv /\ [Next]_vars => IInv'
<1> SUFFICES ASSUME IInv, [Next]_vars PROVE IInv'
  OBVIOUS
<1>1. TypeOK'
  <2>1. CASE UNCHANGED vars
    BY <2>1 DEF IInv, TypeOK, vars, rust, service, polls, counters, past
  <2> QED BY <2>1, JobType, ServiceType DEF Next, IInv
<1>2. NoDeafDaemon'
  BY DeafStep DEF IInv
<1>3. StopPointInv' /\ StopInv'
  BY StopJobStep, StopHandled, StopOtherStep DEF Next, ServiceStep
<1> QED BY <1>1, <1>2, <1>3 DEF IInv

\* The invariant holds in every behaviour.
LEMMA Safety == Spec => []IInv
BY InitInv, NextInv, PTL DEF Spec

\* For any sets of jobs and any bounds the state of app, service and daemon keeps its type.
THEOREM TypeCorrect == Spec => []TypeOK
<1>1. IInv => TypeOK
  BY DEF IInv
<1> QED BY <1>1, Safety, PTL

\* However starts, stops, setups and cancellations interleave, the daemon has its
\* callbacks but between a start and its registration and just before it is stopped.
THEOREM DaemonHears == Spec => []NoDeafDaemon
<1>1. IInv => NoDeafDaemon
  BY DEF IInv
<1> QED BY <1>1, Safety, PTL

\* A stop that met no start under way and no ending instance is never undone by an older
\* job, a poll, a retry, or a restart of the service or the process.
THEOREM StopIsKept == Spec => []StopHolds
<1>1. IInv => StopHolds
  <2> SUFFICES ASSUME IInv, Quiet, asked = "stop", ~crossed PROVE ~daemon /\ ~wasRunning
    BY DEF StopHolds
  <2>1. \A j \in Stops : at[j] = "idle"
    BY DEF Quiet, Busy, Jobs
  <2> QED BY <2>1 DEF IInv, StopInv
<1> QED BY <1>1, Safety, PTL

\* A stop in force is not only kept where everything is quiet: until the next command no
\* single step starts the daemon or records that it ran.
NothingRevives ==
  asked = "stop" /\ ~crossed /\ asked' = "stop" => (daemon' => daemon) /\ ~wasRunning'

\* For any jobs, retries, polls, setups, restarts and deaths of the process: after a stop
\* that met no start under way and no ending instance nothing starts the daemon, or lets
\* a restart of the service start it, before a command does.
THEOREM StopStays == Spec => [][NothingRevives]_vars
<1>1. IInv /\ [Next]_vars => [NothingRevives]_vars
  <2> SUFFICES ASSUME IInv, Next, asked = "stop", ~crossed, asked' = "stop"
               PROVE  (daemon' => daemon) /\ ~wasRunning'
    BY DEF NothingRevives
  <2> USE DEF rust, service, polls, counters, past
  <2>1. ~wasRunning /\ preps = 0 /\ \A j \in Starts \cup Setups : at[j] = "idle"
    BY DEF IInv, StopInv
  <2>2. ASSUME NEW j \in Jobs, JobStep(j) PROVE (daemon' => daemon) /\ ~wasRunning'
    <3>1. j \in Stops /\ at[j] \in {"idle", "launched", "unregister", "stop", "halted", "unhalted"}
      BY <2>1, <2>2 DEF IInv, StopPointInv, Jobs, JobStep, StartStep, StopStep, EnterStart,
         EnsureStopped, StartDaemon, Register, StartReturns, AlreadyRunning, StartFails,
         RetryDelay, EnterStop, Unregister, StopDaemon, StopReturns, SetupIntent
    <3>2. StopStep(j)
      BY <2>2, <3>1 DEF JobStep, StartStep, EnterStart, EnsureStopped, StartDaemon, Register,
         StartReturns, AlreadyRunning, StartFails, RetryDelay, SetupIntent
    <3> QED BY <2>1, <3>2 DEF StopStep, EnterStop, Unregister, StopDaemon, StopReturns, InBlock
  <2>3. CASE \E j \in Setups : SetupBegins(j)
    BY <2>1, <2>3 DEF SetupBegins
  <2>4. CASE Command \/ Prepare \/ Foreground
    BY <2>1, <2>4 DEF Command, Prepare, AttemptStart, ConfigRejected, Foreground, SyncReads,
       SyncApplies, SyncFails
  <2>5. CASE ServiceStep
    BY <2>1, <2>5 DEF ServiceStep, HandleStart, HandleStop, HandleStickyRestart, Destroy,
       ObserveState
  <2>6. CASE Polling \/ ProcessDies
    BY <2>1, <2>6 DEF Polling, PollReads, PollApplies, PollFails, ProcessDies
  <2> QED BY <2>2, <2>3, <2>4, <2>5, <2>6 DEF Next
<1> QED BY <1>1, Safety, PTL DEF Spec
=============================================================================
