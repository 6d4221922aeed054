-------------------------- MODULE EmergencyStopProofs --------------------------
(***************************************************************************)
(* Safety of EmergencyStop for any sets of sends and operators and any     *)
(* bounds: the flag, the file and the sweep, and at the end the session    *)
(* under the stop.  AgentSessionProofs argues about every function of the  *)
(* session at any time; a step here is one of those, leaves the session    *)
(* alone, or is the death of the process, so its invariant carries over.   *)
(***************************************************************************)
EXTENDS EmergencyStop, TLAPS

\* AgentSession again, with its theorems.
AgentProofs == INSTANCE AgentSessionProofs

\* The types the arguments below rest on.
CallTypes ==
  /\ command \in [Operators -> {"none", "engage", "resume"}]
  /\ at \in [Operators -> {"idle", "cancelling", "locating", "truncating",
                           "writing", "reporting"}]
  /\ alone \subseteq Operators
  /\ deaths \in Nat
  /\ pc \in [Sends -> Agent!PCs]

\* A call that nothing overlapped is the only one there is: its flag still stands, and
\* when it writes, the file is the one it truncated.
AloneInv ==
  \A o \in alone :
    /\ at[o] # "idle" /\ starting = "idle"
    /\ \A p \in Operators : p # o => at[p] = "idle"
    /\ command[o] = "engage" => engaged
    /\ at[o] = "writing" => file = "empty"

\* After an engage that was persisted alone: nobody is about to touch the file or the
\* flag, and a start can only load what the file says.  Where the flag is clear the process
\* has died since, and either no load has been applied yet or none could read the file.
AckInv ==
  acked =>
    /\ file = "engaged"
    /\ \A o \in Operators : at[o] \in {"idle", "reporting"}
    /\ starting = "loaded" => loaded \in {"engaged", "unread"}
    /\ engaged \/ (deaths > 0 /\ (blind \/ (~up /\ starting # "starting")))

\* While the flag has been set ever since a session cancel, every send in flight was
\* either cancelled or in flight outside the slot then.
SweepInv ==
  swept =>
    /\ engaged
    /\ \A s \in Sends : Agent!InFlight(s) /\ s \notin cancelled => s \in late

IInv == CallTypes /\ AloneInv /\ AckInv /\ SweepInv

-----------------------------------------------------------------------------
(* What the steps of the session do to the sends.                          *)

\* A step of a send begins in flight, moves no other send and cancels none.
LEMMA SendStepMoves ==
  ASSUME pc \in [Sends -> Agent!PCs], NEW s \in Sends, Agent!SendStep(s)
  PROVE  /\ Agent!InFlight(s)
         /\ pc' \in [Sends -> Agent!PCs]
         /\ \A t \in Sends : t # s => pc'[t] = pc[t]
         /\ cancelled' = cancelled
<1> USE DEF Agent!PCs, Agent!Holding, Agent!Guarded, Agent!LoopPoints, Agent!InFlight,
            Agent!Goto, Agent!Return, Agent!LeaveLoop, Agent!RestoreByDrop
<1>1. CASE Agent!LocalStep(s)
  <2>1. CASE Agent!InstallToken(s) \/ Agent!SendWithoutSession(s) \/ Agent!TakeState(s)
    BY <2>1 DEF Agent!InstallToken, Agent!SendWithoutSession, Agent!TakeState
  <2>2. CASE Agent!BeginRound(s) \/ Agent!RoundsExhausted(s)
    BY <2>2 DEF Agent!BeginRound, Agent!RoundsExhausted
  <2>3. CASE Agent!LoopCancelled(s)
    BY <2>3 DEF Agent!LoopCancelled, Agent!CancelPoint
  <2>4. CASE Agent!StreamDone(s) \/ Agent!StartTool(s) \/ Agent!ToolsDone(s)
    BY <2>4 DEF Agent!StreamDone, Agent!StartTool, Agent!ToolsDone
  <2>5. CASE Agent!PutBack(s) \/ Agent!ClearToken(s)
    BY <2>5 DEF Agent!PutBack, Agent!ClearToken
  <2> QED BY <1>1, <2>1, <2>2, <2>3, <2>4, <2>5 DEF Agent!LocalStep
<1>2. CASE Agent!AwaitedStep(s)
  <2>1. CASE Agent!BeginTurn(s) \/ Agent!ProviderUnavailable(s) \/ Agent!ProviderFails(s)
    BY <2>1 DEF Agent!BeginTurn, Agent!ProviderUnavailable, Agent!ProviderFails
  <2>2. CASE Agent!ProviderAnswers(s) \/ Agent!ProviderCallsTools(s)
    BY <2>2 DEF Agent!ProviderAnswers, Agent!ProviderCallsTools
  <2>3. CASE Agent!ToolResult(s) \/ Agent!CompactHistory(s)
    BY <2>3 DEF Agent!ToolResult, Agent!CompactHistory
  <2> QED BY <1>2, <2>1, <2>2, <2>3 DEF Agent!AwaitedStep
<1>3. CASE Agent!FaultStep(s)
  BY <1>3 DEF Agent!FaultStep, Agent!RuntimeUnavailable, Agent!PanicUnwind,
              Agent!PanicAfterTake
<1> QED BY <1>1, <1>2, <1>3 DEF Agent!SendStep

\* A step of the session leaves the operators alone, and while the flag is set no send
\* comes into flight and none loses its cancellation.
LEMMA AgentStepMoves ==
  ASSUME pc \in [Sends -> Agent!PCs], AgentStep
  PROVE  /\ pc' \in [Sends -> Agent!PCs]
         /\ cancelled \subseteq cancelled'
         /\ engaged => \A t \in Sends : Agent!InFlight(t)' => Agent!InFlight(t)
<1> USE DEF Agent!InFlight
<1>1. CASE \E s \in Sends : ~engaged /\ Agent!SendEnter(s)
  BY <1>1 DEF Agent!SendEnter, Agent!Goto, Agent!PCs
<1>2. CASE \E s \in Sends : Agent!SendRejected(s)
  BY <1>2 DEF Agent!SendRejected, Agent!Return, Agent!Goto, Agent!PCs
<1>3. CASE \E s \in Sends : Agent!SendStep(s)
  BY <1>3, SendStepMoves
<1>4. CASE \/ Agent!SessionStart \/ Agent!SessionCancel \/ Agent!SessionSeed
           \/ Agent!SessionClear \/ Agent!DestroyCancel \/ Agent!DestroyTake
  BY <1>4 DEF Agent!SessionStart, Agent!SessionCancel, Agent!SessionSeed,
              Agent!SessionClear, Agent!DestroyCancel, Agent!DestroyTake, Agent!CancelSlot
<1> QED BY <1>1, <1>2, <1>3, <1>4 DEF AgentStep

-----------------------------------------------------------------------------
(* The invariant.                                                          *)

\* The initial states satisfy it.
LEMMA InitInv == Init => IInv
BY DEF Init, IInv, CallTypes, AloneInv, AckInv, SweepInv, Agent!Init, Agent!PCs

\* The operators' calls, the starts and the polls keep the types.
LEMMA TypeStep ==
  ASSUME CallTypes, [Next]_vars
  PROVE  CallTypes'
<1> USE DEF CallTypes, Move, agentVars, flagVars, callVars
<1>1. CASE UNCHANGED vars
  BY <1>1 DEF vars
<1>2. ASSUME NEW o \in Operators, Engage(o) \/ Resume(o) \/ CommandStep(o)
      PROVE  CallTypes'
  <2>1. CASE Engage(o) \/ Resume(o)
    BY <2>1 DEF Engage, Resume, BeginCommand
  <2>2. CASE CancelAgent(o)
    BY <2>2 DEF CancelAgent, Agent!SessionCancel
  <2>3. CASE LocateFile(o) \/ TruncateFile(o)
    BY <2>3 DEF LocateFile, TruncateFile
  <2>4. CASE WriteFile(o)
    BY <2>4 DEF WriteFile
  <2>5. CASE Report(o)
    BY <2>5 DEF Report
  <2> QED BY <1>2, <2>1, <2>2, <2>3, <2>4, <2>5 DEF CommandStep
<1>3. CASE LoadRead \/ LoadStore \/ StartEnds \/ StopDaemon
  BY <1>3 DEF LoadRead, LoadStore, StartEnds, StopDaemon
<1>4. CASE PollRead \/ PollPublish
  BY <1>4 DEF PollRead, PollPublish
<1>5. CASE ProcessDies
  <2>1. pc' \in [Sends -> Agent!PCs]
    BY <1>5 DEF ProcessDies, Agent!PCs
  <2> QED BY <1>5, <2>1 DEF ProcessDies
<1>6. CASE AgentStep
  <2>1. pc' \in [Sends -> Agent!PCs]
    BY <1>6, AgentStepMoves
  <2> QED BY <1>6, <2>1 DEF AgentStep
<1> QED BY <1>1, <1>2, <1>3, <1>4, <1>5, <1>6 DEF Next

\* A command that overlaps another, or a start, is alone no longer.
LEMMA AloneStep ==
  ASSUME IInv, [Next]_vars
  PROVE  AloneInv'
<1> USE DEF IInv, CallTypes, AloneInv, Move, SetFlag, flagVars, callVars, daemonVars
<1>1. CASE UNCHANGED vars
  BY <1>1 DEF vars
<1>2. ASSUME NEW o \in Operators, Engage(o) \/ Resume(o) \/ CommandStep(o)
      PROVE  AloneInv'
  <2>1. CASE Engage(o) \/ Resume(o)
    <3>1. PICK c \in {"engage", "resume"} : BeginCommand(o, c)
      BY <2>1 DEF Engage, Resume
    <3>2. CASE Busy = {} /\ starting = "idle"
      <4>1. /\ alone' = {o} /\ starting' = "idle" /\ command'[o] = c
            /\ engaged' = (c = "engage") /\ at'[o] \in {"cancelling", "locating"}
            /\ \A p \in Operators : p # o => at'[p] = at[p]
        BY <3>1, <3>2 DEF BeginCommand
      <4>2. \A p \in Operators : at[p] = "idle"
        BY <3>2 DEF Busy
      <4> QED BY <4>1, <4>2
    <3>3. CASE ~(Busy = {} /\ starting = "idle")
      BY <3>1, <3>3 DEF BeginCommand
    <3> QED BY <3>2, <3>3
  <2>2. CASE CancelAgent(o) \/ LocateFile(o)
    BY <2>2 DEF CancelAgent, LocateFile
  <2>3. CASE TruncateFile(o)
    BY <2>3 DEF TruncateFile
  <2>4. CASE WriteFile(o)
    BY <2>4 DEF WriteFile
  <2>5. CASE Report(o)
    BY <2>5 DEF Report
  <2> QED BY <1>2, <2>1, <2>2, <2>3, <2>4, <2>5 DEF CommandStep
<1>3. CASE LoadRead
  BY <1>3 DEF LoadRead
<1>4. CASE LoadStore \/ StartEnds
  <2>1. alone = {}
    BY <1>4 DEF LoadStore, StartEnds
  <2> QED BY <1>4, <2>1 DEF LoadStore, StartEnds
<1>5. CASE StopDaemon \/ PollRead \/ PollPublish
  BY <1>5 DEF StopDaemon, PollRead, PollPublish
<1>6. CASE ProcessDies
  BY <1>6 DEF ProcessDies
<1>7. CASE AgentStep
  BY <1>7 DEF AgentStep
<1> QED BY <1>1, <1>2, <1>3, <1>4, <1>5, <1>6, <1>7 DEF Next

\* The acknowledgement comes with the file of a call that was alone, and ends with the
\* next command; in between flag and file agree wherever a daemon runs.
LEMMA AckStep ==
  ASSUME IInv, [Next]_vars
  PROVE  AckInv'
<1> USE DEF IInv, CallTypes, AckInv, Move, SetFlag, flagVars, callVars, daemonVars, historyVars
<1>1. CASE UNCHANGED vars
  BY <1>1 DEF vars
<1>2. ASSUME NEW o \in Operators, Engage(o) \/ Resume(o) \/ CommandStep(o)
      PROVE  AckInv'
  <2>1. CASE Engage(o) \/ Resume(o)
    BY <2>1 DEF Engage, Resume, BeginCommand
  <2>2. CASE CancelAgent(o) \/ LocateFile(o) \/ TruncateFile(o)
    <3>1. ~acked /\ ~acked'
      BY <2>2 DEF CancelAgent, LocateFile, TruncateFile
    <3> QED BY <3>1
  <2>3. CASE WriteFile(o)
    <3>1. at[o] = "writing" /\ ~acked
      BY <2>3 DEF WriteFile
    <3> SUFFICES ASSUME acked' PROVE AckInv'
      OBVIOUS
    <3>2. /\ o \in alone /\ command[o] = "engage"
          /\ file' \in Overwrite(file, Record(command[o]))
      BY <2>3, <3>1 DEF WriteFile
    <3>3. /\ starting = "idle" /\ engaged /\ file = "empty"
          /\ \A p \in Operators : p # o => at[p] = "idle"
      BY <3>1, <3>2 DEF AloneInv
    <3>4. file' = "engaged"
      BY <3>2, <3>3 DEF Overwrite, Record
    <3>5. /\ starting' = starting /\ engaged' = engaged
          /\ at' = [at EXCEPT ![o] = "reporting"]
      BY <2>3 DEF WriteFile
    <3> QED BY <3>3, <3>4, <3>5
  <2>4. CASE Report(o)
    BY <2>4 DEF Report
  <2> QED BY <1>2, <2>1, <2>2, <2>3, <2>4 DEF CommandStep
<1>3. CASE LoadRead
  BY <1>3 DEF LoadRead
<1>4. CASE LoadStore
  <2>1. CASE loaded = "engaged"
    BY <1>4, <2>1 DEF LoadStore
  <2>2. CASE loaded = "unread" /\ engaged
    BY <1>4, <2>2 DEF LoadStore
  <2>3. CASE loaded = "unread" /\ ~engaged
    <3>1. /\ acked' = acked /\ deaths' = deaths /\ starting' = "starting"
          /\ at' = at /\ file' = file /\ engaged' = engaged
          /\ blind' = (blind \/ (loaded = "unread" /\ ~engaged))
      BY <1>4, <2>3 DEF LoadStore
    <3>2. blind'
      BY <2>3, <3>1
    <3> QED BY <2>3, <3>1, <3>2
  <2>4. CASE loaded \notin {"engaged", "unread"}
    BY <1>4, <2>4 DEF LoadStore
  <2> QED BY <2>1, <2>2, <2>3, <2>4
<1>5. CASE StartEnds \/ StopDaemon
  BY <1>5 DEF StartEnds, StopDaemon
<1>6. CASE PollRead \/ PollPublish
  BY <1>6 DEF PollRead, PollPublish
<1>7. CASE ProcessDies
  BY <1>7 DEF ProcessDies
<1>8. CASE AgentStep
  BY <1>8 DEF AgentStep
<1> QED BY <1>1, <1>2, <1>3, <1>4, <1>5, <1>6, <1>7, <1>8 DEF Next

\* A cancel sweeps the slot; from then on sends only leave, as long as the flag stands.
LEMMA SweepStep ==
  ASSUME IInv, [Next]_vars
  PROVE  SweepInv'
<1> USE DEF IInv, CallTypes, SweepInv, SetFlag, Agent!InFlight, agentVars, flagVars, historyVars
<1>1. CASE UNCHANGED vars
  BY <1>1 DEF vars
<1>2. ASSUME NEW o \in Operators, Engage(o) \/ Resume(o) \/ CommandStep(o)
      PROVE  SweepInv'
  <2>1. CASE Engage(o) \/ Resume(o)
    <3>1. PICK c \in {"engage", "resume"} : BeginCommand(o, c)
      BY <2>1 DEF Engage, Resume
    <3> QED BY <3>1 DEF BeginCommand
  <2>2. CASE CancelAgent(o)
    <3>1. /\ cancelled' = cancelled \cup ({cancel_token} \ {NoSend})
          /\ pc' = pc /\ engaged' = engaged /\ swept' = engaged
          /\ late' = {s \in Sends : Agent!InFlight(s) /\ s # cancel_token}
      BY <2>2 DEF CancelAgent, Agent!SessionCancel, Agent!CancelSlot
    <3> QED BY <3>1, NoSendAssumption
  <2>3. CASE LocateFile(o) \/ TruncateFile(o)
    BY <2>3 DEF LocateFile, TruncateFile
  <2>4. CASE WriteFile(o) \/ Report(o)
    BY <2>4 DEF WriteFile, Report
  <2> QED BY <1>2, <2>1, <2>2, <2>3, <2>4 DEF CommandStep
<1>3. CASE LoadRead \/ StartEnds \/ StopDaemon
  BY <1>3 DEF LoadRead, StartEnds, StopDaemon
<1>4. CASE LoadStore
  BY <1>4 DEF LoadStore
<1>5. CASE PollRead \/ PollPublish
  BY <1>5 DEF PollRead, PollPublish
<1>6. CASE ProcessDies
  BY <1>6 DEF ProcessDies
<1>7. CASE AgentStep
  <2>1. swept' = swept /\ engaged' = engaged /\ late' = late
    BY <1>7 DEF AgentStep
  <2>2. /\ cancelled \subseteq cancelled'
        /\ engaged => \A t \in Sends : Agent!InFlight(t)' => Agent!InFlight(t)
    BY <1>7, AgentStepMoves
  <2> QED BY <2>1, <2>2
<1> QED BY <1>1, <1>2, <1>3, <1>4, <1>5, <1>6, <1>7 DEF Next

\* The invariant holds in every behaviour.
LEMMA Safety == Spec => []IInv
<1>1. IInv /\ [Next]_vars => IInv'
  BY TypeStep, AloneStep, AckStep, SweepStep DEF IInv
<1> QED BY <1>1, InitInv, PTL DEF Spec

\* For any operators and sends: an emergency stop that was persisted alone holds whenever
\* the daemon runs, through stops, restarts and deaths of the process, unless it died and no
\* load since has been able to read the file.
THEOREM StopSurvives == Spec => []AcknowledgedStopHolds
<1>1. IInv => AcknowledgedStopHolds
  BY DEF IInv, AckInv, AcknowledgedStopHolds
<1> QED BY <1>1, Safety, PTL

\* For any operators and sends: while the flag stands, only sends that had passed the
\* entry check and did not own the slot escape the cancel.
THEOREM EscapesAreLate == Spec => []OnlyLateSendsEscape
<1>1. IInv => OnlyLateSendsEscape
  BY DEF IInv, SweepInv, OnlyLateSendsEscape, Agent!InFlight, Agent!LoopPoints
<1> QED BY <1>1, Safety, PTL
-----------------------------------------------------------------------------
(* The session under the stop.                                             *)

\* The two instances of AgentSession are the same module: a step of a send in one is a step
\* of it in the other.
LEMMA SameSendStep ==
  ASSUME NEW s \in Sends, Agent!SendStep(s)
  PROVE  AgentProofs!SendStep(s)
<1> USE DEF
      Agent!Holding, Agent!Guarded, Agent!LoopPoints, Agent!Active, Agent!NoWork, Agent!Msg,
      Agent!TurnMsg, Agent!Push, Agent!Goto, Agent!Return, Agent!LeaveLoop, Agent!WriteBack,
      Agent!lifecycle, AgentProofs!Holding, AgentProofs!Guarded, AgentProofs!LoopPoints,
      AgentProofs!Active, AgentProofs!NoWork, AgentProofs!Msg, AgentProofs!TurnMsg,
      AgentProofs!Push, AgentProofs!Goto, AgentProofs!Return, AgentProofs!LeaveLoop,
      AgentProofs!WriteBack, AgentProofs!lifecycle
<1>1. CASE Agent!LocalStep(s)
  <2>1. AgentProofs!LocalStep(s)
    BY <1>1 DEF
      Agent!LocalStep, Agent!InstallToken, Agent!SendWithoutSession, Agent!TakeState,
      Agent!BeginRound, Agent!RoundsExhausted, Agent!LoopCancelled, Agent!CancelPoint,
      Agent!StreamDone, Agent!StartTool, Agent!ToolsDone, Agent!PutBack, Agent!Take,
      Agent!ClearToken, AgentProofs!LocalStep, AgentProofs!InstallToken,
      AgentProofs!SendWithoutSession, AgentProofs!TakeState, AgentProofs!BeginRound,
      AgentProofs!RoundsExhausted, AgentProofs!LoopCancelled, AgentProofs!CancelPoint,
      AgentProofs!StreamDone, AgentProofs!StartTool, AgentProofs!ToolsDone, AgentProofs!PutBack,
      AgentProofs!Take, AgentProofs!ClearToken
  <2> QED BY <2>1 DEF AgentProofs!SendStep
<1>2. CASE Agent!AwaitedStep(s)
  <2>1. AgentProofs!AwaitedStep(s)
    BY <1>2 DEF
      Agent!AwaitedStep, Agent!BeginTurn, Agent!ProviderUnavailable, Agent!ProviderFails,
      Agent!ProviderAnswers, Agent!ProviderCallsTools, Agent!ToolResult, Agent!CompactHistory,
      Agent!Compact, AgentProofs!AwaitedStep, AgentProofs!BeginTurn,
      AgentProofs!ProviderUnavailable, AgentProofs!ProviderFails, AgentProofs!ProviderAnswers,
      AgentProofs!ProviderCallsTools, AgentProofs!ToolResult, AgentProofs!CompactHistory,
      AgentProofs!Compact
  <2> QED BY <2>1 DEF AgentProofs!SendStep
<1>3. CASE Agent!FaultStep(s)
  <2>1. AgentProofs!FaultStep(s)
    BY <1>3 DEF
      Agent!FaultStep, Agent!RuntimeUnavailable, Agent!PanicUnwind, Agent!PanicAfterTake,
      Agent!RestoreByDrop, AgentProofs!FaultStep, AgentProofs!RuntimeUnavailable,
      AgentProofs!PanicUnwind, AgentProofs!PanicAfterTake, AgentProofs!RestoreByDrop
  <2> QED BY <2>1 DEF AgentProofs!SendStep
<1> QED BY <1>1, <1>2, <1>3 DEF Agent!SendStep

\* A step of the session under the stop is one of those it takes without it.
LEMMA SameAgentStep == AgentStep => AgentProofs!Next
<1> SUFFICES ASSUME AgentStep PROVE AgentProofs!Next
  OBVIOUS
<1> USE DEF AgentProofs!Next, Agent!Active, AgentProofs!Active, Agent!Msg, AgentProofs!Msg,
      Agent!lifecycle, AgentProofs!lifecycle, Agent!Goto, AgentProofs!Goto,
      Agent!Return, AgentProofs!Return, Agent!CancelSlot, AgentProofs!CancelSlot
<1>1. CASE \E s \in Sends : Agent!SendEnter(s) \/ Agent!SendRejected(s)
  BY <1>1 DEF AgentProofs!Arrive, Agent!SendEnter, AgentProofs!SendEnter,
     Agent!SendRejected, AgentProofs!SendRejected
<1>2. CASE \E s \in Sends : Agent!SendStep(s)
  BY <1>2, SameSendStep
<1>3. CASE Agent!SessionStart \/ Agent!SessionSeed \/ Agent!SessionClear
  BY <1>3 DEF Agent!SessionStart, AgentProofs!SessionStart, Agent!SessionSeed,
     AgentProofs!SessionSeed, Agent!SessionClear, AgentProofs!SessionClear
<1>4. CASE Agent!SessionCancel \/ Agent!DestroyCancel \/ Agent!DestroyTake
  BY <1>4 DEF Agent!SessionCancel, AgentProofs!SessionCancel, Agent!DestroyCancel,
     AgentProofs!DestroyCancel, Agent!DestroyTake, AgentProofs!DestroyTake,
     Agent!NoSession, AgentProofs!NoSession
<1> QED BY <1>1, <1>2, <1>3, <1>4 DEF AgentStep

\* Engaging cancels the running send as session_cancel does.
LEMMA EngageCancels == ASSUME NEW o \in Operators, CancelAgent(o) PROVE AgentProofs!Next
BY DEF CancelAgent, AgentProofs!Next, Agent!SessionCancel, AgentProofs!SessionCancel,
   Agent!CancelSlot, AgentProofs!CancelSlot, Agent!lifecycle, AgentProofs!lifecycle

\* The death of the process leaves an idle session.
LEMMA DeathIdles ==
  ASSUME AgentProofs!SessionInv, ProcessDies
  PROVE  AgentProofs!Idle'
<1> USE DEF AgentProofs!SessionInv, AgentProofs!IInv, AgentProofs!TypeOK, ProcessDies
<1>1. /\ session' = AgentProofs!NoSession /\ cancel_token' = NoSend /\ cancelled' = {}
      /\ opened' \in 0..MaxSessions /\ destroying' = FALSE
      /\ work' = [s \in Sends |-> AgentProofs!NoWork]
  BY DEF Agent!NoSession, AgentProofs!NoSession, Agent!NoWork, AgentProofs!NoWork
<1>2. pc' \in [Sends -> {"idle", "done"}]
  BY DEF Agent!InFlight
<1>3. outcome' \in [Sends -> AgentProofs!Outcomes]
  BY DEF AgentProofs!Outcomes
<1>4. \A s \in Sends : pc'[s] = "idle" => outcome'[s] = "none"
  BY DEF Agent!InFlight, AgentProofs!PointInv
<1> QED BY <1>1, <1>2, <1>3, <1>4 DEF AgentProofs!Idle, AgentProofs!NoWork, AgentProofs!Outcomes

\* So the invariant of the session carries over to every behaviour under the stop.
LEMMA SessionUnderStop == Spec => []AgentProofs!SessionInv
<1> USE NoSendAssumption, SessionBoundsAssumption
<1>1. AgentProofs!Idle => AgentProofs!SessionInv
  BY AgentProofs!IdleSession
<1>2. Init => AgentProofs!Idle
  <2>1. Agent!Init => AgentProofs!Init
    BY DEF Agent!Init, AgentProofs!Init, Agent!NoSession, AgentProofs!NoSession,
       Agent!NoWork, AgentProofs!NoWork
  <2> QED BY <2>1, AgentProofs!InitIdle DEF Init
<1>3. AgentProofs!SessionInv /\ ProcessDies => AgentProofs!Idle'
  BY DeathIdles
<1>4. AgentProofs!SessionInv /\ [AgentProofs!Next]_(AgentProofs!vars) => AgentProofs!SessionInv'
  BY AgentProofs!SessionStep
<1>5. [Next]_vars => [AgentProofs!Next]_(AgentProofs!vars) \/ ProcessDies
  <2> SUFFICES ASSUME [Next]_vars, ~ProcessDies
               PROVE  AgentProofs!Next \/ UNCHANGED AgentProofs!vars
    OBVIOUS
  <2> USE DEF AgentProofs!vars, agentVars
  <2>1. CASE UNCHANGED vars
    BY <2>1 DEF vars
  <2>2. ASSUME NEW o \in Operators, Engage(o) \/ Resume(o) \/ CommandStep(o)
        PROVE  AgentProofs!Next \/ UNCHANGED AgentProofs!vars
    BY <2>2, EngageCancels DEF Engage, Resume, BeginCommand, CommandStep, LocateFile,
       TruncateFile, WriteFile, Report
  <2>3. CASE \/ LoadRead \/ LoadStore \/ StartEnds \/ StopDaemon \/ PollRead \/ PollPublish
    BY <2>3 DEF LoadRead, LoadStore, StartEnds, StopDaemon, PollRead, PollPublish
  <2>4. CASE AgentStep
    BY <2>4, SameAgentStep
  <2> QED BY <2>1, <2>2, <2>3, <2>4 DEF Next
<1> QED BY <1>1, <1>2, <1>3, <1>4, <1>5, PTL DEF Spec

\* What AgentSession promises of the conversation and of the token slot.
SessionSafe ==
  Agent!TokenHasOwner /\ Agent!OnlyCommittedTurns /\ Agent!WholeTurns /\ Agent!ResultsPaired

\* For any operators and sends, whatever commands, starts, stops and deaths of the process
\* come in between: no failed turn shows in the conversation, turns are whole, results have
\* their calls, calls without all their results are only at the end of a turn that was
\* cancelled (as a stop does) or panicked, and a token in the slot has its owner.
THEOREM SessionStaysSafe == Spec => []SessionSafe
<1>1. AgentProofs!SessionInv => AgentProofs!TokenHasOwner /\ AgentProofs!OnlyCommittedTurns
  BY NoSendAssumption, SessionBoundsAssumption, AgentProofs!RollbackInv
     DEF AgentProofs!SessionInv, AgentProofs!IInv, AgentProofs!TokenInv
<1>2. AgentProofs!SessionInv => AgentProofs!WholeTurns /\ AgentProofs!ResultsPaired
  BY NoSendAssumption, SessionBoundsAssumption, AgentProofs!WholeInv, AgentProofs!PairedInv
<1>3. AgentProofs!TokenHasOwner /\ AgentProofs!OnlyCommittedTurns
        => Agent!TokenHasOwner /\ Agent!OnlyCommittedTurns
  BY DEF
     Agent!TokenHasOwner, Agent!OnlyCommittedTurns, Agent!TurnMessages, Agent!Committed,
     AgentProofs!TokenHasOwner, AgentProofs!OnlyCommittedTurns, AgentProofs!TurnMessages,
     AgentProofs!Committed
<1>4. AgentProofs!WholeTurns => Agent!WholeTurns
  BY DEF
     Agent!WholeTurns, Agent!TurnMessages, Agent!Committed, Agent!Starts, Agent!Ends,
     AgentProofs!WholeTurns, AgentProofs!TurnMessages, AgentProofs!Committed, AgentProofs!Starts,
     AgentProofs!Ends
<1>5. AgentProofs!ResultsPaired => Agent!ResultsPaired
  BY DEF
     Agent!ResultsPaired, Agent!TurnMessages, Agent!Committed, Agent!CallsAnswered,
     Agent!HasItsCalls, Agent!CutShort, AgentProofs!ResultsPaired, AgentProofs!TurnMessages,
     AgentProofs!Committed, AgentProofs!CallsAnswered, AgentProofs!HasItsCalls,
     AgentProofs!CutShort
<1>6. AgentProofs!SessionInv => SessionSafe
  BY <1>1, <1>2, <1>3, <1>4, <1>5 DEF SessionSafe
<1> QED BY <1>6, SessionUnderStop, PTL

-----------------------------------------------------------------------------
(* Types.                                                                  *)

\* The variables of the stop that CallTypes leaves out.
OwnTypes ==
  /\ {engaged, swept, blind, up, ui, acked} \subseteq BOOLEAN
  /\ file \in Files /\ loaded \in Loads
  /\ starting \in {"idle", "loaded", "starting"}
  /\ polled \in {"none", "engaged", "resumed"}
  /\ late \subseteq Sends
  /\ commands \in 0..MaxCommands /\ starts \in 0..MaxStarts /\ deaths \in 0..MaxDeaths

\* Every step keeps them.
LEMMA OwnTypesStep == CallTypes /\ OwnTypes /\ [Next]_vars => OwnTypes'
<1> SUFFICES ASSUME CallTypes, OwnTypes, [Next]_vars PROVE OwnTypes'
  OBVIOUS
<1>1. {MaxCommands, MaxStarts, MaxDeaths} \subseteq Nat
  BY EstopBoundsAssumption
<1> USE <1>1 DEF OwnTypes, CallTypes, SetFlag, flagVars, callVars, daemonVars, uiVars, historyVars
<1>2. CASE UNCHANGED vars
  BY <1>2 DEF vars
<1>3. ASSUME NEW o \in Operators, Engage(o) \/ Resume(o) \/ CommandStep(o)
      PROVE  OwnTypes'
  <2>1. CASE Engage(o) \/ Resume(o)
    <3>1. PICK c \in {"engage", "resume"} : BeginCommand(o, c)
      BY <2>1 DEF Engage, Resume
    <3>2. {engaged', swept', blind', up', ui', acked'} \subseteq BOOLEAN
      BY <3>1 DEF BeginCommand
    <3>3. commands' \in 0..MaxCommands
      BY <3>1 DEF BeginCommand
    <3> QED BY <3>1, <3>2, <3>3 DEF BeginCommand
  <2>2. CASE CancelAgent(o) \/ LocateFile(o)
    BY <2>2 DEF CancelAgent, LocateFile
  <2>3. CASE TruncateFile(o)
    BY <2>3 DEF TruncateFile, Files
  <2>4. CASE WriteFile(o)
    <3>1. Overwrite(file, Record(command[o])) \subseteq Files
      BY DEF Overwrite, Record, Files
    <3> QED BY <2>4, <3>1 DEF WriteFile
  <2>5. CASE Report(o)
    BY <2>5 DEF Report
  <2> QED BY <1>3, <2>1, <2>2, <2>3, <2>4, <2>5 DEF CommandStep
<1>4. CASE LoadRead
  BY <1>4 DEF LoadRead, Loads
<1>5. CASE LoadStore
  <2>1. {engaged', swept', blind', up', ui', acked'} \subseteq BOOLEAN
    BY <1>5 DEF LoadStore
  <2> QED BY <1>5, <2>1 DEF LoadStore
<1>6. CASE StartEnds \/ StopDaemon
  BY <1>6 DEF StartEnds, StopDaemon, Loads, Files
<1>7. CASE PollRead \/ PollPublish
  BY <1>7 DEF PollRead, PollPublish
<1>8. CASE ProcessDies
  <2>1. {engaged', swept', blind', up', ui', acked'} \subseteq BOOLEAN
    BY <1>8 DEF ProcessDies
  <2>2. deaths' \in 0..MaxDeaths
    BY <1>8 DEF ProcessDies
  <2> QED BY <1>8, <2>1, <2>2 DEF ProcessDies, Loads, Files
<1>9. CASE AgentStep
  BY <1>9 DEF AgentStep
<1> QED BY <1>2, <1>3, <1>4, <1>5, <1>6, <1>7, <1>8, <1>9 DEF Next

\* They hold in every behaviour.
LEMMA TypesHold == Spec => []OwnTypes
<1>1. Init => OwnTypes
  <2> SUFFICES ASSUME Init PROVE OwnTypes
    OBVIOUS
  <2>1. {engaged, swept, blind, up, ui, acked} \subseteq BOOLEAN
    BY DEF Init
  <2>2. commands \in 0..MaxCommands /\ starts \in 0..MaxStarts /\ deaths \in 0..MaxDeaths
    BY EstopBoundsAssumption DEF Init
  <2> QED BY <2>1, <2>2 DEF Init, OwnTypes, Loads, Files
<1>2. IInv => CallTypes
  BY DEF IInv
<1> QED BY <1>1, <1>2, OwnTypesStep, Safety, PTL DEF Spec

\* For any operators and sends, whatever commands, starts, stops and deaths of the process
\* come in between: the session, its slots and sends, the flag, the file and the calls keep
\* their types.
THEOREM TypeCorrect == Spec => []TypeOK
<1>1. AgentProofs!TypeOK => Agent!TypeOK
  BY DEF
     Agent!TypeOK, Agent!Session, Agent!Message, Agent!Roles, Agent!Work, Agent!PCs,
     Agent!Holding, Agent!Guarded, Agent!LoopPoints, Agent!Outcomes, AgentProofs!TypeOK,
     AgentProofs!Session, AgentProofs!Message, AgentProofs!Roles, AgentProofs!Work,
     AgentProofs!PCs, AgentProofs!Holding, AgentProofs!Guarded, AgentProofs!LoopPoints,
     AgentProofs!Outcomes
<1>2. AgentProofs!SessionInv /\ IInv /\ OwnTypes => TypeOK
  BY <1>1 DEF AgentProofs!SessionInv, AgentProofs!IInv, IInv, CallTypes, OwnTypes, TypeOK
<1> QED BY <1>2, TypesHold, SessionUnderStop, Safety, PTL

\* What can lower the flag of an engage that was persisted alone: the next command, and
\* the death of the process, which the file survives.
OnlyDeathLowers == acked /\ engaged /\ ~engaged' => ~acked' \/ deaths' # deaths

\* For any operators and sends: no start or stop of the daemon, no poll and no step of the
\* session resumes what an acknowledged engage has stopped.
THEOREM NothingElseResumes == Spec => [][OnlyDeathLowers]_vars
<1>1. IInv /\ OwnTypes /\ [Next]_vars => [OnlyDeathLowers]_vars
  <2> SUFFICES ASSUME IInv, OwnTypes, Next, acked, engaged, ~engaged', acked', deaths' = deaths
               PROVE  FALSE
    BY DEF OnlyDeathLowers
  <2> USE DEF flagVars, callVars, daemonVars, uiVars, historyVars, SetFlag
  <2>1. CASE \E o \in Operators : Engage(o) \/ Resume(o)
    BY <2>1 DEF Engage, Resume, BeginCommand
  <2>2. CASE \E o \in Operators : CommandStep(o)
    BY <2>2 DEF CommandStep, CancelAgent, LocateFile, TruncateFile, WriteFile, Report
  <2>3. CASE LoadStore
    BY <2>3 DEF LoadStore, IInv, AckInv
  <2>4. CASE LoadRead \/ StartEnds \/ StopDaemon
    BY <2>4 DEF LoadRead, StartEnds, StopDaemon
  <2>5. CASE PollRead \/ PollPublish \/ AgentStep
    BY <2>5 DEF PollRead, PollPublish, AgentStep
  <2>6. CASE ProcessDies
    <3>1. deaths \in Nat
      BY EstopBoundsAssumption DEF OwnTypes
    <3> QED BY <2>6, <3>1 DEF ProcessDies
  <2> QED BY <2>1, <2>2, <2>3, <2>4, <2>5, <2>6 DEF Next
<1> QED BY <1>1, Safety, TypesHold, PTL DEF Spec

-----------------------------------------------------------------------------
(* The stop adds nothing to the session.                                   *)

\* For any operators and sends, as long as the process lives: the session under commands,
\* loads, restarts and polls behaves as the session alone, with fewer sends.  The stop
\* reaches into it by refusing a send at its entry and by session_cancel only, so what
\* holds of all behaviours of AgentSession holds here from one death to the next.
THEOREM StopOnlyRestricts == Spec /\ [][~ProcessDies]_vars => Agent!Spec
<1>1. Init => Agent!Init
  BY DEF Init
<1>2. [Next]_vars /\ [~ProcessDies]_vars => [Agent!Next]_(Agent!vars)
  <2> SUFFICES ASSUME [Next]_vars, [~ProcessDies]_vars
               PROVE  Agent!Next \/ UNCHANGED Agent!vars
    OBVIOUS
  <2> USE DEF Agent!vars, agentVars
  <2>1. CASE UNCHANGED vars
    BY <2>1 DEF vars
  <2>2. CASE AgentStep
    BY <2>2 DEF AgentStep, Agent!Next, Agent!Arrive
  <2>3. CASE \E o \in Operators : CancelAgent(o)
    BY <2>3 DEF CancelAgent, Agent!Next
  <2>4. CASE \E o \in Operators : \/ Engage(o) \/ Resume(o) \/ LocateFile(o)
                                  \/ TruncateFile(o) \/ WriteFile(o) \/ Report(o)
    BY <2>4 DEF Engage, Resume, BeginCommand, LocateFile, TruncateFile, WriteFile, Report
  <2>5. CASE LoadRead \/ LoadStore \/ StartEnds \/ StopDaemon \/ PollRead \/ PollPublish
    BY <2>5 DEF LoadRead, LoadStore, StartEnds, StopDaemon, PollRead, PollPublish
  <2> QED BY <2>1, <2>2, <2>3, <2>4, <2>5 DEF Next, CommandStep
<1> QED BY <1>1, <1>2, PTL DEF Spec, Agent!Spec
=============================================================================
