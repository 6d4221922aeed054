--------------------------- MODULE EmergencyStop ---------------------------
(***************************************************************************)
(* The emergency stop (zeroclaw-ffi/src/estop.rs): a global flag checked   *)
(* where a send enters, a cancel of the running send, and a file that is   *)
(* loaded by start_daemon.  Composed with AgentSession, whose sends it     *)
(* refuses and cancels, with the daemon slot (up or down) that decides     *)
(* whether the file can be found, with the death of the process, and with  *)
(* the polling EstopRepository.kt of the app.                              *)
(*                                                                         *)
(* Operators are threads that call engage_estop and resume_estop.  The     *)
(* variables acked, alone, swept and late are history, read by the         *)
(* properties only, and so is blind.                                       *)
(***************************************************************************)
EXTENDS Integers, Sequences

CONSTANTS Sends, NoSend, MaxRounds, MaxCalls, CompactAt, KeepRecent, MaxSeed,
          MaxSessions, SeedBound, LatePanics,
          Operators,
          MaxCommands,     \* bound: engage and resume calls in a behaviour
          MaxStarts,       \* bound: start_daemon calls in a behaviour
          MaxDeaths,       \* bound: process deaths in a behaviour
          Polling          \* setPollingEnabled

ASSUME EstopBoundsAssumption ==
  {MaxCommands, MaxStarts, MaxDeaths} \subseteq Nat /\ Polling \in BOOLEAN
ASSUME NoSendAssumption == NoSend \notin Sends
ASSUME SessionBoundsAssumption ==    \* what AgentSession assumes of its bounds
  /\ {MaxRounds, MaxCalls, CompactAt, KeepRecent, MaxSeed} \subseteq Nat
  /\ {MaxSessions, SeedBound} \subseteq Nat
  /\ MaxRounds > 0
  /\ LatePanics \in BOOLEAN

VARIABLES session, cancel_token, cancelled, opened, destroying, pc, work, outcome

Agent == INSTANCE AgentSession

VARIABLES engaged,     \* ESTOP_ENGAGED
          file,        \* estop-state.json
          up,          \* DAEMON holds a daemon, so get_data_dir succeeds
          starting,    \* a start_daemon call: where it is
          loaded,      \* what its load_state has read
          command,     \* the call each operator makes
          at,          \* where that call is
          ui,          \* EstopRepository._engaged
          polled,      \* what its polling loop has read, or "none"
          commands, starts, deaths,
          acked,       \* an engage call was persisted and nothing overlapped it
          alone,       \* operators nothing has overlapped so far
          swept,       \* the flag has been set ever since a session cancel
          blind,       \* a load that could not read the file left the flag clear
          late         \* sends that were in flight but not in the slot then

agentVars == <<session, cancel_token, cancelled, opened, destroying, pc, work, outcome>>
flagVars == <<engaged, swept, blind>>
callVars == <<command, at, commands, alone>>
daemonVars == <<up, starting, loaded, starts>>
uiVars == <<ui, polled>>
historyVars == <<acked, late>>
vars == <<agentVars, flagVars, callVars, daemonVars, uiVars, historyVars, file, deaths>>

Files == {"absent", "empty", "mixed", "engaged", "resumed"}
Loads == Files \cup {"unread"}    \* what load_state has of the file

Init ==
  /\ Agent!Init
  /\ engaged = FALSE /\ swept = FALSE /\ blind = FALSE
  /\ file \in {"absent", "engaged", "resumed"}
  /\ up = FALSE /\ starting = "idle" /\ loaded = "absent"
  /\ command = [o \in Operators |-> "none"]
  /\ at = [o \in Operators |-> "idle"]
  /\ ui = FALSE /\ polled = "none"
  /\ commands = 0 /\ starts = 0 /\ deaths = 0
  /\ acked = FALSE /\ alone = {} /\ late = {}

\* The flag; the history of what has been swept follows it, and it is no longer
\* what a failed load left behind.
SetFlag(value) == engaged' = value /\ swept' = (swept /\ value) /\ blind' = FALSE

-----------------------------------------------------------------------------
(* engage_estop and resume_estop.                                          *)

Busy == {o \in Operators : at[o] # "idle"}
Move(o, point) == at' = [at EXCEPT ![o] = point]

\* The first statement of either call: store the flag.
BeginCommand(o, c) ==
  /\ at[o] = "idle"
  /\ commands < MaxCommands
  /\ commands' = commands + 1
  /\ command' = [command EXCEPT ![o] = c]
  /\ SetFlag(c = "engage")
  /\ Move(o, IF c = "engage" THEN "cancelling" ELSE "locating")
  /\ alone' = IF Busy = {} /\ starting = "idle" THEN {o} ELSE {}
  /\ acked' = FALSE
  /\ UNCHANGED <<agentVars, daemonVars, uiVars, late, file, deaths>>

Engage(o) == BeginCommand(o, "engage")
Resume(o) == BeginCommand(o, "resume")

\* session_cancel_inner: the one token in the slot.
CancelAgent(o) ==
  /\ at[o] = "cancelling"
  /\ Agent!SessionCancel
  /\ swept' = engaged
  /\ late' = {s \in Sends : Agent!InFlight(s) /\ s # cancel_token}
  /\ Move(o, "locating")
  /\ UNCHANGED <<engaged, blind, command, commands, alone, daemonVars, uiVars,
                 acked, file, deaths>>

\* get_data_dir fails unless the daemon is in its slot.
LocateFile(o) ==
  /\ at[o] = "locating"
  /\ Move(o, IF up THEN "truncating" ELSE "reporting")
  /\ UNCHANGED <<agentVars, flagVars, command, commands, alone, daemonVars, uiVars,
                 historyVars, file, deaths>>

\* fs::write opens and truncates, then writes; either may fail (it is logged).
TruncateFile(o) ==
  /\ at[o] = "truncating"
  /\ \/ file' = "empty" /\ Move(o, "writing")
     \/ UNCHANGED file /\ Move(o, "reporting")
  /\ UNCHANGED <<agentVars, flagVars, command, commands, alone, daemonVars, uiVars,
                 historyVars, deaths>>

\* The resumed record is shorter than the engaged one: written over it without
\* a truncation in between, it leaves a tail that does not parse.
Overwrite(old, new) ==
  IF old \in {"engaged", "mixed"}
  THEN IF new = "resumed" THEN {"mixed"} ELSE {"engaged", "mixed"}
  ELSE {new}

\* Mutant: the record names the command, which load_state does not know.
RecordCommand(c) == c

Record(c) == IF c = "engage" THEN "engaged" ELSE "resumed"

WriteFile(o) ==
  /\ at[o] = "writing"
  /\ \/ /\ file' \in Overwrite(file, Record(command[o]))
        /\ acked' = (o \in alone /\ command[o] = "engage")
     \/ UNCHANGED <<file, acked>>
  /\ Move(o, "reporting")
  /\ UNCHANGED <<agentVars, flagVars, command, commands, alone, daemonVars, uiVars,
                 late, deaths>>

\* The call returns and EstopRepository sets its own flag.
Report(o) ==
  /\ at[o] = "reporting"
  /\ ui' = (command[o] = "engage")
  /\ Move(o, "idle")
  /\ command' = [command EXCEPT ![o] = "none"]
  /\ alone' = alone \ {o}
  /\ UNCHANGED <<agentVars, flagVars, commands, daemonVars, polled, acked, late, file, deaths>>

CommandStep(o) ==
  \/ CancelAgent(o) \/ LocateFile(o) \/ TruncateFile(o) \/ WriteFile(o) \/ Report(o)

-----------------------------------------------------------------------------
(* start_daemon and stop_daemon, as far as the emergency stop sees them.   *)

\* load_state, called before the "already running" check: read, then store.  A file
\* that is there may fail to be read, and then load_state just returns.
LoadRead ==
  /\ starting = "idle"
  /\ starts < MaxStarts
  /\ starts' = starts + 1
  /\ \/ loaded' = file
     \/ file # "absent" /\ loaded' = "unread"
  /\ starting' = "loaded"
  /\ alone' = {}
  /\ UNCHANGED <<agentVars, flagVars, command, at, commands, up, uiVars, historyVars,
                 file, deaths>>

\* Mutant: the file is read and not applied.
LoadStoreForgotten ==
  /\ starting = "loaded"
  /\ starting' = "starting"
  /\ UNCHANGED <<agentVars, flagVars, callVars, up, loaded, starts, uiVars, historyVars,
                 file, deaths>>

LoadStore ==
  /\ starting = "loaded"
  /\ IF loaded \in {"engaged", "resumed"}
     THEN SetFlag(loaded = "engaged")
     ELSE /\ UNCHANGED <<engaged, swept>>
          /\ blind' = (blind \/ (loaded = "unread" /\ ~engaged))
  /\ starting' = "starting"
  /\ UNCHANGED <<agentVars, callVars, up, loaded, starts, uiVars, historyVars, file, deaths>>

\* Published, or failed: already running, or any later error.
StartEnds ==
  /\ starting = "starting"
  /\ up' \in {up, TRUE}
  /\ starting' = "idle"
  /\ loaded' = "absent"
  /\ UNCHANGED <<agentVars, flagVars, callVars, starts, uiVars, historyVars, file, deaths>>

StopDaemon ==
  /\ up
  /\ up' = FALSE
  /\ UNCHANGED <<agentVars, flagVars, callVars, starting, loaded, starts, uiVars, historyVars,
                 file, deaths>>

-----------------------------------------------------------------------------
(* EstopRepository's polling loop: read the status, then publish it.       *)

PollRead ==
  /\ Polling
  /\ polled = "none"
  /\ polled' = IF engaged THEN "engaged" ELSE "resumed"
  /\ UNCHANGED <<agentVars, flagVars, callVars, daemonVars, ui, historyVars, file, deaths>>

\* Mutant: the poll raises the app's flag and never lowers it.
PollPublishRaises ==
  /\ polled # "none"
  /\ ui' = (ui \/ polled = "engaged")
  /\ polled' = "none"
  /\ UNCHANGED <<agentVars, flagVars, callVars, daemonVars, historyVars, file, deaths>>

PollPublish ==
  /\ polled # "none"
  /\ ui' = (polled = "engaged")
  /\ polled' = "none"
  /\ UNCHANGED <<agentVars, flagVars, callVars, daemonVars, historyVars, file, deaths>>

-----------------------------------------------------------------------------
(* The process dies: only the file is left.  Calls in flight never return. *)

ProcessDies ==
  /\ deaths < MaxDeaths
  /\ deaths' = deaths + 1
  /\ session' = Agent!NoSession
  /\ cancel_token' = NoSend
  /\ cancelled' = {}
  /\ destroying' = FALSE
  /\ pc' = [s \in Sends |-> IF Agent!InFlight(s) THEN "done" ELSE pc[s]]
  /\ outcome' = [s \in Sends |-> IF Agent!InFlight(s) THEN "lost" ELSE outcome[s]]
  /\ work' = [s \in Sends |-> Agent!NoWork]
  /\ SetFlag(FALSE)
  /\ up' = FALSE /\ starting' = "idle" /\ loaded' = "absent"
  /\ command' = [o \in Operators |-> "none"]
  /\ at' = [o \in Operators |-> "idle"]
  /\ alone' = {}
  /\ ui' = FALSE /\ polled' = "none"
  /\ late' = {}
  /\ UNCHANGED <<opened, commands, starts, acked, file>>

-----------------------------------------------------------------------------
(* The agent session under the emergency stop.                             *)

\* Mutant: session_send does not look at the flag.
AgentStepUnchecked ==
  /\ \/ \E s \in Sends : Agent!Arrive(s) \/ Agent!SendStep(s)
     \/ up /\ Agent!SessionStart
     \/ Agent!SessionCancel \/ Agent!SessionSeed \/ Agent!SessionClear
     \/ Agent!DestroyCancel \/ Agent!DestroyTake
  /\ UNCHANGED <<flagVars, callVars, daemonVars, uiVars, historyVars, file, deaths>>

\* session_send_boxed refuses a send while the flag is set; session_start needs
\* the running daemon's configuration.
AgentStep ==
  /\ \/ \E s \in Sends : \/ ~engaged /\ Agent!SendEnter(s)
                         \/ Agent!SendRejected(s)
                         \/ Agent!SendStep(s)
     \/ up /\ Agent!SessionStart
     \/ Agent!SessionCancel \/ Agent!SessionSeed \/ Agent!SessionClear
     \/ Agent!DestroyCancel \/ Agent!DestroyTake
  /\ UNCHANGED <<flagVars, callVars, daemonVars, uiVars, historyVars, file, deaths>>

Next ==
  \/ \E o \in Operators : Engage(o) \/ Resume(o) \/ CommandStep(o)
  \/ LoadRead \/ LoadStore \/ StartEnds \/ StopDaemon
  \/ PollRead \/ PollPublish
  \/ ProcessDies
  \/ AgentStep

Spec == Init /\ [][Next]_vars

\* Threads are scheduled and the poller keeps polling.
FairSpec ==
  /\ Spec
  /\ \A o \in Operators : WF_vars(CommandStep(o))
  /\ WF_vars(LoadStore) /\ WF_vars(StartEnds)
  /\ WF_vars(PollRead \/ PollPublish)

-----------------------------------------------------------------------------
(* Properties.                                                             *)

TypeOK ==
  /\ Agent!TypeOK
  /\ {engaged, swept, blind, up, ui, acked} \subseteq BOOLEAN
  /\ file \in Files /\ loaded \in Loads
  /\ starting \in {"idle", "loaded", "starting"}
  /\ command \in [Operators -> {"none", "engage", "resume"}]
  /\ at \in [Operators -> {"idle", "cancelling", "locating", "truncating",
                           "writing", "reporting"}]
  /\ polled \in {"none", "engaged", "resumed"}
  /\ alone \subseteq Operators /\ late \subseteq Sends
  /\ commands \in 0..MaxCommands /\ starts \in 0..MaxStarts /\ deaths \in 0..MaxDeaths

\* An engage that was persisted, and that no other command and no start_daemon
\* overlapped, holds whenever the daemon runs: through stops, restarts and the
\* death of the process, until the next command.  load_state fails open, so the one
\* way out is a death after which every load failed to read the file.
AcknowledgedStopHolds == acked /\ up => engaged \/ (blind /\ deaths > 0)

\* The flag is set before the running send is cancelled, so while it stays set
\* the only sends in the agent loop that are not cancelled are those that had
\* passed the entry check and did not own the token slot at that moment.
OnlyLateSendsEscape ==
  swept => \A s \in Sends : pc[s] \in Agent!LoopPoints /\ s \notin cancelled => s \in late

\* Whatever polls and commands overlapped, the app shows the flag once it is stable.
UiCatchesUp == /\ <>[]engaged => <>[]ui
               /\ <>[]~engaged => <>[]~ui
=============================================================================
