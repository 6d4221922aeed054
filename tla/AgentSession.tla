---------------------------- MODULE AgentSession ----------------------------
(***************************************************************************)
(* The live agent session of the Android FFI crate                         *)
(* (zeroclaw-android/zeroclaw-ffi/src/session.rs and session_history.rs).  *)
(*                                                                         *)
(* Two process-wide mutexes hold the state: SESSION (the one conversation) *)
(* and CANCEL_TOKEN (the token of "the" running send).  A send moves the   *)
(* conversation out of SESSION, works on it with no lock held while the    *)
(* provider and the tools answer, and moves it back at the end.  Every     *)
(* other exported function may run between any two of its steps.           *)
(*                                                                         *)
(* One element of Sends is one call of session_send.  A message is a       *)
(* record of its role and of where it came from (ses, turn): provenance    *)
(* the code does not store, kept here for the properties only.             *)
(***************************************************************************)
EXTENDS Integers, Sequences

CONSTANTS Sends,           \* the calls of session_send
          NoSend,          \* not a send: "no token", "no turn"
          MaxRounds,       \* DEFAULT_MAX_TOOL_ITERATIONS
          MaxCalls,        \* MAX_TOOL_CALLS_PER_RESPONSE
          CompactAt,       \* DEFAULT_MAX_HISTORY_MESSAGES
          KeepRecent,      \* COMPACTION_KEEP_RECENT
          MaxSeed,         \* MAX_SEED_MESSAGES
          MaxSessions,     \* bound: sessions opened in a behaviour
          SeedBound,       \* bound: history length a seed may reach
          LatePanics       \* may the code after state_guard.take() panic?

ASSUME SendsAssumption == NoSend \notin Sends
ASSUME BoundsAssumption ==
  /\ {MaxRounds, MaxCalls, CompactAt, KeepRecent, MaxSeed} \subseteq Nat
  /\ {MaxSessions, SeedBound} \subseteq Nat
  /\ MaxRounds > 0
  /\ LatePanics \in BOOLEAN

VARIABLES session,       \* SESSION
          cancel_token,  \* CANCEL_TOKEN: the send whose token is in the slot
          cancelled,     \* the sends whose own token has been cancelled
          opened,        \* sessions opened so far; also the newest one's id
          destroying,    \* a session_destroy between its two lock sections
          pc,            \* where each send is
          work,          \* what each send has moved out of SESSION
          outcome        \* how each send ended, or will

vars == <<session, cancel_token, cancelled, opened, destroying, pc, work, outcome>>
lifecycle == <<opened, destroying>>

-----------------------------------------------------------------------------
(* Messages, histories and the working state of a send.                    *)

Roles == {"system", "seed", "user", "final", "calls", "tool", "results", "summary"}

Message == [role : Roles, ses : 0..MaxSessions,
            turn : Sends \cup {NoSend}, n : 0..MaxCalls]

Msg(role, ses, turn) == [role |-> role, ses |-> ses, turn |-> turn, n |-> 0]

NoSession == [id |-> 0, history |-> <<>>, tools |-> 0]

\* `tools` names the session whose registry it is; 0 is the empty Vec that
\* mem::take leaves behind.
Session == [id : 0..MaxSessions, history : Seq(Message), tools : 0..MaxSessions]

NoWork == [ses |-> 0, history |-> <<>>, tools |-> 0, before |-> 0,
           round |-> 0, todo |-> 0, native |-> FALSE]

Work == [ses : 0..MaxSessions, history : Seq(Message), tools : 0..MaxSessions,
         before : Nat, round : 0..MaxRounds, todo : 0..MaxCalls, native : BOOLEAN]

\* The points of run_agent_loop, then the rest of session_send_inner.
LoopPoints == {"ready", "chatting", "streaming", "tools", "running"}
\* While a send is here, SessionStateGuard is armed.
Guarded == LoopPoints \cup {"taken"}
\* While a send is here, it holds what it moved out of SESSION.
Holding == Guarded \cup {"compacting", "ending"}
PCs == Holding \cup {"idle", "entered", "token", "clearing", "done"}

Outcomes == {"none", "rejected", "no_session", "no_runtime", "panicked", "lost",
             "ok", "cancelled", "error"}

Active == session.id # 0
InFlight(s) == pc[s] \notin {"idle", "done"}

Take(h, len) == SubSeq(h, 1, IF len < Len(h) THEN len ELSE Len(h))

\* auto_compact_history: everything but the system prompt and the KeepRecent
\* newest messages becomes one summary.
Compact(h, ses) ==
  LET start == IF h # <<>> /\ h[1].role = "system" THEN 1 ELSE 0
      count == Len(h) - start
      kept  == IF KeepRecent < count THEN KeepRecent ELSE count
  IN  IF count <= CompactAt \/ kept = count
      THEN h
      ELSE SubSeq(h, 1, start) \o <<Msg("summary", ses, NoSend)>>
             \o SubSeq(h, Len(h) - kept + 1, Len(h))

-----------------------------------------------------------------------------
Init == /\ session = NoSession
        /\ cancel_token = NoSend
        /\ cancelled = {}
        /\ opened = 0
        /\ destroying = FALSE
        /\ pc = [s \in Sends |-> "idle"]
        /\ work = [s \in Sends |-> NoWork]
        /\ outcome = [s \in Sends |-> "none"]

-----------------------------------------------------------------------------
(* session_send, in the order of its steps.                                *)

Goto(s, point) == pc' = [pc EXCEPT ![s] = point]
Return(s, how) == Goto(s, "done") /\ outcome' = [outcome EXCEPT ![s] = how]

\* The messages of the turn of s.
TurnMsg(s, role) == Msg(role, work[s].ses, s)
Push(s, m) == work' = [work EXCEPT ![s].history = Append(@, m)]

\* Argument checks and the ClawBoy trigger passed.
SendEnter(s) ==
  /\ pc[s] = "idle"
  /\ Goto(s, "entered")
  /\ UNCHANGED <<session, cancel_token, cancelled, lifecycle, work, outcome>>

\* Too many images, too long a message, or a ClawBoy trigger answered instead.
SendRejected(s) ==
  /\ pc[s] = "idle"
  /\ Return(s, "rejected")
  /\ UNCHANGED <<session, cancel_token, cancelled, lifecycle, work>>

\* Mutant: a send waits for the slot to be free.
InstallTokenWhenFree(s) ==
  /\ pc[s] = "entered"
  /\ cancel_token = NoSend
  /\ cancel_token' = s
  /\ Goto(s, "token")
  /\ UNCHANGED <<session, cancelled, lifecycle, work, outcome>>

\* The slot is overwritten whatever it holds, before SESSION is looked at.
InstallToken(s) ==
  /\ pc[s] = "entered"
  /\ cancel_token' = s
  /\ Goto(s, "token")
  /\ UNCHANGED <<session, cancelled, lifecycle, work, outcome>>

\* The early return leaves the token in the slot.
SendWithoutSession(s) ==
  /\ pc[s] = "token"
  /\ ~Active
  /\ Return(s, "no_session")
  /\ UNCHANGED <<session, cancel_token, cancelled, lifecycle, work>>

TakeState(s) ==
  /\ pc[s] = "token"
  /\ Active
  /\ work' = [work EXCEPT ![s] = [NoWork EXCEPT !.ses = session.id,
                                                !.history = session.history,
                                                !.tools = session.tools,
                                                !.before = Len(session.history)]]
  /\ session' = [session EXCEPT !.history = <<>>, !.tools = 0]
  /\ Goto(s, "taken")
  /\ UNCHANGED <<cancel_token, cancelled, lifecycle, outcome>>

\* Mutant: the tools registry is not put back.
WriteBackHistoryOnly(s, history) ==
  /\ session' = IF Active THEN [session EXCEPT !.history = history] ELSE session
  /\ work' = [work EXCEPT ![s] = NoWork]

\* Whatever session is in the slot gets the state; none, and it is dropped.
WriteBack(s, history) ==
  /\ session' = IF Active
                THEN [session EXCEPT !.history = history, !.tools = work[s].tools]
                ELSE session
  /\ work' = [work EXCEPT ![s] = NoWork]

\* Mutant: the guard's Drop forgets the token.
RestoreByDropKeepsToken(s, how) ==
  /\ WriteBack(s, work[s].history)
  /\ Return(s, how)
  /\ UNCHANGED <<cancel_token, cancelled, lifecycle>>

\* SessionStateGuard::drop, under the SESSION lock until the token is cleared.
RestoreByDrop(s, how) ==
  /\ WriteBack(s, work[s].history)
  /\ cancel_token' = NoSend
  /\ Return(s, how)
  /\ UNCHANGED <<cancelled, lifecycle>>

\* Mutant: an early return before the guard is armed.
RuntimeUnavailableUnguarded(s) ==
  /\ pc[s] = "taken"
  /\ work' = [work EXCEPT ![s] = NoWork]
  /\ cancel_token' = NoSend
  /\ Return(s, "no_runtime")
  /\ UNCHANGED <<session, cancelled, lifecycle>>

\* get_or_create_runtime failed: the `?` drops the armed guard.
RuntimeUnavailable(s) == pc[s] = "taken" /\ RestoreByDrop(s, "no_runtime")

\* A panic while the guard is armed unwinds through its Drop.
PanicUnwind(s) == pc[s] \in Guarded /\ RestoreByDrop(s, "panicked")

\* Memory context (best effort), then the user message, then the provider.
BeginTurn(s) ==
  /\ pc[s] = "taken"
  /\ \E native \in BOOLEAN :
       work' = [work EXCEPT ![s].history = Append(@, TurnMsg(s, "user")),
                            ![s].native = native]
  /\ Goto(s, "ready")
  /\ UNCHANGED <<session, cancel_token, cancelled, lifecycle, outcome>>

\* The loop is left: the guard is disarmed and the outcome is known.
LeaveLoop(s, how) ==
  /\ Goto(s, IF how = "ok" THEN "compacting" ELSE "ending")
  /\ outcome' = [outcome EXCEPT ![s] = how]
  /\ UNCHANGED <<session, cancel_token, cancelled, lifecycle>>

ProviderUnavailable(s) ==
  /\ pc[s] = "taken"
  /\ Push(s, TurnMsg(s, "user"))
  /\ LeaveLoop(s, "error")

\* Mutant: one round too many.
BeginRoundOffByOne(s) ==
  /\ pc[s] = "ready"
  /\ work[s].round <= MaxRounds
  /\ s \notin cancelled
  /\ work' = [work EXCEPT ![s].round = @ + 1]
  /\ Goto(s, "chatting")
  /\ UNCHANGED <<session, cancel_token, cancelled, lifecycle, outcome>>

BeginRound(s) ==
  /\ pc[s] = "ready"
  /\ work[s].round < MaxRounds
  /\ s \notin cancelled
  /\ work' = [work EXCEPT ![s].round = @ + 1]
  /\ Goto(s, "chatting")
  /\ UNCHANGED <<session, cancel_token, cancelled, lifecycle, outcome>>

RoundsExhausted(s) ==
  /\ pc[s] = "ready"
  /\ work[s].round = MaxRounds
  /\ LeaveLoop(s, "error")
  /\ UNCHANGED work

\* Mutant: the token is looked at between rounds and calls only.
CancelPointBetweenCalls(s) ==
  \/ pc[s] = "ready" /\ work[s].round < MaxRounds
  \/ pc[s] = "tools" /\ work[s].todo > 0

\* The two explicit checks, the two select! arms and the check per word.
CancelPoint(s) ==
  \/ pc[s] = "ready" /\ work[s].round < MaxRounds
  \/ pc[s] = "tools" /\ work[s].todo > 0
  \/ pc[s] \in {"chatting", "running", "streaming"}

LoopCancelled(s) ==
  /\ CancelPoint(s)
  /\ s \in cancelled
  /\ LeaveLoop(s, "cancelled")
  /\ UNCHANGED work

ProviderFails(s) ==
  /\ pc[s] = "chatting"
  /\ LeaveLoop(s, "error")
  /\ UNCHANGED work

\* No tool call, native or XML: the text is streamed to the listener.
ProviderAnswers(s) ==
  /\ pc[s] = "chatting"
  /\ Goto(s, "streaming")
  /\ UNCHANGED <<session, cancel_token, cancelled, lifecycle, work, outcome>>

\* Tool calls, capped at MaxCalls, recorded before the first one runs.
ProviderCallsTools(s) ==
  /\ pc[s] = "chatting"
  /\ \E n \in 1..MaxCalls :
       work' = [work EXCEPT ![s].history = Append(@, [TurnMsg(s, "calls") EXCEPT !.n = n]),
                            ![s].todo = n]
  /\ Goto(s, "tools")
  /\ UNCHANGED <<session, cancel_token, cancelled, lifecycle, outcome>>

\* Mutant: the answer is streamed and not recorded.
StreamDoneUnrecorded(s) == pc[s] = "streaming" /\ UNCHANGED work /\ LeaveLoop(s, "ok")

StreamDone(s) ==
  /\ pc[s] = "streaming"
  /\ Push(s, TurnMsg(s, "final"))
  /\ LeaveLoop(s, "ok")

StartTool(s) ==
  /\ pc[s] = "tools"
  /\ work[s].todo > 0
  /\ s \notin cancelled
  /\ Goto(s, "running")
  /\ UNCHANGED <<session, cancel_token, cancelled, lifecycle, work, outcome>>

\* A native result is recorded at once, a prompt-guided one at the end.
ToolResult(s) ==
  /\ pc[s] = "running"
  /\ work' = [work EXCEPT ![s].todo = @ - 1,
                          ![s].history = IF work[s].native
                                         THEN Append(@, TurnMsg(s, "tool")) ELSE @]
  /\ Goto(s, "tools")
  /\ UNCHANGED <<session, cancel_token, cancelled, lifecycle, outcome>>

\* Mutant: prompt-guided results are not recorded.
ToolsDoneUnrecorded(s) ==
  /\ pc[s] = "tools"
  /\ work[s].todo = 0
  /\ Goto(s, "ready")
  /\ UNCHANGED <<session, cancel_token, cancelled, lifecycle, work, outcome>>

ToolsDone(s) ==
  /\ pc[s] = "tools"
  /\ work[s].todo = 0
  /\ work' = [work EXCEPT ![s].history = IF work[s].native
                                         THEN @ ELSE Append(@, TurnMsg(s, "results"))]
  /\ Goto(s, "ready")
  /\ UNCHANGED <<session, cancel_token, cancelled, lifecycle, outcome>>

\* Best effort: skipped when no provider can be built.
CompactHistory(s) ==
  /\ pc[s] = "compacting"
  /\ \/ work' = [work EXCEPT ![s].history = Compact(@, work[s].ses)]
     \/ UNCHANGED work
  /\ Goto(s, "ending")
  /\ UNCHANGED <<session, cancel_token, cancelled, lifecycle, outcome>>

\* A panic in the summariser or in on_compaction: the guard is disarmed, so
\* nothing puts the state back and nothing clears the token.
PanicAfterTake(s) ==
  /\ LatePanics
  /\ pc[s] = "compacting"
  /\ work' = [work EXCEPT ![s] = NoWork]
  /\ Return(s, "lost")
  /\ UNCHANGED <<session, cancel_token, cancelled, lifecycle>>

\* Mutant: no rollback after an error.
PutBackUntruncated(s) ==
  /\ pc[s] = "ending"
  /\ WriteBack(s, work[s].history)
  /\ Goto(s, "clearing")
  /\ UNCHANGED <<cancel_token, cancelled, lifecycle, outcome>>

\* put_session_state_back; after an error the history is truncated first.
PutBack(s) ==
  /\ pc[s] = "ending"
  /\ WriteBack(s, IF outcome[s] = "error" THEN Take(work[s].history, work[s].before)
                                          ELSE work[s].history)
  /\ Goto(s, "clearing")
  /\ UNCHANGED <<cancel_token, cancelled, lifecycle, outcome>>

\* clear_cancel_token clears the slot whoever's token is in it.
ClearToken(s) ==
  /\ pc[s] = "clearing"
  /\ cancel_token' = NoSend
  /\ Goto(s, "done")
  /\ UNCHANGED <<session, cancelled, lifecycle, work, outcome>>

-----------------------------------------------------------------------------
(* The other exported functions, each one lock section unless noted.       *)

CancelSlot == cancelled' = cancelled \cup ({cancel_token} \ {NoSend})

SessionCancel ==
  /\ CancelSlot
  /\ UNCHANGED <<session, cancel_token, lifecycle, pc, work, outcome>>

\* The registry is empty when the daemon has no memory backend.
SessionStart ==
  /\ ~Active
  /\ opened < MaxSessions
  /\ opened' = opened + 1
  /\ \E tools \in {0, opened + 1} :
       session' = [id |-> opened + 1, tools |-> tools,
                   history |-> <<Msg("system", opened + 1, NoSend)>>]
  /\ UNCHANGED <<cancel_token, cancelled, destroying, pc, work, outcome>>

\* Reserved roles are skipped, so a batch may add less than it brings.
SessionSeed ==
  /\ Active
  /\ \E n \in 1..MaxSeed :
       /\ Len(session.history) + n <= SeedBound
       /\ session' = [session EXCEPT !.history =
                        @ \o [i \in 1..n |-> Msg("seed", session.id, NoSend)]]
  /\ UNCHANGED <<cancel_token, cancelled, lifecycle, pc, work, outcome>>

SessionClear ==
  /\ Active
  /\ session' = [session EXCEPT !.history = <<Msg("system", session.id, NoSend)>>]
  /\ UNCHANGED <<cancel_token, cancelled, lifecycle, pc, work, outcome>>

\* session_destroy: cancel under one lock, then take under the other.
DestroyCancel ==
  /\ ~destroying
  /\ destroying' = TRUE
  /\ CancelSlot
  /\ UNCHANGED <<session, cancel_token, opened, pc, work, outcome>>

DestroyTake ==
  /\ destroying
  /\ destroying' = FALSE
  /\ session' = NoSession
  /\ UNCHANGED <<cancel_token, cancelled, opened, pc, work, outcome>>

-----------------------------------------------------------------------------
(* Steps a send takes by itself, and steps that wait for someone else.     *)

Arrive(s) == SendEnter(s) \/ SendRejected(s)

LocalStep(s) ==
  \/ InstallToken(s) \/ SendWithoutSession(s) \/ TakeState(s)
  \/ BeginRound(s) \/ RoundsExhausted(s) \/ LoopCancelled(s)
  \/ StreamDone(s) \/ StartTool(s) \/ ToolsDone(s)
  \/ PutBack(s) \/ ClearToken(s)

\* The memory backend, the provider and the tools answer in their own time.
AwaitedStep(s) ==
  \/ BeginTurn(s) \/ ProviderUnavailable(s)
  \/ ProviderFails(s) \/ ProviderAnswers(s) \/ ProviderCallsTools(s)
  \/ ToolResult(s) \/ CompactHistory(s)

FaultStep(s) == RuntimeUnavailable(s) \/ PanicUnwind(s) \/ PanicAfterTake(s)

SendStep(s) == LocalStep(s) \/ AwaitedStep(s) \/ FaultStep(s)

Next ==
  \/ \E s \in Sends : Arrive(s) \/ SendStep(s)
  \/ SessionCancel
  \/ SessionStart \/ SessionSeed \/ SessionClear
  \/ DestroyCancel \/ DestroyTake

Spec == Init /\ [][Next]_vars

\* Threads are scheduled; nothing is assumed of providers and tools.
LocalFairSpec == Spec /\ \A s \in Sends : WF_vars(LocalStep(s))

\* Moreover whatever a send waits for answers in the end (HTTP timeouts).
AnswersCome == \A s \in Sends : WF_vars(LocalStep(s) \/ AwaitedStep(s))

\* The callers session_destroy's comment relies on: no two calls at once,
\* except that a cancel may come at any time.
Quiescent == ~destroying /\ \A s \in Sends : ~InFlight(s)

SerialNext ==
  \/ /\ Quiescent
     /\ \/ \E s \in Sends : Arrive(s)
        \/ SessionStart \/ SessionSeed \/ SessionClear \/ DestroyCancel
  \/ \E s \in Sends : SendStep(s)
  \/ SessionCancel
  \/ DestroyTake

SerialSpec == Init /\ [][SerialNext]_vars

-----------------------------------------------------------------------------
(* Properties.                                                             *)

\* Every variable stays in its type.
TypeOK ==
  /\ session \in Session
  /\ cancel_token \in Sends \cup {NoSend}
  /\ cancelled \subseteq Sends
  /\ opened \in 0..MaxSessions
  /\ destroying \in BOOLEAN
  /\ pc \in [Sends -> PCs]
  /\ work \in [Sends -> Work]
  /\ outcome \in [Sends -> Outcomes]

\* The committed history, and the turn segments it is made of.
Committed == session.history
Starts(h, i) == i = 1 \/ h[i-1].turn # h[i].turn
Ends(h, i) == i = Len(h) \/ h[i+1].turn # h[i].turn
TurnMessages(h) == {i \in DOMAIN h : h[i].turn # NoSend}

\* Only turns that ended well, were cancelled or panicked leave messages in the
\* conversation: a failed or refused send, however its steps interleave with
\* other calls, leaves none (the rollback in session_send_inner).
OnlyCommittedTurns ==
  \A i \in TurnMessages(Committed) :
    outcome[Committed[i].turn] \in {"ok", "cancelled", "panicked"}

\* The messages of a turn stay together, from its user message (unless
\* compaction cut it off) to the final answer when the turn ended well, even
\* when sends, seeds, clears and destroys overlap.
WholeTurns ==
  \A i \in TurnMessages(Committed) :
    /\ Starts(Committed, i) =>
         \/ Committed[i].role = "user"
         \/ i > 1 /\ Committed[i-1].role = "summary"
    /\ Ends(Committed, i) /\ outcome[Committed[i].turn] = "ok" =>
         Committed[i].role = "final"

\* The n tool results, or the one results message, follow their calls.
CallsAnswered(h, i) ==
  \/ \A k \in 1..h[i].n : /\ i + k \in DOMAIN h
                           /\ h[i+k].role = "tool" /\ h[i+k].turn = h[i].turn
  \/ i + 1 \in DOMAIN h /\ h[i+1].role = "results" /\ h[i+1].turn = h[i].turn

HasItsCalls(h, j) ==
  \E i \in 1..j-1 :
    /\ \A k \in i+1..j : h[k].role \in {"tool", "results"} /\ h[k].turn = h[j].turn
    /\ \/ h[i].role = "calls" /\ h[i].turn = h[j].turn /\ j - i <= h[i].n
       \/ h[i].role = "summary"

\* A turn that ends with calls and some of their results, if any.
CutShort(h, i) == \A j \in i+1..Len(h) : h[j].turn = h[i].turn => h[j].role = "tool"

\* Providers refuse a history in which tool calls and tool results do not
\* match.  Calls without all their results are only in a turn that was
\* cancelled or panicked, and are the end of it: session_send_inner keeps what
\* such a turn had recorded, though session_cancel's documentation promises a
\* valid session.  A result without its calls can only be the first thing
\* compaction kept.
ResultsPaired ==
  \A i \in TurnMessages(Committed) :
    /\ Committed[i].role = "calls" =>
         \/ CallsAnswered(Committed, i)
         \/ /\ outcome[Committed[i].turn] \in {"cancelled", "panicked"}
            /\ CutShort(Committed, i)
    /\ Committed[i].role \in {"tool", "results"} => HasItsCalls(Committed, i)

\* A token left in the slot by a send that has returned is there for one of
\* two reasons: it found no session, or it panicked once the guard was disarmed.
TokenHasOwner ==
  cancel_token # NoSend /\ pc[cancel_token] = "done" =>
    outcome[cancel_token] \in {"no_session", "lost"}

\* A send that is cancelled inside the agent loop leaves it, though the
\* provider and the tools may never answer.
CancelledSendLeavesLoop ==
  \A s \in Sends :
    (s \in cancelled /\ pc[s] \in LoopPoints) ~> pc[s] \notin LoopPoints

\* If memory, provider and tools answer in the end, every send that was accepted
\* returns, whatever the other calls do to the slots it shares with them.
EverySendReturns ==
  AnswersCome => \A s \in Sends : pc[s] = "entered" ~> pc[s] = "done"

\* With serial callers: between two calls a session holds its own system
\* prompt first and only its own messages (unless a late panic lost them).
NothingLost == \A s \in Sends : outcome[s] # "lost"
OwnMessages == \A i \in DOMAIN Committed : Committed[i].ses = session.id
SessionIntact ==
  Active /\ NothingLost /\ (\A s \in Sends : pc[s] \notin Holding) =>
    /\ Committed # <<>> /\ Committed[1].role = "system"
    /\ OwnMessages
=============================================================================
