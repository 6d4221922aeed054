------------------------------ MODULE SocketTurn ------------------------------
(***************************************************************************)
(* One chat turn on a WebSocket of the gateway                             *)
(* (zeroclaw/crates/zeroclaw-gateway/src/ws.rs, process_chat_message, with *)
(* ws_approval.rs and Agent::turn_streamed): the agent's turn produces     *)
(* events into a bounded channel, the forward loop relays them to the      *)
(* client, writes partial answers to the session store, shows approval     *)
(* requests and takes the answers.  Both are futures of one task, joined,  *)
(* so their steps interleave at awaits; aborts come from other tasks.      *)
(***************************************************************************)
EXTENDS Integers, Sequences, FiniteSets

CONSTANTS EventCap,      \* capacity of the event channel (64 in the code)
          ApprovalCap,   \* capacity of the approval channel (8 in the code)
          MaxRounds,     \* max_tool_iterations
          MaxTools       \* tool calls in one answer of the model

ASSUME TurnAssumption == {EventCap, ApprovalCap, MaxRounds, MaxTools} \subseteq Nat \ {0}

Requests == 1..(MaxRounds * MaxTools)    \* approval requests, in order

VARIABLES agent,      \* where turn_fut is
          out,        \* events it is sending, one await each
          rounds,     \* iterations of its loop
          left,       \* tool calls of the current answer still to execute
          calls,      \* their number
          result,     \* what it returned
          events,     \* the event channel
          offers,     \* the approval channel
          asked,      \* approval requests made
          parked,     \* pending_approvals: requests whose sender is in the map
          reply,      \* what each request's oneshot holds
          fwd,        \* where forward_fut is
          drained,    \* cancel_drained
          partial,    \* partial_saved
          rows,       \* the newest row when the turn begins, normally its question,
                      \* and the rows behind it
          cancelled,  \* the turn's token
          phase,      \* "turn" until the join returns, then "over"
          shown,      \* history: requests the client has seen
          granted,    \* history: requests whose approval the gateway accepted
          denied,     \* history: requests the agent took as denied
          failures    \* history: "first" when the first partial answer's append has
                      \* failed, "final" when the last write has

loop == <<agent, out, rounds, left, calls, result>>
asks == <<offers, asked, parked, reply>>
saved == <<partial, rows, failures>>
relay == <<fwd, drained, saved>>
seenBy == <<shown, granted, denied>>
vars == <<loop, events, asks, relay, cancelled, phase, seenBy>>

Init ==
  /\ agent = "check" /\ out = <<>> /\ rounds = 0 /\ left = 0 /\ calls = 0 /\ result = "none"
  /\ events = <<>> /\ offers = <<>> /\ asked = 0 /\ parked = {}
  /\ reply = [i \in Requests |-> "none"]
  /\ fwd = "select" /\ drained = FALSE
  /\ partial = FALSE /\ rows = <<"before">> /\ failures = {}
  /\ cancelled = FALSE /\ phase = "turn"
  /\ shown = {} /\ granted = {} /\ denied = {}

-----------------------------------------------------------------------------
(* turn_fut: Agent::turn_streamed.                                         *)

Times(n, e) == [i \in 1..n |-> e]

\* Mutant: the channel is not bounded.
EmitNoWait ==
  /\ out # <<>>
  /\ events' = Append(events, Head(out))
  /\ out' = Tail(out)
  /\ UNCHANGED <<agent, rounds, left, calls, result, asks, relay, cancelled, phase, seenBy>>

\* event_tx.send(..).await: waits while the channel is full, and for nothing else.
Emit ==
  /\ out # <<>>
  /\ Len(events) < EventCap
  /\ events' = Append(events, Head(out))
  /\ out' = Tail(out)
  /\ UNCHANGED <<agent, rounds, left, calls, result, asks, relay, cancelled, phase, seenBy>>

Return(r) == agent' = "done" /\ result' = r

\* The head of the loop: the token, then the iteration limit.
NextIteration ==
  /\ agent = "check" /\ out = <<>>
  /\ IF rounds = MaxRounds THEN Return("failed") /\ UNCHANGED rounds
     ELSE IF cancelled THEN Return("cancelled") /\ UNCHANGED rounds
     ELSE agent' = "stream" /\ rounds' = rounds + 1 /\ UNCHANGED result
  /\ UNCHANGED <<out, left, calls, events, asks, relay, cancelled, phase, seenBy>>

\* Mutant: the token is not looked at while the provider is awaited.
StreamUncancellable == FALSE /\ UNCHANGED vars

\* token.cancelled() wins the biased select against the provider.
StreamCancelled ==
  /\ agent = "stream" /\ out = <<>> /\ cancelled
  /\ Return("cancelled")
  /\ UNCHANGED <<out, rounds, left, calls, events, asks, relay, cancelled, phase, seenBy>>

StreamItem ==
  /\ agent = "stream" /\ out = <<>> /\ ~cancelled
  /\ \E e \in {"chunk", "other"} : out' = <<e>>
  /\ UNCHANGED <<agent, rounds, left, calls, result, events, asks, relay, cancelled, phase, seenBy>>

ProviderFails ==
  /\ agent = "stream" /\ out = <<>> /\ ~cancelled
  /\ Return("failed")
  /\ UNCHANGED <<out, rounds, left, calls, events, asks, relay, cancelled, phase, seenBy>>

\* The final text: usage, and one chunk if nothing was streamed.
FinalAnswer ==
  /\ agent = "stream" /\ out = <<>> /\ ~cancelled
  /\ agent' = "last"
  /\ \E last \in {<<>>, <<"other">>, <<"other", "chunk">>} : out' = last
  /\ UNCHANGED <<rounds, left, calls, result, events, asks, relay, cancelled, phase, seenBy>>

FinalSent ==
  /\ agent = "last" /\ out = <<>>
  /\ Return("answered")
  /\ UNCHANGED <<out, rounds, left, calls, events, asks, relay, cancelled, phase, seenBy>>

\* Tool calls: each is announced before the first is executed.
CallTools ==
  /\ agent = "stream" /\ out = <<>> /\ ~cancelled
  /\ \E n \in 1..MaxTools : left' = n /\ calls' = n /\ out' = Times(n, "other")
  /\ agent' = "tools"
  /\ UNCHANGED <<rounds, result, events, asks, relay, cancelled, phase, seenBy>>

\* execute_tool_call without a prompt.
StartTool ==
  /\ agent = "tools" /\ out = <<>> /\ left > 0
  /\ agent' = "running"
  /\ UNCHANGED <<out, rounds, left, calls, result, events, asks, relay, cancelled, phase, seenBy>>

ToolEnds ==
  /\ agent = "running"
  /\ agent' = "tools" /\ left' = left - 1
  /\ UNCHANGED <<out, rounds, calls, result, events, asks, relay, cancelled, phase, seenBy>>

ToolsDone ==
  /\ agent = "tools" /\ out = <<>> /\ left = 0
  /\ agent' = "check" /\ out' = Times(calls, "other")
  /\ UNCHANGED <<rounds, left, calls, result, events, asks, relay, cancelled, phase, seenBy>>

-----------------------------------------------------------------------------
(* WsApprovalChannel::request_approval, from inside execute_tool_call.     *)

\* The sender goes into the map before the client can hear of the request.
Ask ==
  /\ agent = "tools" /\ out = <<>> /\ left > 0
  /\ agent' = "offering"
  /\ asked' = asked + 1
  /\ parked' = parked \cup {asked + 1}
  /\ UNCHANGED <<out, rounds, left, calls, result, events, offers, reply, relay,
                 cancelled, phase, seenBy>>

\* Its receiver lives as long as the connection, so this send never fails.
Offer ==
  /\ agent = "offering"
  /\ Len(offers) < ApprovalCap
  /\ offers' = Append(offers, asked)
  /\ agent' = "asking"
  /\ UNCHANGED <<out, rounds, left, calls, result, events, asked, parked, reply, relay,
                 cancelled, phase, seenBy>>

Approved ==
  /\ agent = "asking" /\ reply[asked] = "approve"
  /\ agent' = "running"
  /\ UNCHANGED <<out, rounds, left, calls, result, events, asks, relay, cancelled, phase, seenBy>>

TakeDenial ==
  /\ agent' = "tools" /\ left' = left - 1
  /\ denied' = denied \cup {asked}
  /\ UNCHANGED <<out, rounds, calls, result, events, offers, asked, reply, relay, cancelled,
                 phase, shown, granted>>

\* The client said no, or the sender was dropped.
Denied ==
  /\ agent = "asking" /\ reply[asked] \in {"deny", "dropped"}
  /\ parked' = parked \ {asked}
  /\ TakeDenial

\* Mutant: the timer is looked at before the oneshot.
ApprovalTimeoutFirst ==
  /\ agent = "asking"
  /\ parked' = parked \ {asked}
  /\ TakeDenial

\* tokio::time::timeout polls the oneshot first.
ApprovalTimeout ==
  /\ agent = "asking" /\ reply[asked] = "none"
  /\ parked' = parked \ {asked}
  /\ TakeDenial

-----------------------------------------------------------------------------
(* forward_fut: the select of process_chat_message.                        *)

\* Mutant: an abort leaves the parked senders alone.
DrainNothing ==
  /\ fwd = "select" /\ cancelled /\ ~drained
  /\ drained' = TRUE
  /\ UNCHANGED <<loop, events, asks, fwd, saved, cancelled, phase, seenBy>>

\* An abort drops every parked sender, once.
DrainApprovals ==
  /\ fwd = "select" /\ cancelled /\ ~drained
  /\ drained' = TRUE
  /\ parked' = {}
  /\ reply' = [i \in Requests |-> IF i \in parked THEN "dropped" ELSE reply[i]]
  /\ UNCHANGED <<loop, events, offers, asked, fwd, saved, cancelled, phase, seenBy>>

\* approval_response for a request the client has seen, in time, late or again.
ClientAnswers ==
  /\ fwd = "select"
  /\ \E i \in shown, d \in {"approve", "deny"} :
       IF i \in parked
       THEN /\ parked' = parked \ {i}
            /\ reply' = [reply EXCEPT ![i] = d]
            /\ granted' = IF d = "approve" THEN granted \cup {i} ELSE granted
       ELSE UNCHANGED <<parked, reply, granted>>
  /\ UNCHANGED <<loop, events, offers, asked, relay, cancelled, phase, shown, denied>>

\* Close, an error or the end of the stream: cancel, and leave the loop.
ClientGone ==
  /\ fwd = "select"
  /\ cancelled' = TRUE
  /\ fwd' = "left"
  /\ UNCHANGED <<loop, events, asks, drained, saved, phase, seenBy>>

ShowRequest ==
  /\ fwd = "select" /\ offers # <<>>
  /\ shown' = shown \cup {Head(offers)}
  /\ offers' = Tail(offers)
  /\ fwd' = "sending"
  /\ UNCHANGED <<loop, events, asked, parked, reply, drained, saved, cancelled, phase,
                 granted, denied>>

\* The rows with one more, or the newest one, whatever it is, overwritten.
WithRow(kind) == IF partial THEN [rows EXCEPT ![Len(rows)] = kind] ELSE Append(rows, kind)

\* Mutant: every partial answer is appended.
SaveAppends == partial' = TRUE /\ rows' = Append(rows, "partial") /\ UNCHANGED failures

\* append the first time, update_last from then on.  An error is discarded: after a
\* failed append, update_last takes the row before this turn's.
SavePartial ==
  /\ partial' = TRUE
  /\ \/ rows' = WithRow("partial") /\ UNCHANGED failures
     \/ UNCHANGED rows /\ failures' = IF partial THEN failures ELSE failures \cup {"first"}

\* An event is relayed; a chunk may be due for a partial save.
RelayEvent ==
  /\ fwd = "select" /\ offers = <<>> /\ events # <<>>
  /\ events' = Tail(events)
  /\ fwd' = "sending"
  /\ \/ UNCHANGED saved
     \/ Head(events) = "chunk" /\ SavePartial
  /\ UNCHANGED <<loop, asks, drained, cancelled, phase, seenBy>>

FrameSent ==
  /\ fwd = "sending"
  /\ fwd' = "select"
  /\ UNCHANGED <<loop, events, asks, drained, saved, cancelled, phase, seenBy>>

\* The agent's turn has returned, which dropped event_tx, and all is relayed.
EventsEnd ==
  /\ fwd = "select" /\ agent = "done" /\ events = <<>> /\ offers = <<>>
  /\ fwd' = "ended"
  /\ UNCHANGED <<loop, events, asks, drained, saved, cancelled, phase, seenBy>>

-----------------------------------------------------------------------------
(* The turn as a whole.                                                    *)

\* POST /api/sessions/{id}/abort, or DELETE: the token is in the map.
Abort ==
  /\ phase = "turn" /\ ~cancelled
  /\ cancelled' = TRUE
  /\ UNCHANGED <<loop, events, asks, relay, phase, seenBy>>

Final(r) == IF r = "answered" THEN "answer" ELSE "interrupted"

\* The join returns; the answer, or the mark of an interruption, is stored, or the
\* error is discarded.
Finish ==
  /\ phase = "turn" /\ agent = "done" /\ fwd \in {"ended", "left"}
  /\ phase' = "over"
  /\ \/ result = "failed" /\ UNCHANGED <<rows, failures>>
     \/ result # "failed" /\ rows' = WithRow(Final(result)) /\ UNCHANGED failures
     \/ result # "failed" /\ UNCHANGED rows /\ failures' = failures \cup {"final"}
  /\ UNCHANGED <<loop, events, asks, fwd, drained, partial, cancelled, seenBy>>

Provider == StreamItem \/ ProviderFails \/ FinalAnswer \/ CallTools
OwnSteps == Emit \/ NextIteration \/ StreamCancelled \/ FinalSent \/ StartTool \/ Ask
            \/ ToolsDone \/ Offer \/ Approved \/ Denied
Forward == DrainApprovals \/ ShowRequest \/ RelayEvent \/ EventsEnd

Next == Provider \/ OwnSteps \/ ToolEnds \/ ApprovalTimeout \/ Forward \/ FrameSent
        \/ ClientAnswers \/ ClientGone \/ Abort \/ Finish

Spec == Init /\ [][Next]_vars

\* The task is polled, tools end, a frame is taken by the socket or fails.  The
\* provider, the client and the clock owe nothing.
FairSpec ==
  Spec /\ WF_vars(OwnSteps) /\ WF_vars(ToolEnds) /\ WF_vars(Forward) /\ WF_vars(FrameSent)
       /\ WF_vars(Finish)

-----------------------------------------------------------------------------
(* Properties.                                                             *)

TypeOK ==
  /\ agent \in {"check", "stream", "last", "tools", "running", "offering", "asking", "done"}
  /\ out \in Seq({"chunk", "other"})
  /\ rounds \in 0..MaxRounds /\ left \in 0..MaxTools /\ calls \in 0..MaxTools
  /\ result \in {"none", "answered", "failed", "cancelled"}
  /\ events \in Seq({"chunk", "other"}) /\ Len(events) <= EventCap
  /\ offers \in Seq(Requests) /\ Len(offers) <= ApprovalCap
  /\ asked \in 0..(MaxRounds * MaxTools)
  /\ parked \subseteq Requests
  /\ reply \in [Requests -> {"none", "approve", "deny", "dropped"}]
  /\ fwd \in {"select", "sending", "left", "ended"}
  /\ drained \in BOOLEAN /\ partial \in BOOLEAN /\ cancelled \in BOOLEAN
  /\ rows \in Seq({"before", "partial", "answer", "interrupted"})
  /\ failures \subseteq {"first", "final"}
  /\ phase \in {"turn", "over"}
  /\ {shown, granted, denied} \subseteq SUBSET Requests

\* An answer counts for the request it names and no other: what the gateway
\* accepted runs, what the agent took as denied was not accepted, and a request
\* that is neither waits for its own answer.
AnswersKept ==
  /\ granted \cap denied = {}
  /\ \A i \in 1..asked : reply[i] = "approve" <=> i \in granted
  /\ parked \subseteq (IF agent \in {"offering", "asking"} THEN {asked} ELSE {})

\* Whatever comes between the chunks, a turn leaves one row of its own at most, behind
\* the row it found, which it leaves alone, and in the end its answer.  When the first
\* append has failed it has no row, and what it writes lands on the one it found; a
\* last write that fails leaves what is there.
OneRow ==
  /\ Len(rows) <= 2
  /\ IF "first" \in failures THEN Len(rows) = 1 ELSE rows[1] = "before"
  /\ phase = "over" /\ result # "failed" /\ failures = {} => rows = <<"before", Final(result)>>

\* An abort frees the tool prompt it finds without waiting for its timeout, as
\* long as the client stays.
AbortFreesPrompt ==
  (agent = "asking" /\ cancelled /\ ~drained) ~> (agent # "asking" \/ fwd = "left")

\* An aborted turn ends though the provider never answers, if the client stays.
AbortedTurnEnds ==
  WF_vars(ApprovalTimeout) => (cancelled ~> (phase = "over" \/ fwd = "left"))

-----------------------------------------------------------------------------
(* What a comment of ws.rs says and the code does not do.                  *)

\* "cancel the turn so turn_fut resolves with ToolLoopCancelled and tokio::join!
\* below can return": a turn whose client has gone ends.
LeftTurnEnds == WF_vars(ApprovalTimeout) => (fwd = "left" ~> phase = "over")
=============================================================================
