-------------------------- MODULE SocketTurnProofs --------------------------
(***************************************************************************)
(* Safety of SocketTurn, for channels of any capacity and any limits.      *)
(*                                                                         *)
(* AskInv carries AnswersKept: a parked request is the one being asked and *)
(* has no answer yet, and no request beyond the last one asked has any     *)
(* trace.  RowInv carries OneRow: until the join returns, partial_saved    *)
(* and the failed writes tell what the store holds, and after it nothing   *)
(* of the turn can move.                                                   *)
(***************************************************************************)
EXTENDS SocketTurnRecord, SequenceTheorems, TLAPS

InPrompt == agent \in {"offering", "asking"}

\* What is left of the tool budget bounds the requests still to come.
BudgetInv ==
  /\ asked <= rounds * MaxTools
  /\ agent = "stream" => asked + MaxTools <= rounds * MaxTools
  /\ agent = "tools" => asked + left <= rounds * MaxTools
  /\ agent = "running" \/ InPrompt => left > 0 /\ asked + left <= rounds * MaxTools + 1
  /\ InPrompt => asked > 0

AskInv ==
  /\ \A i \in Requests : i > asked => reply[i] = "none"
  /\ \A i \in parked : reply[i] = "none"
  /\ granted \subseteq 1..asked
  /\ denied \subseteq 1..asked
  /\ InPrompt => asked \notin denied
  /\ AnswersKept

\* What the store holds of a turn that is running.
Stored ==
  CASE ~partial -> {<<"before">>}
    [] partial /\ "first" \in failures -> {<<"before">>, <<"partial">>}
    [] partial /\ "first" \notin failures -> {<<"before", "partial">>}

RowInv ==
  /\ phase = "turn" => /\ rows \in Stored
                       /\ failures \subseteq (IF partial THEN {"first"} ELSE {})
  /\ phase = "over" => agent = "done" /\ fwd \in {"ended", "left"}
  /\ agent = "done" => result # "none"
  /\ OneRow

IInv == TypeOK /\ BudgetInv /\ AskInv /\ RowInv

-----------------------------------------------------------------------------
(* Facts about the data.                                                   *)

\* The limits are positive.
LEMMA Limits == /\ EventCap \in Nat \ {0} /\ ApprovalCap \in Nat \ {0}
                /\ MaxRounds \in Nat \ {0} /\ MaxTools \in Nat \ {0}
                /\ MaxRounds * MaxTools \in Nat
<1>1. /\ EventCap \in Nat \ {0} /\ ApprovalCap \in Nat \ {0}
      /\ MaxRounds \in Nat \ {0} /\ MaxTools \in Nat \ {0}
  BY TurnAssumption
<1> QED
  BY <1>1

\* One more round adds MaxTools to the budget, which stays within the requests.
LEMMA Budget ==
  ASSUME NEW r \in 0..MaxRounds
  PROVE  /\ r * MaxTools \in Nat
         /\ r * MaxTools <= MaxRounds * MaxTools
         /\ (r + 1) * MaxTools = r * MaxTools + MaxTools
<1>1. r \in Nat /\ r <= MaxRounds /\ MaxTools \in Nat /\ MaxRounds \in Nat
  BY Limits
<1> QED
  BY <1>1

\* One more request fits as long as a tool call is left in the budget.
LEMMA Within ==
  ASSUME NEW a \in Nat, NEW l \in Nat, l > 0, NEW b \in Nat, a + l <= b,
         NEW m \in Nat, b <= m
  PROVE  a + 1 \in 1..m
OBVIOUS

\* What the agent emits at a time is a sequence of events.
LEMMA TimesType ==
  ASSUME NEW n \in Nat, NEW S, NEW e \in S
  PROVE  Times(n, e) \in Seq(S)
<1>1. Times(n, e) \in [1..n -> S]
  BY DEF Times
<1> QED
  BY <1>1, SeqDef

\* So is what it emits after its last answer.
LEMMA TuplesType ==
  {<<>>, <<"other">>, <<"other", "chunk">>} \subseteq Seq({"chunk", "other"})
<1>1. <<>> \in Seq({"chunk", "other"})
  BY EmptySeq
<1>2. <<"other">> \in Seq({"chunk", "other"})
  OBVIOUS
<1>3. <<"other", "chunk">> \in Seq({"chunk", "other"})
  OBVIOUS
<1> QED
  BY <1>1, <1>2, <1>3

-----------------------------------------------------------------------------
(* The writes.                                                             *)

RowKinds == {"before", "partial", "answer", "interrupted"}

\* Where a write of this turn goes: its own row, or the one it found.
Written(kind) == IF "first" \in failures THEN <<kind>> ELSE <<"before", kind>>

\* A write of a running turn leaves its row behind the one it found, or has
\* overwritten that one.
LEMMA WriteRow ==
  ASSUME TypeOK, RowInv, phase = "turn", NEW kind \in RowKinds
  PROVE  WithRow(kind) = Written(kind)
<1>1. partial \in BOOLEAN /\ rows \in Stored
  BY DEF TypeOK, RowInv
<1>2. /\ [<<"before">> EXCEPT ![1] = kind] = <<kind>>
      /\ [<<"partial">> EXCEPT ![1] = kind] = <<kind>>
      /\ [<<"before", "partial">> EXCEPT ![2] = kind] = <<"before", kind>>
      /\ Append(<<"before">>, kind) = <<"before", kind>>
  <2>1. \A k : [<<k>> EXCEPT ![1] = kind] = <<kind>>
    OBVIOUS
  <2>2. [<<"before", "partial">> EXCEPT ![2] = kind] = <<"before", kind>>
    <3>1. 2 \in 1..2 /\ 1 \in 1..2 /\ 1 # 2
      OBVIOUS
    <3>2. \A x, y : DOMAIN <<x, y>> = 1..2
      OBVIOUS
    <3>3. <<"before", kind>> = [i \in 1..2 |-> IF i = 1 THEN "before" ELSE kind]
      OBVIOUS
    <3> QED BY <3>1, <3>2, <3>3
  <2>3. Append(<<"before">>, kind) = <<"before", kind>>
    <3>1. <<"before">> \in Seq(RowKinds) /\ <<"before", kind>> \in Seq(RowKinds)
      BY DEF RowKinds
    <3>2. Len(<<"before">>) = 1 /\ Len(<<"before", kind>>) = 2
      OBVIOUS
    <3> DEFINE longer == Append(<<"before">>, kind)
    <3>3. /\ longer \in Seq(RowKinds) /\ Len(longer) = 2
          /\ longer[1] = "before" /\ longer[2] = kind
      BY <3>1, <3>2, AppendProperties
    <3>4. \A i \in 1..2 : i = 1 \/ i = 2
      OBVIOUS
    <3>5. \A i \in 1..Len(longer) : longer[i] = <<"before", kind>>[i]
      BY <3>3, <3>4
    <3> HIDE DEF longer
    <3>6. longer = <<"before", kind>>
      BY <3>1, <3>2, <3>3, <3>5, SeqEqual
    <3> QED BY <3>6 DEF longer
  <2> QED BY ONLY <2>1, <2>2, <2>3
<1>3. Len(<<"before">>) = 1 /\ Len(<<"partial">>) = 1 /\ Len(<<"before", "partial">>) = 2
  OBVIOUS
<1>4. CASE ~partial
  <2>1. rows = <<"before">> /\ failures = {}
    BY <1>1, <1>4 DEF Stored, RowInv
  <2> QED BY <1>2, <1>4, <2>1 DEF WithRow, Written
<1>5. CASE partial /\ "first" \in failures
  <2>1. rows \in {<<"before">>, <<"partial">>}
    BY <1>1, <1>5 DEF Stored
  <2> QED BY <1>2, <1>3, <1>5, <2>1 DEF WithRow, Written
<1>6. CASE partial /\ "first" \notin failures
  <2>1. rows = <<"before", "partial">>
    BY <1>1, <1>6 DEF Stored
  <2> QED BY <1>2, <1>3, <1>6, <2>1 DEF WithRow, Written
<1> QED BY <1>1, <1>4, <1>5, <1>6

\* A row a turn writes is a row, and so is one it leaves alone.
LEMMA WrittenType ==
  ASSUME NEW kind \in RowKinds
  PROVE  Written(kind) \in Seq(RowKinds)
<1>1. <<kind>> \in Seq(RowKinds)
  OBVIOUS
<1>2. <<"before", kind>> \in Seq(RowKinds)
  BY DEF RowKinds
<1> QED BY <1>1, <1>2 DEF Written

\* A relayed event writes a draft, or fails to, or writes nothing.
LEMMA RelayWrites ==
  ASSUME TypeOK, RowInv, RelayEvent
  PROVE  /\ phase = "turn"
         /\ \/ UNCHANGED saved
            \/ partial' = TRUE /\ rows' = Written("partial") /\ UNCHANGED failures
            \/ /\ ~partial /\ partial' = TRUE /\ rows = <<"before">> /\ UNCHANGED rows
               /\ failures' = failures \cup {"first"}
<1>1. phase = "turn" /\ partial \in BOOLEAN
  BY DEF RelayEvent, RowInv, TypeOK
<1>2. WithRow("partial") = Written("partial")
  BY <1>1, WriteRow DEF RowKinds
<1>3. ~partial => rows = <<"before">>
  BY <1>1 DEF RowInv, Stored
<1> QED BY <1>1, <1>2, <1>3 DEF RelayEvent, SavePartial, saved

\* The end writes the answer or the mark of an interruption, or fails to, or, when the
\* agent has failed, writes nothing.
LEMMA FinishWrites ==
  ASSUME TypeOK, RowInv, Finish
  PROVE  /\ phase = "turn"
         /\ \/ result = "failed" /\ UNCHANGED <<rows, failures>>
            \/ result # "failed" /\ rows' = Written(Final(result)) /\ UNCHANGED failures
            \/ result # "failed" /\ UNCHANGED rows /\ failures' = failures \cup {"final"}
<1>1. phase = "turn" /\ WithRow(Final(result)) = Written(Final(result))
  BY WriteRow DEF Finish, Final, RowKinds
<1> QED BY <1>1 DEF Finish

-----------------------------------------------------------------------------
(* The types.                                                              *)

\* Every step keeps the types; the channels stay within their capacity because
\* both senders wait for room.
LEMMA TypeStep == TypeOK /\ BudgetInv /\ RowInv /\ [Next]_vars => TypeOK'
<1> SUFFICES ASSUME TypeOK, BudgetInv, RowInv, [Next]_vars PROVE TypeOK'
  OBVIOUS
<1> USE Limits DEF TypeOK
<1> USE DEF loop, asks, relay, saved, seenBy
<1>0. asked \in Nat /\ rounds \in Nat /\ rounds * MaxTools \in Nat
      /\ rounds * MaxTools <= MaxRounds * MaxTools
  BY Budget
<1>1. CASE Provider
  <2>1. CASE StreamItem
    BY <2>1 DEF StreamItem
  <2>2. CASE ProviderFails
    BY <2>2 DEF ProviderFails, Return
  <2>3. CASE FinalAnswer
    <3>1. out' \in {<<>>, <<"other">>, <<"other", "chunk">>}
      BY <2>3 DEF FinalAnswer
    <3>2. out' \in Seq({"chunk", "other"})
      BY <3>1, TuplesType
    <3> QED
      BY <2>3, <3>2 DEF FinalAnswer
  <2>4. CASE CallTools
    <3>1. PICK n \in 1..MaxTools : left' = n /\ calls' = n /\ out' = Times(n, "other")
      BY <2>4 DEF CallTools
    <3>2. out' \in Seq({"chunk", "other"})
      BY <3>1, TimesType
    <3> QED
      BY <2>4, <3>1, <3>2 DEF CallTools
  <2> QED
    BY <1>1, <2>1, <2>2, <2>3, <2>4 DEF Provider
<1>2. CASE OwnSteps
  <2>1. CASE Emit
    <3>1. /\ Head(out) \in {"chunk", "other"} /\ Tail(out) \in Seq({"chunk", "other"})
      BY <2>1, HeadTailProperties DEF Emit
    <3>2. events' \in Seq({"chunk", "other"}) /\ Len(events') = Len(events) + 1
      BY <2>1, <3>1, AppendProperties DEF Emit
    <3> QED
      BY <2>1, <3>1, <3>2, LenProperties DEF Emit
  <2>2. CASE NextIteration
    BY <2>2 DEF NextIteration, Return
  <2>3. CASE StreamCancelled
    BY <2>3 DEF StreamCancelled, Return
  <2>4. CASE FinalSent
    BY <2>4 DEF FinalSent, Return
  <2>5. CASE StartTool
    BY <2>5 DEF StartTool
  <2>6. CASE Ask
    <3>1. left > 0 /\ asked + left <= rounds * MaxTools
      BY <2>6 DEF Ask, BudgetInv
    <3>2. left \in Nat
      OBVIOUS
    <3>3. asked + 1 \in Requests
      BY ONLY <1>0, <3>1, <3>2, Limits, Within DEF Requests
    <3> QED
      BY <2>6, <3>3 DEF Ask, Requests
  <2>7. CASE ToolsDone
    <3>1. out' \in Seq({"chunk", "other"})
      BY <2>7, TimesType DEF ToolsDone
    <3> QED
      BY <2>7, <3>1 DEF ToolsDone
  <2>8. CASE Offer
    <3>1. asked \in Requests
      BY <2>8 DEF Offer, BudgetInv, InPrompt, Requests
    <3>2. offers' \in Seq(Requests) /\ Len(offers') = Len(offers) + 1
      BY <2>8, <3>1, AppendProperties DEF Offer
    <3> QED
      BY <2>8, <3>2, LenProperties DEF Offer
  <2>9. CASE Approved
    BY <2>9 DEF Approved
  <2>10. CASE Denied
    <3>1. asked \in Requests /\ left - 1 \in 0..MaxTools
      BY <2>10 DEF Denied, BudgetInv, InPrompt, Requests
    <3> QED
      BY <2>10, <3>1 DEF Denied, TakeDenial
  <2> QED
    BY <1>2, <2>1, <2>2, <2>3, <2>4, <2>5, <2>6, <2>7, <2>8, <2>9, <2>10 DEF OwnSteps
<1>3. CASE ToolEnds
  <2>1. left - 1 \in 0..MaxTools
    BY <1>3 DEF ToolEnds, BudgetInv
  <2> QED
    BY <1>3, <2>1 DEF ToolEnds
<1>4. CASE ApprovalTimeout
  <2>1. asked \in Requests /\ left - 1 \in 0..MaxTools
    BY <1>4 DEF ApprovalTimeout, BudgetInv, InPrompt, Requests
  <2> QED
    BY <1>4, <2>1 DEF ApprovalTimeout, TakeDenial
<1>5. CASE Forward
  <2>1. CASE DrainApprovals
    BY <2>1 DEF DrainApprovals
  <2>2. CASE ShowRequest
    <3>1. /\ Head(offers) \in Requests /\ Tail(offers) \in Seq(Requests)
          /\ Len(Tail(offers)) = Len(offers) - 1
      BY <2>2, HeadTailProperties DEF ShowRequest
    <3> QED
      BY <2>2, <3>1, LenProperties DEF ShowRequest
  <2>3. CASE RelayEvent
    <3>1. Tail(events) \in Seq({"chunk", "other"}) /\ Len(Tail(events)) = Len(events) - 1
      BY <2>3, HeadTailProperties DEF RelayEvent
    <3>2. rows' \in Seq(RowKinds)
      <4>1. rows \in Seq(RowKinds) /\ "partial" \in RowKinds
        BY DEF RowKinds
      <4> QED BY <2>3, <4>1, RelayWrites, WrittenType DEF saved
    <3>3. partial' \in BOOLEAN /\ failures' \subseteq {"first", "final"}
      BY <2>3, RelayWrites DEF saved
    <3>4. events' \in Seq({"chunk", "other"}) /\ Len(events') <= EventCap
      BY <2>3, <3>1, LenProperties DEF RelayEvent
    <3>5. fwd' = "sending" /\ UNCHANGED <<loop, asks, drained, cancelled, phase, seenBy>>
      BY <2>3 DEF RelayEvent
    <3> QED
      BY <3>2, <3>3, <3>4, <3>5 DEF RowKinds
  <2>4. CASE EventsEnd
    BY <2>4 DEF EventsEnd
  <2> QED
    BY <1>5, <2>1, <2>2, <2>3, <2>4 DEF Forward
<1>6. CASE FrameSent
  BY <1>6 DEF FrameSent
<1>7. CASE ClientAnswers
  BY <1>7 DEF ClientAnswers
<1>8. CASE ClientGone
  BY <1>8 DEF ClientGone
<1>9. CASE Abort
  BY <1>9 DEF Abort
<1>10. CASE Finish
  <2>1. rows \in Seq(RowKinds) /\ Final(result) \in RowKinds
    BY DEF Final, RowKinds
  <2>2. rows' \in Seq(RowKinds) /\ failures' \subseteq {"first", "final"}
    BY <1>10, <2>1, FinishWrites, WrittenType
  <2> QED
    BY <1>10, <2>2 DEF Finish, RowKinds
<1>11. CASE UNCHANGED vars
  BY <1>11 DEF vars
<1> QED
  BY <1>1, <1>2, <1>3, <1>4, <1>5, <1>6, <1>7, <1>8, <1>9, <1>10, <1>11 DEF Next

-----------------------------------------------------------------------------
(* The tool budget.                                                        *)

\* A round adds MaxTools requests to the budget, a prompt or a tool takes one.
LEMMA BudgetStep == TypeOK /\ BudgetInv /\ [Next]_vars => BudgetInv'
<1> SUFFICES ASSUME TypeOK, BudgetInv, [Next]_vars PROVE BudgetInv'
  OBVIOUS
<1> DEFINE now == rounds * MaxTools
           then == rounds' * MaxTools
<1>1. /\ asked \in Nat /\ left \in Nat /\ now \in Nat /\ MaxTools \in Nat
      /\ agent \in {"check", "stream", "last", "tools", "running", "offering", "asking", "done"}
  BY Limits, Budget DEF TypeOK
<1>2. CASE NextIteration
  <2>1. CASE rounds' = rounds + 1
    <3>1. rounds \in 0..MaxRounds
      BY DEF TypeOK
    <3>2. then = now + MaxTools
      BY <2>1, <3>1, Budget
    <3>3. agent' = "stream" /\ asked' = asked /\ left' = left /\ asked <= now
      BY <1>2, <2>1, <3>1 DEF NextIteration, Return, BudgetInv, asks
    <3> HIDE DEF now, then
    <3>4. asked' <= then /\ asked' + MaxTools <= then
      BY <1>1, <3>2, <3>3
    <3> QED
      BY <3>3, <3>4 DEF BudgetInv, InPrompt, then
  <2>2. CASE UNCHANGED rounds /\ agent' = "done"
    BY <1>2, <2>2 DEF NextIteration, BudgetInv, InPrompt, asks
  <2> QED
    BY <1>2, <2>1, <2>2 DEF NextIteration, Return
<1>3. CASE CallTools
  <2>1. PICK n \in 1..MaxTools : left' = n
    BY <1>3 DEF CallTools
  <2>2. agent' = "tools" /\ asked' = asked /\ then = now /\ asked + MaxTools <= now
    BY <1>3 DEF CallTools, BudgetInv, asks
  <2> HIDE DEF now, then
  <2>3. asked' <= then /\ asked' + left' <= then
    BY <1>1, <2>1, <2>2
  <2> QED
    BY <2>2, <2>3 DEF BudgetInv, InPrompt, then
<1>4. CASE Ask
  <2>1. /\ agent' = "offering" /\ asked' = asked + 1 /\ then = now /\ left' = left
        /\ left > 0 /\ asked + left <= now
    BY <1>4 DEF Ask, BudgetInv
  <2> HIDE DEF now, then
  <2>2. asked' <= then /\ left' > 0 /\ asked' + left' <= then + 1 /\ asked' > 0
    BY <1>1, <2>1
  <2> QED
    BY <2>1, <2>2 DEF BudgetInv, then
<1>5. CASE ToolEnds \/ Denied \/ ApprovalTimeout
  <2>1. /\ agent' = "tools" /\ asked' = asked /\ then = now /\ left' = left - 1
        /\ asked <= now /\ left > 0 /\ asked + left <= now + 1
    BY <1>5 DEF ToolEnds, Denied, ApprovalTimeout, TakeDenial, BudgetInv, InPrompt, asks
  <2> HIDE DEF now, then
  <2>2. asked' <= then /\ asked' + left' <= then
    BY <1>1, <2>1
  <2> QED
    BY <2>1, <2>2 DEF BudgetInv, InPrompt, then
<1>6. CASE StartTool
  <2>1. /\ agent' = "running" /\ asked' = asked /\ then = now /\ left' = left
        /\ asked <= now /\ left > 0 /\ asked + left <= now
    BY <1>6 DEF StartTool, BudgetInv, asks
  <2> HIDE DEF now, then
  <2>2. asked' <= then /\ left' > 0 /\ asked' + left' <= then + 1
    BY <1>1, <2>1
  <2> QED
    BY <2>1, <2>2 DEF BudgetInv, InPrompt, then
<1>7. CASE \/ ProviderFails \/ FinalAnswer \/ StreamCancelled \/ FinalSent \/ ToolsDone
           \/ Offer \/ Approved
  BY <1>7 DEF ProviderFails, FinalAnswer, StreamCancelled, FinalSent, ToolsDone, Offer,
              Approved, Return, BudgetInv, InPrompt, asks
<1>8. CASE UNCHANGED <<agent, rounds, left, asked>>
  BY <1>8 DEF BudgetInv, InPrompt
<1>9. CASE \/ StreamItem \/ Emit \/ Forward \/ FrameSent \/ ClientAnswers \/ ClientGone
           \/ Abort \/ Finish \/ UNCHANGED vars
  <2>1. UNCHANGED <<agent, rounds, left, asked>>
    BY <1>9 DEF StreamItem, Emit, Forward, DrainApprovals, ShowRequest, RelayEvent, EventsEnd,
                FrameSent, ClientAnswers, ClientGone, Abort, Finish, vars, loop, asks
  <2> QED
    BY <1>8, <2>1
<1> QED
  BY <1>2, <1>3, <1>4, <1>5, <1>6, <1>7, <1>9 DEF Next, Provider, OwnSteps

-----------------------------------------------------------------------------
(* Answers and the requests they name.                                     *)

\* A parked request is the one the agent waits for, so an answer that finds its
\* sender in the map decides that request and an answer that does not, none.
LEMMA AskStep == TypeOK /\ BudgetInv /\ RowInv /\ AskInv /\ [Next]_vars => AskInv'
<1> SUFFICES ASSUME TypeOK, BudgetInv, RowInv, AskInv, [Next]_vars PROVE AskInv'
  OBVIOUS
<1> DEFINE most == MaxRounds * MaxTools
<1>1. /\ most \in Nat /\ asked \in Nat /\ Requests = 1..most /\ asked <= most
      /\ parked \subseteq Requests
      /\ reply \in [Requests -> {"none", "approve", "deny", "dropped"}]
  BY Limits DEF TypeOK, Requests
<1> HIDE DEF most
<1>2. CASE Ask
  <2>1. agent' = "offering" /\ asked' = asked + 1 /\ parked' = parked \cup {asked + 1}
        /\ agent = "tools" /\ UNCHANGED <<reply, granted, denied>>
    BY <1>2 DEF Ask, seenBy
  <2>2. parked = {}
    BY <2>1 DEF AskInv, AnswersKept
  <2>3. asked' \in Requests
    <3>1. TypeOK' /\ BudgetInv'
      BY TypeStep, BudgetStep
    <3> QED
      BY <2>1, <3>1 DEF TypeOK, Requests, BudgetInv, InPrompt
  <2>4. reply[asked + 1] = "none"
    BY <1>1, <2>1, <2>3 DEF AskInv
  <2>5. granted \subseteq 1..asked /\ denied \subseteq 1..asked /\ asked + 1 \notin 1..asked
    BY <1>1 DEF AskInv
  <2>6. 1..asked' = 1..asked \cup {asked'}
    BY <1>1, <2>1
  <2>7. AnswersKept'
    BY <2>1, <2>2, <2>4, <2>5, <2>6 DEF AskInv, AnswersKept
  <2> QED
    BY <1>1, <2>1, <2>2, <2>4, <2>5, <2>6, <2>7 DEF AskInv, InPrompt
<1>3. CASE Approved
  <2>1. parked = {}
    BY <1>3 DEF Approved, AskInv, AnswersKept
  <2> QED
    BY <1>3, <2>1 DEF Approved, AskInv, AnswersKept, InPrompt, asks, seenBy
<1>4. CASE Denied \/ ApprovalTimeout
  <2>1. /\ agent = "asking" /\ agent' = "tools" /\ reply[asked] # "approve"
        /\ parked' = parked \ {asked} /\ denied' = denied \cup {asked}
        /\ UNCHANGED <<asked, reply, granted>>
    BY <1>4 DEF Denied, ApprovalTimeout, TakeDenial
  <2>2. asked \in 1..asked
    BY <1>1, <2>1 DEF BudgetInv, InPrompt
  <2>3. asked \notin granted /\ parked' = {}
    BY <2>1, <2>2 DEF AskInv, AnswersKept
  <2> QED
    BY <2>1, <2>2, <2>3 DEF AskInv, AnswersKept, InPrompt
<1>5. CASE DrainApprovals
  <2>1. /\ parked' = {} /\ UNCHANGED <<agent, asked, granted, denied>>
        /\ reply' = [i \in Requests |-> IF i \in parked THEN "dropped" ELSE reply[i]]
    BY <1>5 DEF DrainApprovals, loop, seenBy
  <2>2. \A i \in parked : i \in 1..asked /\ reply[i] = "none"
    <3>1. ASSUME NEW i \in parked PROVE i \in 1..asked
      BY <1>1, <3>1 DEF AskInv, AnswersKept, InPrompt, BudgetInv
    <3> QED
      BY <3>1 DEF AskInv
  <2>3. 1..asked \subseteq Requests
    BY <1>1
  <2> QED
    BY <1>1, <2>1, <2>2, <2>3 DEF AskInv, AnswersKept, InPrompt
<1>6. CASE ClientAnswers
  <2>1. PICK i \in shown, d \in {"approve", "deny"} :
             IF i \in parked
             THEN /\ parked' = parked \ {i}
                  /\ reply' = [reply EXCEPT ![i] = d]
                  /\ granted' = IF d = "approve" THEN granted \cup {i} ELSE granted
             ELSE UNCHANGED <<parked, reply, granted>>
    BY <1>6 DEF ClientAnswers
  <2>2. UNCHANGED <<agent, asked, denied>>
    BY <1>6 DEF ClientAnswers, loop
  <2>3. CASE i \in parked
    <3>1. InPrompt /\ i = asked /\ reply[i] = "none" /\ i \in 1..asked /\ i \in Requests
      BY <1>1, <2>3 DEF AskInv, AnswersKept, InPrompt, BudgetInv
    <3>2. i \notin denied /\ i \notin granted /\ parked' = {}
      BY <2>1, <2>3, <3>1 DEF AskInv, AnswersKept
    <3>3. \A j \in Requests : reply'[j] = IF j = i THEN d ELSE reply[j]
      BY <1>1, <2>1, <2>3
    <3>4. granted' = IF d = "approve" THEN granted \cup {i} ELSE granted
      BY <2>1, <2>3
    <3>5. 1..asked \subseteq Requests /\ ~(i > asked)
      BY <1>1, <3>1
    <3>6. AnswersKept'
      BY <2>2, <3>1, <3>2, <3>3, <3>4, <3>5 DEF AskInv, AnswersKept
    <3> QED
      BY <2>2, <3>1, <3>2, <3>3, <3>4, <3>5, <3>6 DEF AskInv, InPrompt
  <2>4. CASE i \notin parked
    BY <2>1, <2>2, <2>4 DEF AskInv, AnswersKept, InPrompt
  <2> QED
    BY <2>3, <2>4
<1>7. CASE \/ Provider \/ Emit \/ NextIteration \/ StreamCancelled \/ FinalSent \/ StartTool
           \/ ToolsDone \/ Offer \/ ToolEnds
  <2>1. /\ UNCHANGED <<asked, parked, reply, granted, denied>>
        /\ InPrompt' <=> InPrompt
    BY <1>7 DEF Provider, StreamItem, ProviderFails, FinalAnswer, CallTools, Emit, NextIteration,
                StreamCancelled, FinalSent, StartTool, ToolsDone, Offer, ToolEnds, Return,
                InPrompt, asks, seenBy
  <2> QED
    BY <2>1 DEF AskInv, AnswersKept, InPrompt
<1>8. CASE \/ ShowRequest \/ RelayEvent \/ EventsEnd \/ FrameSent \/ ClientGone \/ Abort
           \/ Finish \/ UNCHANGED vars
  <2>1. UNCHANGED <<agent, asked, parked, reply, granted, denied>>
    BY <1>8 DEF ShowRequest, RelayEvent, EventsEnd, FrameSent, ClientGone, Abort, Finish,
                vars, loop, asks, seenBy
  <2> QED
    BY <2>1 DEF AskInv, AnswersKept, InPrompt
<1> QED
  BY <1>2, <1>3, <1>4, <1>5, <1>6, <1>7, <1>8 DEF Next, OwnSteps, Forward

-----------------------------------------------------------------------------
(* The rows in the store.                                                  *)

\* Before the join returns the store holds what partial_saved says, and the last
\* write replaces it.
LEMMA RowStep == TypeOK /\ RowInv /\ [Next]_vars => RowInv'
<1> SUFFICES ASSUME TypeOK, RowInv, [Next]_vars PROVE RowInv'
  OBVIOUS
<1>1. /\ Len(<<"before">>) = 1 /\ <<"before">>[1] = "before"
      /\ \A k : Len(<<k>>) = 1 /\ Len(<<"before", k>>) = 2 /\ <<"before", k>>[1] = "before"
  OBVIOUS
<1>2. phase \in {"turn", "over"} /\ partial \in BOOLEAN
      /\ result \in {"none", "answered", "failed", "cancelled"}
  BY DEF TypeOK
<1>3. CASE RelayEvent
  <2>1. phase = "turn" /\ rows \in Stored /\ failures \subseteq (IF partial THEN {"first"} ELSE {})
    BY <1>3, RelayWrites DEF RowInv
  <2>2. UNCHANGED <<agent, phase, result>>
    BY <1>3 DEF RelayEvent, loop
  <2>3. CASE UNCHANGED saved
    BY <2>1, <2>2, <2>3 DEF RowInv, OneRow, Stored, saved
  <2>4. CASE partial' = TRUE /\ rows' = Written("partial") /\ UNCHANGED failures
    <3>1. rows' \in Stored' /\ OneRow'
      BY <1>1, <2>1, <2>2, <2>4 DEF Stored, Written, OneRow
    <3> QED BY <2>1, <2>2, <2>4, <3>1 DEF RowInv
  <2>5. CASE /\ ~partial /\ partial' = TRUE /\ rows = <<"before">> /\ UNCHANGED rows
             /\ failures' = failures \cup {"first"}
    <3>1. failures' = {"first"}
      BY <2>1, <2>5
    <3> QED BY <1>1, <2>1, <2>2, <2>5, <3>1 DEF RowInv, Stored, OneRow
  <2> QED BY <1>3, <2>3, <2>4, <2>5, RelayWrites
<1>4. CASE Finish
  <2>1. /\ phase' = "over" /\ agent = "done" /\ fwd \in {"ended", "left"}
        /\ UNCHANGED <<agent, result, fwd>>
    BY <1>4 DEF Finish, loop
  <2>2. OneRow
    BY DEF RowInv
  <2>3. CASE result # "failed" /\ rows' = Written(Final(result)) /\ UNCHANGED failures
    BY <1>1, <2>1, <2>3 DEF RowInv, OneRow, Written, Final
  <2>4. CASE result = "failed" /\ UNCHANGED <<rows, failures>>
    BY <2>1, <2>2, <2>4 DEF RowInv, OneRow
  <2>5. CASE result # "failed" /\ UNCHANGED rows /\ failures' = failures \cup {"final"}
    BY <2>1, <2>2, <2>5 DEF RowInv, OneRow
  <2> QED
    BY <1>4, <2>3, <2>4, <2>5, FinishWrites
<1>5. CASE \/ Provider \/ OwnSteps \/ ToolEnds \/ ApprovalTimeout
  <2>1. CASE Provider
    <3>1. /\ agent = "stream" /\ (agent' = "done" => result' # "none")
          /\ UNCHANGED <<phase, saved, fwd>>
      BY <2>1 DEF Provider, StreamItem, ProviderFails, FinalAnswer, CallTools, Return, relay
    <3> QED
      BY <1>2, <3>1 DEF RowInv, OneRow, Stored, saved
  <2>2. CASE NextIteration \/ StreamCancelled \/ FinalSent
    <3>1. /\ agent \in {"check", "stream", "last"} /\ (agent' = "done" => result' # "none")
          /\ UNCHANGED <<phase, saved, fwd>>
      BY <2>2 DEF NextIteration, StreamCancelled, FinalSent, Return, relay
    <3> QED
      BY <1>2, <3>1 DEF RowInv, OneRow, Stored, saved
  <2>3. CASE \/ StartTool \/ Ask \/ ToolsDone \/ Offer \/ Approved \/ Denied \/ ToolEnds
             \/ ApprovalTimeout
    <3>1. /\ agent \in {"tools", "running", "offering", "asking"} /\ agent' # "done"
          /\ UNCHANGED <<phase, saved, fwd>>
      BY <2>3 DEF StartTool, Ask, ToolsDone, Offer, Approved, Denied, ToolEnds,
                  ApprovalTimeout, TakeDenial, relay
    <3> QED
      BY <1>2, <3>1 DEF RowInv, OneRow, Stored, saved
  <2>4. CASE Emit
    BY <2>4 DEF Emit, RowInv, OneRow, Stored, relay, saved
  <2> QED
    BY <1>5, <2>1, <2>2, <2>3, <2>4 DEF OwnSteps
<1>6. CASE \/ DrainApprovals \/ ShowRequest \/ EventsEnd \/ FrameSent \/ ClientAnswers
           \/ ClientGone \/ Abort \/ UNCHANGED vars
  <2>1. /\ phase = "turn" \/ fwd' = fwd
        /\ UNCHANGED <<agent, result, phase, saved>>
    BY <1>6 DEF DrainApprovals, ShowRequest, EventsEnd, FrameSent, ClientAnswers, ClientGone,
                Abort, vars, loop, relay, RowInv, TypeOK
  <2> QED
    BY <2>1 DEF RowInv, OneRow, Stored, saved
<1> QED
  BY <1>3, <1>4, <1>5, <1>6 DEF Next, Forward

-----------------------------------------------------------------------------
(* The invariant and what follows from it.                                 *)

\* A turn starts without requests or answers, and with the row it finds.
LEMMA InitInv == Init => IInv
<1> SUFFICES ASSUME Init PROVE IInv
  OBVIOUS
<1>1. Len(<<>>) = 0 /\ \A S : <<>> \in Seq(S)
  BY EmptySeq
<1>2. 0 * MaxTools = 0
  BY Limits
<1>3. TypeOK
  <2>1. 0 \in 0..MaxRounds /\ 0 \in 0..MaxTools /\ 0 \in 0..(MaxRounds * MaxTools)
    BY Limits
  <2>2. Len(events) <= EventCap /\ Len(offers) <= ApprovalCap
    BY <1>1, Limits DEF Init
  <2>3. reply \in [Requests -> {"none", "approve", "deny", "dropped"}]
    BY DEF Init
  <2>4. <<"before">> \in Seq(RowKinds)
    BY DEF RowKinds
  <2> QED
    BY <1>1, <2>1, <2>2, <2>3, <2>4 DEF Init, TypeOK, RowKinds
<1>4. BudgetInv
  BY <1>2 DEF Init, BudgetInv, InPrompt
<1>5. AskInv
  <2>1. 1..0 = {}
    OBVIOUS
  <2> QED
    BY <2>1 DEF Init, AskInv, AnswersKept, InPrompt, Requests
<1>6. RowInv
  <2>1. Len(<<"before">>) = 1 /\ <<"before">>[1] = "before"
    OBVIOUS
  <2> QED
    BY <2>1 DEF Init, RowInv, OneRow, Stored
<1> QED
  BY <1>3, <1>4, <1>5, <1>6 DEF IInv

\* The invariant holds in every reachable state.
THEOREM Safety == Spec => []IInv
<1>1. IInv /\ [Next]_vars => IInv'
  BY TypeStep, BudgetStep, AskStep, RowStep DEF IInv
<1> QED
  BY InitInv, <1>1, PTL DEF Spec

\* The variables of process_chat_message and of the agent's turn keep their types,
\* and both channels their capacity.
THEOREM TypeCorrect == Spec => []TypeOK
<1>1. IInv => TypeOK
  BY DEF IInv
<1> QED
  BY <1>1, Safety, PTL

\* An approval_response counts for the request it names, once and in time: none
\* that the gateway accepted is taken as denied by the agent.
THEOREM AnswersAreKept == Spec => []AnswersKept
<1>1. IInv => AnswersKept
  BY DEF IInv, AskInv
<1> QED
  BY <1>1, Safety, PTL

\* A turn leaves one row behind the one it found, however often its draft is saved, and
\* in the end the answer or the mark of its interruption in it, unless a write has
\* failed: without its first row it overwrites the one it found.
THEOREM OneRowIsLeft == Spec => []OneRow
<1>1. IInv => OneRow
  BY DEF IInv, RowInv
<1> QED
  BY <1>1, Safety, PTL

-----------------------------------------------------------------------------
(* The two futures and the two channels between them cannot jam.           *)

\* turn_fut has a step to take that waits for nothing outside the task and its tools.
AgentCanMove ==
  IF out # <<>> THEN Len(events) < EventCap
  ELSE \/ agent \in {"check", "last", "tools", "running"}
       \/ agent = "stream" /\ cancelled
       \/ agent = "offering" /\ Len(offers) < ApprovalCap
       \/ agent = "asking" /\ reply[asked] # "none"

\* forward_fut has one, if only to hand a frame to the socket.
RelayCanMove ==
  \/ fwd = "sending"
  \/ /\ fwd = "select"
     /\ \/ cancelled /\ ~drained
        \/ offers # <<>> \/ events # <<>>
        \/ agent = "done"

JoinCanReturn == agent = "done" /\ fwd \in {"ended", "left"}

\* What the turn may wait for: the provider unless it is aborted, or the answer to
\* a prompt, which the client or the timer gives.
AwaitsOutside ==
  /\ out = <<>>
  /\ \/ agent = "stream" /\ ~cancelled
     \/ agent = "asking" /\ reply[asked] = "none"

\* A channel that nobody drains any more is full.
JammedByLeaving ==
  /\ fwd = "left"
  /\ \/ out # <<>> /\ Len(events) = EventCap
     \/ agent = "offering" /\ Len(offers) = ApprovalCap

\* A turn that is not over can move, waits for the outside, or is the turn of a
\* client that has left with a channel full.  The channels never jam otherwise.
NeverJams ==
  phase = "turn" => \/ AgentCanMove \/ RelayCanMove \/ JoinCanReturn
                    \/ AwaitsOutside \/ JammedByLeaving

\* The forward loop ends for its own reason only: the turn has returned.  A turn that
\* has returned has nothing more to send.
EndInv ==
  /\ fwd = "ended" => agent = "done"
  /\ agent \in {"running", "offering", "asking", "done"} => out = <<>>

\* A turn that has returned stays so, and emits all it has before it goes on.
LEMMA EndStep == TypeOK /\ EndInv /\ [Next]_vars => EndInv'
<1> SUFFICES ASSUME TypeOK, EndInv, [Next]_vars PROVE EndInv'
  OBVIOUS
<1> USE DEF EndInv, loop, asks, relay, seenBy, Return, TakeDenial
<1>1. CASE Provider
  BY <1>1 DEF Provider, StreamItem, ProviderFails, FinalAnswer, CallTools
<1>2. CASE OwnSteps
  BY <1>2 DEF OwnSteps, Emit, NextIteration, StreamCancelled, FinalSent, StartTool, Ask,
              ToolsDone, Offer, Approved, Denied
<1>3. CASE ToolEnds \/ ApprovalTimeout
  BY <1>3 DEF ToolEnds, ApprovalTimeout
<1>4. CASE Forward
  BY <1>4 DEF Forward, DrainApprovals, ShowRequest, RelayEvent, EventsEnd
<1>5. CASE FrameSent \/ ClientAnswers \/ ClientGone \/ Abort \/ Finish
  BY <1>5 DEF FrameSent, ClientAnswers, ClientGone, Abort, Finish
<1>6. CASE UNCHANGED vars
  BY <1>6 DEF vars
<1> QED BY <1>1, <1>2, <1>3, <1>4, <1>5, <1>6 DEF Next

\* With the client there, the event channel, the approval channel, the prompt and the
\* join cannot block each other, whatever the capacities: the safety half of
\* AbortedTurnEnds.  The one way to jam is the one LeftTurnEnds shows.
THEOREM ChannelsNeverJam == Spec => []NeverJams
<1>1. Init => EndInv
  BY DEF Init, EndInv
<1>2. IInv /\ EndInv /\ [Next]_vars => EndInv'
  BY EndStep DEF IInv
<1>3. IInv /\ EndInv => NeverJams
  <2> SUFFICES ASSUME TypeOK, EndInv, phase = "turn" PROVE
                      \/ AgentCanMove \/ RelayCanMove \/ JoinCanReturn
                      \/ AwaitsOutside \/ JammedByLeaving
    BY DEF IInv, NeverJams
  <2>1. /\ events = <<>> => Len(events) < EventCap
        /\ offers = <<>> => Len(offers) < ApprovalCap
        /\ Len(events) < EventCap \/ Len(events) = EventCap
        /\ Len(offers) < ApprovalCap \/ Len(offers) = ApprovalCap
    BY Limits, EmptySeq, LenProperties DEF TypeOK
  <2>2. \/ AgentCanMove \/ agent = "done" \/ AwaitsOutside
        \/ out # <<>> /\ Len(events) = EventCap
        \/ agent = "offering" /\ Len(offers) = ApprovalCap
    BY <2>1 DEF TypeOK, AgentCanMove, AwaitsOutside
  <2>3. CASE fwd = "sending"
    BY <2>3 DEF RelayCanMove
  <2>4. CASE fwd = "ended"
    BY <2>4 DEF EndInv, JoinCanReturn
  <2>5. CASE fwd = "select"
    <3>1. RelayCanMove \/ (events = <<>> /\ offers = <<>> /\ agent # "done")
      BY <2>5 DEF RelayCanMove
    <3> QED BY <2>1, <2>2, <3>1, Limits
  <2>6. CASE fwd = "left"
    BY <2>2, <2>6 DEF JoinCanReturn, JammedByLeaving
  <2> QED BY <2>3, <2>4, <2>5, <2>6 DEF TypeOK
<1> QED BY <1>1, <1>2, <1>3, Safety, PTL DEF Spec

-----------------------------------------------------------------------------
(* An answer stands.                                                       *)

\* The answer a request got is the answer it keeps: a late approval, a second one, the
\* drain of an abort and the timeout find the request answered and leave it alone.
AnswerStands == \A i \in Requests : reply[i] # "none" => reply'[i] = reply[i]

\* No step changes the outcome of a request the client or an abort has settled.
THEOREM AnswersStand == Spec => [][AnswerStands]_vars
<1>1. IInv /\ [Next]_vars => AnswerStands
  <2> SUFFICES ASSUME IInv, [Next]_vars, NEW i \in Requests, reply[i] # "none"
               PROVE  reply'[i] = reply[i]
    BY DEF AnswerStands
  <2>1. i \notin parked /\ reply \in [Requests -> {"none", "approve", "deny", "dropped"}]
    BY DEF IInv, AskInv, TypeOK
  <2> USE <2>1 DEF loop, asks, relay, seenBy
  <2>2. CASE DrainApprovals
    BY <2>2 DEF DrainApprovals
  <2>3. CASE ClientAnswers
    BY <2>3 DEF ClientAnswers
  <2>4. CASE Provider \/ OwnSteps \/ ToolEnds \/ ApprovalTimeout
    BY <2>4 DEF Provider, StreamItem, ProviderFails, FinalAnswer, CallTools, OwnSteps, Emit,
                NextIteration, StreamCancelled, FinalSent, StartTool, Ask, ToolsDone, Offer,
                Approved, Denied, ToolEnds, ApprovalTimeout, TakeDenial
  <2>5. CASE ShowRequest \/ RelayEvent \/ EventsEnd \/ FrameSent \/ ClientGone \/ Abort \/ Finish
    BY <2>5 DEF ShowRequest, RelayEvent, EventsEnd, FrameSent, ClientGone, Abort, Finish
  <2>6. CASE UNCHANGED vars
    BY <2>6 DEF vars
  <2> QED BY <2>2, <2>3, <2>4, <2>5, <2>6 DEF Next, Forward
<1> QED BY <1>1, Safety, PTL DEF Spec

-----------------------------------------------------------------------------
(* The turn implements TurnRecord.                                         *)

\* A chunk that is relayed writes the draft, for the first time or again, or nothing.
LEMMA RelayRecords ==
  ASSUME TypeOK, RowInv, RelayEvent
  PROVE  Record!Draft \/ UNCHANGED Record!recordVars
<1>1. UNCHANGED <<phase, result, cancelled>>
  BY DEF RelayEvent, loop
<1> QED
  BY <1>1, RelayWrites DEF Written, saved, Record!Draft, Record!Write, Record!Running,
                           Record!recordVars

\* The join writes what the turn came to over the draft, or in its own row.
LEMMA FinishRecords ==
  ASSUME TypeOK, RowInv, Finish
  PROVE  Record!Answer \/ Record!Interrupt \/ Record!Leave
<1>1. result \in {"answered", "failed", "cancelled"}
  BY DEF Finish, RowInv, TypeOK
<1>2. Record!Over
  BY FinishWrites DEF Finish, loop, Record!Over, Record!Running
<1>3. CASE result = "failed"
  BY <1>2, <1>3, FinishWrites DEF Record!Leave
<1>4. CASE result # "failed"
  <2>1. Record!LastWrite(Final(result))
    BY <1>2, <1>4, FinishWrites DEF Written, Record!LastWrite, Record!Write
  <2> QED BY <1>1, <1>4, <2>1 DEF Final, Record!Answer, Record!Interrupt
<1> QED BY <1>3, <1>4

\* A client that goes and an abort ask the turn to stop, at most once.
LEMMA StopRecords ==
  ASSUME TypeOK, RowInv, ClientGone \/ Abort
  PROVE  Record!AskToStop \/ UNCHANGED Record!recordVars
<1>1. phase = "turn" /\ cancelled \in BOOLEAN
  BY DEF ClientGone, Abort, RowInv, TypeOK
<1>2. cancelled' = TRUE /\ UNCHANGED <<rows, failures, phase, result>>
  BY DEF ClientGone, Abort, relay, saved, loop
<1> QED BY <1>1, <1>2 DEF Record!AskToStop, Record!Running, Record!recordVars

\* The steps with which the agent's turn returns, or may.
Returns == NextIteration \/ StreamCancelled \/ ProviderFails \/ FinalSent

\* While it runs the agent has no result, and it stays without one until it returns.
ResultInv == agent # "done" => result = "none"

\* What the agent's turn returns is the verdict; only the two looks at the token make
\* it "cancelled", and both have seen it cancelled.
LEMMA ReturnRecords ==
  ASSUME TypeOK, RowInv, ResultInv, Returns
  PROVE  Record!Decide \/ UNCHANGED Record!recordVars
<1>1. /\ agent # "done" /\ result = "none" /\ UNCHANGED <<rows, failures, phase, cancelled>>
      /\ \/ result' = result
         \/ result' \in {"answered", "failed"}
         \/ result' = "cancelled" /\ cancelled
  BY DEF Returns, NextIteration, StreamCancelled, ProviderFails, FinalSent, Return, relay,
         saved, ResultInv
<1>2. phase = "turn"
  BY <1>1 DEF RowInv, TypeOK
<1> QED BY <1>1, <1>2 DEF Record!Decide, Record!Running, Record!recordVars

Recorded == Returns \/ RelayEvent \/ Finish \/ ClientGone \/ Abort

\* No other step touches the record, or ends the agent's turn.
LEMMA OthersRecordNothing ==
  ASSUME [Next]_vars, ~Recorded
  PROVE  UNCHANGED Record!recordVars /\ (agent' = "done" <=> agent = "done")
<1> USE DEF Record!recordVars, relay, saved, loop, Recorded, Returns, TakeDenial
<1>1. CASE StreamItem \/ FinalAnswer \/ CallTools
  BY <1>1 DEF StreamItem, FinalAnswer, CallTools
<1>2. CASE Emit \/ StartTool \/ Ask \/ ToolsDone \/ Offer \/ Approved \/ Denied
  BY <1>2 DEF Emit, StartTool, Ask, ToolsDone, Offer, Approved, Denied
<1>3. CASE ToolEnds \/ ApprovalTimeout \/ FrameSent \/ ClientAnswers
  BY <1>3 DEF ToolEnds, ApprovalTimeout, FrameSent, ClientAnswers
<1>4. CASE DrainApprovals \/ ShowRequest \/ EventsEnd
  BY <1>4 DEF DrainApprovals, ShowRequest, EventsEnd
<1>5. CASE UNCHANGED vars
  BY <1>5 DEF vars
<1> QED BY <1>1, <1>2, <1>3, <1>4, <1>5 DEF Next, Provider, OwnSteps, Forward

\* A result comes with the return, and no step follows it in the agent.
LEMMA ResultStep == ResultInv /\ [Next]_vars => ResultInv'
<1> SUFFICES ASSUME ResultInv, [Next]_vars PROVE ResultInv'
  OBVIOUS
<1>1. CASE Returns
  BY <1>1 DEF Returns, NextIteration, StreamCancelled, ProviderFails, FinalSent, Return,
              ResultInv
<1>2. CASE RelayEvent \/ Finish \/ ClientGone \/ Abort
  BY <1>2 DEF RelayEvent, Finish, ClientGone, Abort, loop, ResultInv
<1>3. CASE ~Recorded
  BY <1>3, OthersRecordNothing DEF ResultInv, Record!recordVars
<1> QED BY <1>1, <1>2, <1>3 DEF Recorded

\* Whatever the rounds, the tools, the channels and the order of the two futures, the
\* store sees of a turn a draft overwritten until the turn is over, then what the agent
\* came to: its answer, the mark of an interruption that was asked for, or nothing.  All
\* of it goes into one row, behind what the turn found unless its first write has failed.
THEOREM TurnKeepsRecord == Spec => KeepsRecord
<1>1. Init => ResultInv /\ Record!RecordInit
  BY DEF Init, ResultInv, Record!RecordInit
<1>2. IInv /\ ResultInv /\ [Next]_vars => [Record!RecordNext]_Record!recordVars
  <2> SUFFICES ASSUME TypeOK, RowInv, ResultInv, [Next]_vars
               PROVE  Record!RecordNext \/ UNCHANGED Record!recordVars
    BY DEF IInv
  <2>1. CASE RelayEvent
    BY <2>1, RelayRecords DEF Record!RecordNext
  <2>2. CASE Finish
    BY <2>2, FinishRecords DEF Record!RecordNext
  <2>3. CASE ClientGone \/ Abort
    BY <2>3, StopRecords DEF Record!RecordNext
  <2>4. CASE Returns
    BY <2>4, ReturnRecords DEF Record!RecordNext
  <2>5. CASE ~Recorded
    BY <2>5, OthersRecordNothing
  <2> QED BY <2>1, <2>2, <2>3, <2>4, <2>5 DEF Recorded
<1> QED BY <1>1, <1>2, ResultStep, Safety, PTL DEF Spec, KeepsRecord, Record!RecordSpec
=============================================================================
