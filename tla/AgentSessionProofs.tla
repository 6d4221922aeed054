------------------------- MODULE AgentSessionProofs -------------------------
(***************************************************************************)
(* Safety of AgentSession for any set of sends and any bounds, when every  *)
(* exported function may run at any time (Spec): types, tokens, rollback,  *)
(* and at the end the shape of the conversation, whole turns with matched  *)
(* calls and results.  In between, for serial callers (SerialSpec): a      *)
(* session keeps its own messages, and it implements Transcript.           *)
(***************************************************************************)
EXTENDS AgentSessionContract, SequenceTheorems, TLAPS

\* What is known of a send at each of its points.
PointInv ==
  \A s \in Sends :
    /\ pc[s] = "running" => work[s].todo > 0
    /\ pc[s] \in Guarded \cup {"idle", "entered", "token"} => outcome[s] = "none"
    /\ pc[s] = "compacting" => outcome[s] = "ok"
    /\ pc[s] \in {"ending", "clearing"} => outcome[s] \in {"ok", "cancelled", "error"}

-----------------------------------------------------------------------------
(* The history operators stay within the messages they are given.          *)

\* Cutting a history after len messages adds no message to it.
LEMMA TakeType ==
  ASSUME NEW S, NEW h \in Seq(S), NEW len \in Nat
  PROVE  Take(h, len) \in Seq(S)
<1>1. \A k \in Nat : k <= Len(h) => SubSeq(h, 1, k) \in Seq(S)
  <2> SUFFICES ASSUME NEW k \in Nat, k <= Len(h) PROVE SubSeq(h, 1, k) \in Seq(S)
    OBVIOUS
  <2>1. \A i \in 1..k : h[i] \in S
    BY ElementOfSeq, LenProperties
  <2> QED BY <2>1, SubSeqProperties
<1> QED BY <1>1, LenProperties DEF Take

\* What a history begins with does not change when a message is appended.
LEMMA TakeAppend ==
  ASSUME NEW S, NEW h \in Seq(S), NEW m \in S, NEW len \in Nat, len <= Len(h)
  PROVE  Take(Append(h, m), len) = Take(h, len)
<1>1. Len(Append(h, m)) = Len(h) + 1 /\ Append(h, m) \in Seq(S)
  OBVIOUS
<1>2. Take(Append(h, m), len) = SubSeq(Append(h, m), 1, len)
  BY <1>1, LenProperties DEF Take
<1>3. Take(h, len) = SubSeq(h, 1, len)
  BY LenProperties DEF Take
<1>4. SubSeq(Append(h, m), 1, len) = SubSeq(h, 1, len)
  <2>1. \A i \in 1..len : h[i] \in S /\ Append(h, m)[i] = h[i]
    BY ElementOfSeq, LenProperties
  <2>2. SubSeq(h, 1, len) \in Seq(S) /\ SubSeq(Append(h, m), 1, len) \in Seq(S)
    BY <2>1, SubSeqProperties
  <2>3. /\ Len(SubSeq(h, 1, len)) = len
        /\ Len(SubSeq(Append(h, m), 1, len)) = len
        /\ \A i \in 1..len : SubSeq(h, 1, len)[i] = h[i]
        /\ \A i \in 1..len : SubSeq(Append(h, m), 1, len)[i] = Append(h, m)[i]
    <3>1. \A q : (\A i \in 1..len : q[i] \in S) =>
            /\ Len(SubSeq(q, 1, len)) = len
            /\ \A i \in 1..len : SubSeq(q, 1, len)[i] = q[i]
      <4> SUFFICES ASSUME NEW q, \A i \in 1..len : q[i] \in S
                   PROVE  /\ Len(SubSeq(q, 1, len)) = len
                          /\ \A i \in 1..len : SubSeq(q, 1, len)[i] = q[i]
        OBVIOUS
      <4>1. /\ Len(SubSeq(q, 1, len)) = IF 1 <= len THEN len - 1 + 1 ELSE 0
            /\ \A i \in 1..len-1+1 : SubSeq(q, 1, len)[i] = q[1+i-1]
        BY SubSeqProperties
      <4> QED BY <4>1
    <3> QED BY <2>1, <3>1
  <2> QED BY <2>1, <2>2, <2>3, SeqEqual
<1> QED BY <1>2, <1>3, <1>4

\* Compaction keeps messages of the history and adds nothing but a summary.
LEMMA CompactType ==
  ASSUME NEW S, NEW h \in Seq(S), NEW ses, Msg("summary", ses, NoSend) \in S
  PROVE  Compact(h, ses) \in Seq(S)
<1> DEFINE start == IF h # <<>> /\ h[1].role = "system" THEN 1 ELSE 0
           count == Len(h) - start
           kept  == IF KeepRecent < count THEN KeepRecent ELSE count
<1>1. Len(h) \in Nat /\ \A i \in 1..Len(h) : h[i] \in S
  BY ElementOfSeq, LenProperties
<1>2. start \in Nat /\ start <= Len(h) /\ count \in Nat
  BY <1>1, EmptySeq
<1>3. kept \in Nat /\ kept <= count
  BY <1>2, BoundsAssumption
<1>4. SubSeq(h, 1, start) \in Seq(S)
  BY <1>1, <1>2, SubSeqProperties
<1>5. SubSeq(h, Len(h) - kept + 1, Len(h)) \in Seq(S)
  <2>1. \A i \in (Len(h) - kept + 1)..Len(h) : h[i] \in S
    BY <1>1, <1>2, <1>3
  <2> QED BY <1>1, <1>2, <1>3, <2>1, SubSeqProperties
<1>6. <<Msg("summary", ses, NoSend)>> \in Seq(S)
  OBVIOUS
<1>7. SubSeq(h, 1, start) \o <<Msg("summary", ses, NoSend)>>
        \o SubSeq(h, Len(h) - kept + 1, Len(h)) \in Seq(S)
  <2>1. SubSeq(h, 1, start) \o <<Msg("summary", ses, NoSend)>> \in Seq(S)
    BY <1>4, <1>6, ConcatProperties
  <2> QED BY <2>1, <1>5, ConcatProperties
<1> QED BY <1>7 DEF Compact

-----------------------------------------------------------------------------
(* Types.                                                                  *)

\* The bounds are numbers, so that zero is within each of them.
LEMMA Bounds == /\ MaxRounds \in Nat /\ MaxCalls \in Nat /\ MaxSessions \in Nat
                /\ 0 \in 0..MaxRounds /\ 0 \in 0..MaxCalls /\ 0 \in 0..MaxSessions
<1>1. MaxRounds \in Nat /\ MaxCalls \in Nat /\ MaxSessions \in Nat
  BY BoundsAssumption
<1> QED BY <1>1

\* Every message a send records is a message.
LEMMA MsgType ==
  ASSUME NEW role \in Roles, NEW ses \in 0..MaxSessions, NEW turn \in Sends \cup {NoSend}
  PROVE  /\ Msg(role, ses, turn) \in Message
         /\ \A n \in 0..MaxCalls : [Msg(role, ses, turn) EXCEPT !.n = n] \in Message
BY Bounds DEF Msg, Message

\* A send that works on nothing has a proper working state.
LEMMA NoWorkType == NoWork \in Work
BY Bounds, EmptySeq DEF Work, NoWork

\* Taking a conversation into a working state gives a working state.
LEMMA TakenType ==
  ASSUME NEW w \in Work, NEW ses \in 0..MaxSessions, NEW h \in Seq(Message),
         NEW t \in 0..MaxSessions, NEW b \in Nat
  PROVE  [w EXCEPT !.ses = ses, !.history = h, !.tools = t, !.before = b] \in Work
BY DEF Work

\* Replacing the history and the tools of a session gives a session.
LEMMA SessionType ==
  ASSUME NEW x \in Session, NEW h \in Seq(Message), NEW t \in 0..MaxSessions
  PROVE  [x EXCEPT !.history = h, !.tools = t] \in Session
BY DEF Session

\* Each step of a send keeps the type of what it works on.
LEMMA WorkStep ==
  ASSUME TypeOK, PointInv, NEW s \in Sends, Arrive(s) \/ SendStep(s)
  PROVE  work' \in [Sends -> Work] /\ session' \in Session
<1> USE DEF TypeOK, Goto, Return, TurnMsg, Push, LeaveLoop
<1> DEFINE w == work[s]
<1>1. /\ w \in Work /\ w.history \in Seq(Message) /\ w.ses \in 0..MaxSessions
      /\ w.tools \in 0..MaxSessions /\ w.before \in Nat
      /\ w.round \in 0..MaxRounds /\ w.todo \in 0..MaxCalls
  BY DEF Work
<1>2. \A role \in Roles : /\ Msg(role, w.ses, s) \in Message
                          /\ \A n \in 0..MaxCalls :
                               [Msg(role, w.ses, s) EXCEPT !.n = n] \in Message
  BY <1>1, MsgType
<1>3. \A m \in Message : Append(w.history, m) \in Seq(Message)
  BY <1>1
<1>4. ASSUME NEW h \in Seq(Message), WriteBack(s, h)
      PROVE  work' \in [Sends -> Work] /\ session' \in Session
  <2>2. work' \in [Sends -> Work]
    BY <1>4, NoWorkType DEF WriteBack
  <2>3. session' \in Session
    BY <1>1, <1>4, SessionType DEF WriteBack
  <2> QED BY <2>2, <2>3
<1>5. CASE Arrive(s)
  BY <1>5 DEF Arrive, SendEnter, SendRejected
<1>6. CASE \/ InstallToken(s) \/ SendWithoutSession(s) \/ RoundsExhausted(s)
           \/ LoopCancelled(s) \/ StartTool(s) \/ ClearToken(s) \/ ProviderFails(s)
           \/ ProviderAnswers(s)
  BY <1>6 DEF InstallToken, SendWithoutSession, RoundsExhausted, LoopCancelled,
              StartTool, ClearToken, ProviderFails, ProviderAnswers
<1>7. CASE TakeState(s)
  <2>1. /\ session.id \in 0..MaxSessions /\ session.history \in Seq(Message)
        /\ session.tools \in 0..MaxSessions /\ Len(session.history) \in Nat
    BY LenProperties DEF Session
  <2>2. [NoWork EXCEPT !.ses = session.id, !.history = session.history,
                       !.tools = session.tools, !.before = Len(session.history)] \in Work
    BY <2>1, NoWorkType, TakenType
  <2>3. [session EXCEPT !.history = <<>>, !.tools = 0] \in Session
    <3>1. <<>> \in Seq(Message) /\ 0 \in 0..MaxSessions
      BY EmptySeq, Bounds
    <3> QED BY <3>1, SessionType
  <2> QED BY <1>7, <2>2, <2>3 DEF TakeState
<1>8. CASE RuntimeUnavailable(s) \/ PanicUnwind(s)
  BY <1>1, <1>4, <1>8 DEF RuntimeUnavailable, PanicUnwind, RestoreByDrop
<1>9. CASE BeginTurn(s)
  <2>1. PICK native \in BOOLEAN :
          work' = [work EXCEPT ![s] = [w EXCEPT !.history = Append(@, Msg("user", w.ses, s)),
                                                !.native = native]]
    BY <1>9 DEF BeginTurn
  <2>2. Append(w.history, Msg("user", w.ses, s)) \in Seq(Message)
    BY <1>2, <1>3, Bounds DEF Roles
  <2>3. [w EXCEPT !.history = Append(@, Msg("user", w.ses, s)), !.native = native] \in Work
    BY <1>1, <2>2 DEF Work
  <2> QED BY <1>9, <2>1, <2>3 DEF BeginTurn
<1>10. CASE ProviderUnavailable(s) \/ StreamDone(s)
  <2>1. \A role \in Roles : [w EXCEPT !.history = Append(@, Msg(role, w.ses, s))] \in Work
    <3> SUFFICES ASSUME NEW role \in Roles
                 PROVE  [w EXCEPT !.history = Append(@, Msg(role, w.ses, s))] \in Work
      OBVIOUS
    <3>1. Append(w.history, Msg(role, w.ses, s)) \in Seq(Message)
      BY <1>2, <1>3, Bounds
    <3> QED BY <1>1, <3>1 DEF Work
  <2> QED BY <1>10, <2>1 DEF ProviderUnavailable, StreamDone, Roles
<1>11. CASE BeginRound(s)
  <2>1. w.round + 1 \in 0..MaxRounds
    BY <1>1, <1>11, Bounds DEF BeginRound
  <2>2. [w EXCEPT !.round = @ + 1] \in Work
    BY <1>1, <2>1 DEF Work
  <2> QED BY <1>11, <2>2 DEF BeginRound
<1>12. CASE ProviderCallsTools(s)
  <2>1. PICK n \in 1..MaxCalls :
          work' = [work EXCEPT ![s] =
                     [w EXCEPT !.history = Append(@, [Msg("calls", w.ses, s) EXCEPT !.n = n]),
                               !.todo = n]]
    BY <1>12 DEF ProviderCallsTools
  <2>2. n \in 0..MaxCalls
    BY Bounds
  <2>3. Append(w.history, [Msg("calls", w.ses, s) EXCEPT !.n = n]) \in Seq(Message)
    BY <1>2, <1>3, <2>2 DEF Roles
  <2>4. [w EXCEPT !.history = Append(@, [Msg("calls", w.ses, s) EXCEPT !.n = n]),
                  !.todo = n] \in Work
    BY <1>1, <2>2, <2>3 DEF Work
  <2> QED BY <1>12, <2>1, <2>4 DEF ProviderCallsTools
<1>13. CASE ToolResult(s)
  <2>1. w.todo - 1 \in 0..MaxCalls
    BY <1>1, <1>13, Bounds DEF ToolResult, PointInv
  <2>2. Append(w.history, Msg("tool", w.ses, s)) \in Seq(Message)
    BY <1>2, <1>3, Bounds DEF Roles
  <2>3. [w EXCEPT !.todo = @ - 1,
                  !.history = IF w.native THEN Append(@, Msg("tool", w.ses, s)) ELSE @] \in Work
    BY <1>1, <2>1, <2>2 DEF Work
  <2> QED BY <1>13, <2>3 DEF ToolResult
<1>14. CASE ToolsDone(s)
  <2>1. Append(w.history, Msg("results", w.ses, s)) \in Seq(Message)
    BY <1>2, <1>3, Bounds DEF Roles
  <2>2. [w EXCEPT !.history = IF w.native THEN @
                              ELSE Append(@, Msg("results", w.ses, s))] \in Work
    BY <1>1, <2>1 DEF Work
  <2> QED BY <1>14, <2>2 DEF ToolsDone
<1>15. CASE CompactHistory(s)
  <2>1. Msg("summary", w.ses, NoSend) \in Message
    BY <1>1, MsgType DEF Roles
  <2>2. Compact(w.history, w.ses) \in Seq(Message)
    BY <1>1, <2>1, CompactType
  <2>3. [w EXCEPT !.history = Compact(@, w.ses)] \in Work
    BY <1>1, <2>2 DEF Work
  <2> QED BY <1>15, <2>3 DEF CompactHistory
<1>16. CASE PanicAfterTake(s)
  BY <1>16, NoWorkType DEF PanicAfterTake
<1>17. CASE PutBack(s)
  <2>1. Take(w.history, w.before) \in Seq(Message)
    BY <1>1, TakeType
  <2> QED BY <1>1, <1>4, <1>17, <2>1 DEF PutBack
<1> QED
  BY <1>5, <1>6, <1>7, <1>8, <1>9, <1>10, <1>11, <1>12, <1>13, <1>14, <1>15, <1>16, <1>17
     DEF SendStep, LocalStep, AwaitedStep, FaultStep

\* Every variable keeps its type, whichever function steps next.
LEMMA TypeStep == TypeOK /\ PointInv /\ [Next]_vars => TypeOK'
<1> SUFFICES ASSUME TypeOK, PointInv, [Next]_vars PROVE TypeOK'
  OBVIOUS
<1>1. ASSUME NEW s \in Sends, Arrive(s) \/ SendStep(s) PROVE TypeOK'
  <2>1. work' \in [Sends -> Work] /\ session' \in Session
    BY <1>1, WorkStep
  <2>2. opened' = opened /\ destroying' = destroying /\ cancelled' = cancelled
    BY <1>1 DEF Arrive, SendStep, LocalStep, AwaitedStep, FaultStep, SendEnter, SendRejected,
         InstallToken, SendWithoutSession, TakeState, BeginRound, RoundsExhausted,
         LoopCancelled, StreamDone, StartTool, ToolsDone, PutBack, ClearToken, BeginTurn,
         ProviderUnavailable, ProviderFails, ProviderAnswers, ProviderCallsTools, ToolResult,
         CompactHistory, RuntimeUnavailable, PanicUnwind, PanicAfterTake, RestoreByDrop,
         LeaveLoop, lifecycle
  <2>3. cancel_token' \in {cancel_token, s, NoSend}
    BY <1>1 DEF Arrive, SendStep, LocalStep, AwaitedStep, FaultStep, SendEnter, SendRejected,
         InstallToken, SendWithoutSession, TakeState, BeginRound, RoundsExhausted,
         LoopCancelled, StreamDone, StartTool, ToolsDone, PutBack, ClearToken, BeginTurn,
         ProviderUnavailable, ProviderFails, ProviderAnswers, ProviderCallsTools, ToolResult,
         CompactHistory, RuntimeUnavailable, PanicUnwind, PanicAfterTake, RestoreByDrop,
         LeaveLoop
  <2>4. pc' \in [Sends -> PCs] /\ outcome' \in [Sends -> Outcomes]
    BY <1>1 DEF TypeOK, PCs, Holding, Guarded, LoopPoints, Outcomes, Goto, Return,
         Arrive, SendStep, LocalStep, AwaitedStep, FaultStep, SendEnter, SendRejected,
         InstallToken, SendWithoutSession, TakeState, BeginRound, RoundsExhausted,
         LoopCancelled, StreamDone, StartTool, ToolsDone, PutBack, ClearToken, BeginTurn,
         ProviderUnavailable, ProviderFails, ProviderAnswers, ProviderCallsTools, ToolResult,
         CompactHistory, RuntimeUnavailable, PanicUnwind, PanicAfterTake, RestoreByDrop,
         LeaveLoop
  <2> QED BY <2>1, <2>2, <2>3, <2>4 DEF TypeOK
<1>2. CASE SessionCancel \/ DestroyCancel
  BY <1>2 DEF TypeOK, SessionCancel, DestroyCancel, CancelSlot, lifecycle
<1>3. CASE SessionStart
  <2>1. opened + 1 \in 0..MaxSessions
    BY <1>3, Bounds DEF TypeOK, SessionStart
  <2>2. <<Msg("system", opened + 1, NoSend)>> \in Seq(Message)
    <3>1. Msg("system", opened + 1, NoSend) \in Message
      BY <2>1, MsgType DEF Roles
    <3> QED BY <3>1
  <2>3. session' \in Session
    BY <1>3, <2>1, <2>2, Bounds DEF SessionStart, Session
  <2> QED BY <1>3, <2>1, <2>3 DEF TypeOK, SessionStart
<1>4. CASE SessionSeed
  <2>1. PICK n \in 1..MaxSeed :
          session' = [session EXCEPT !.history =
                        @ \o [i \in 1..n |-> Msg("seed", session.id, NoSend)]]
    BY <1>4 DEF SessionSeed
  <2>2. Msg("seed", session.id, NoSend) \in Message
    BY MsgType DEF TypeOK, Session, Roles
  <2>3. [i \in 1..n |-> Msg("seed", session.id, NoSend)] \in Seq(Message)
    BY <2>2, BoundsAssumption
  <2>4. session.history \o [i \in 1..n |-> Msg("seed", session.id, NoSend)] \in Seq(Message)
    BY <2>3, ConcatProperties DEF TypeOK, Session
  <2>5. session' \in Session
    BY <2>1, <2>4 DEF TypeOK, Session
  <2> QED BY <1>4, <2>5 DEF TypeOK, SessionSeed, lifecycle
<1>5. CASE SessionClear
  <2>1. Msg("system", session.id, NoSend) \in Message
    BY MsgType DEF TypeOK, Session, Roles
  <2>2. <<Msg("system", session.id, NoSend)>> \in Seq(Message)
    BY <2>1
  <2>3. session' \in Session
    BY <1>5, <2>2 DEF SessionClear, TypeOK, Session
  <2> QED BY <1>5, <2>3 DEF TypeOK, SessionClear, lifecycle
<1>6. CASE DestroyTake
  <2>1. NoSession \in Session
    BY Bounds, EmptySeq DEF NoSession, Session
  <2> QED BY <1>6, <2>1 DEF TypeOK, DestroyTake
<1>7. CASE UNCHANGED vars
  BY <1>7 DEF TypeOK, vars
<1> QED BY <1>1, <1>2, <1>3, <1>4, <1>5, <1>6, <1>7 DEF Next

-----------------------------------------------------------------------------
(* What is known at each point, and whose token is in the slot.            *)

\* The functions that are not sends leave the sends where they are.
LEMMA OthersLeaveSends ==
  SessionCancel \/ SessionStart \/ SessionSeed \/ SessionClear \/ DestroyCancel
    \/ DestroyTake \/ UNCHANGED vars
  => UNCHANGED <<pc, work, outcome, cancel_token>>
BY DEF SessionCancel, SessionStart, SessionSeed, SessionClear, DestroyCancel, DestroyTake, vars

\* A token in the slot was put there by a send past InstallToken.
TokenInv ==
  /\ cancel_token # NoSend => pc[cancel_token] \notin {"idle", "entered"}
  /\ TokenHasOwner

\* PointInv is kept by every step.
LEMMA PointStep == TypeOK /\ PointInv /\ [Next]_vars => PointInv'
<1> SUFFICES ASSUME TypeOK, PointInv, [Next]_vars PROVE PointInv'
  OBVIOUS
<1>1. ASSUME NEW s \in Sends, Arrive(s) \/ SendStep(s) PROVE PointInv'
  <2> USE DEF TypeOK, PointInv, Goto, Return, Guarded, LoopPoints
  <2>1. CASE \/ SendEnter(s) \/ SendRejected(s) \/ InstallToken(s) \/ SendWithoutSession(s)
             \/ TakeState(s)
    BY <1>1, <2>1 DEF Arrive, SendEnter, SendRejected, InstallToken, SendWithoutSession, TakeState
  <2>2. CASE \/ RuntimeUnavailable(s) \/ PanicUnwind(s) \/ PanicAfterTake(s) \/ PutBack(s)
             \/ ClearToken(s)
    BY <2>2 DEF RuntimeUnavailable, PanicUnwind, RestoreByDrop, PanicAfterTake, PutBack,
                ClearToken, WriteBack
  <2>3. CASE \/ RoundsExhausted(s) \/ LoopCancelled(s) \/ ProviderUnavailable(s)
             \/ ProviderFails(s) \/ StreamDone(s)
    BY <2>3 DEF RoundsExhausted, LoopCancelled, ProviderUnavailable, ProviderFails,
                StreamDone, LeaveLoop, Push, CancelPoint
  <2>4. CASE \/ BeginTurn(s) \/ BeginRound(s) \/ ProviderAnswers(s)
             \/ ProviderCallsTools(s)
    BY <2>4 DEF BeginTurn, BeginRound, ProviderAnswers, ProviderCallsTools
  <2>5. CASE StartTool(s) \/ ToolResult(s) \/ ToolsDone(s) \/ CompactHistory(s)
    BY <2>5 DEF StartTool, ToolResult, ToolsDone, CompactHistory
  <2> QED
    BY <1>1, <2>1, <2>2, <2>3, <2>4, <2>5 DEF Arrive, SendStep, LocalStep, AwaitedStep, FaultStep
<1>2. CASE UNCHANGED <<pc, work, outcome, cancel_token>>
  BY <1>2 DEF PointInv
<1> QED BY <1>1, <1>2, OthersLeaveSends DEF Next

\* TokenInv is kept by every step.
LEMMA TokenStep == TypeOK /\ PointInv /\ TokenInv /\ [Next]_vars => TokenInv'
<1> SUFFICES ASSUME TypeOK, PointInv, TokenInv, [Next]_vars PROVE TokenInv'
  OBVIOUS
<1>1. ASSUME NEW s \in Sends, Arrive(s) \/ SendStep(s) PROVE TokenInv'
  <2> USE SendsAssumption DEF TypeOK, TokenInv, TokenHasOwner, Goto, Return
  <2>1. CASE SendEnter(s) \/ SendRejected(s) \/ InstallToken(s) \/ SendWithoutSession(s)
    BY <2>1 DEF SendEnter, SendRejected, InstallToken, SendWithoutSession
  <2>2. CASE TakeState(s) \/ RuntimeUnavailable(s) \/ PanicUnwind(s) \/ PanicAfterTake(s)
    BY <2>2 DEF TakeState, RuntimeUnavailable, PanicUnwind, RestoreByDrop, PanicAfterTake
  <2>3. CASE PutBack(s) \/ ClearToken(s)
    BY <2>3 DEF PutBack, ClearToken
  <2>4. CASE \/ RoundsExhausted(s) \/ LoopCancelled(s) \/ ProviderUnavailable(s)
             \/ ProviderFails(s) \/ StreamDone(s)
    BY <2>4 DEF RoundsExhausted, LoopCancelled, ProviderUnavailable, ProviderFails,
                StreamDone, LeaveLoop
  <2>5. CASE \/ BeginTurn(s) \/ BeginRound(s) \/ ProviderAnswers(s) \/ ProviderCallsTools(s)
             \/ StartTool(s) \/ ToolResult(s) \/ ToolsDone(s) \/ CompactHistory(s)
    BY <2>5 DEF BeginTurn, BeginRound, ProviderAnswers, ProviderCallsTools, StartTool,
                ToolResult, ToolsDone, CompactHistory
  <2> QED
    BY <1>1, <2>1, <2>2, <2>3, <2>4, <2>5 DEF Arrive, SendStep, LocalStep, AwaitedStep, FaultStep
<1>2. CASE UNCHANGED <<pc, work, outcome, cancel_token>>
  BY <1>2 DEF TokenInv, TokenHasOwner
<1> QED BY <1>1, <1>2, OthersLeaveSends DEF Next

-----------------------------------------------------------------------------
(* Whose messages a history may hold.                                      *)

\* The turns that may show in the conversation, now and for good.
Settled(t) == pc[t] \in {"clearing", "done"} /\ outcome[t] \in {"ok", "cancelled", "panicked"}

Public == {m \in Message : m.turn = NoSend \/ Settled(m.turn)}
Private(s) == {m \in Message : m.turn = NoSend \/ m.turn = s \/ Settled(m.turn)}

\* A send holds settled turns and its own; until it has ended well, the part
\* it would roll back to holds settled turns only.
HoldInv(s) ==
  pc[s] \in Holding =>
    /\ work[s].history \in Seq(Private(s))
    /\ outcome[s] # "ok" =>
         /\ work[s].before <= Len(work[s].history)
         /\ Take(work[s].history, work[s].before) \in Seq(Public)
    /\ pc[s] = "taken" => work[s].before = Len(work[s].history)

TurnInv == session.history \in Seq(Public) /\ \A s \in Sends : HoldInv(s)

\* A step of one send changes nothing of the others.
LEMMA SendFrame ==
  ASSUME TypeOK, NEW s \in Sends, Arrive(s) \/ SendStep(s), NEW x \in Sends, x # s
  PROVE  pc'[x] = pc[x] /\ outcome'[x] = outcome[x] /\ work'[x] = work[x]
<1> USE DEF TypeOK, Goto, Return
<1>1. pc'[x] = pc[x] /\ outcome'[x] = outcome[x]
  BY DEF Arrive, SendStep, LocalStep, AwaitedStep, FaultStep, SendEnter, SendRejected,
     InstallToken, SendWithoutSession, TakeState, BeginRound, RoundsExhausted,
     LoopCancelled, StreamDone, StartTool, ToolsDone, PutBack, ClearToken, BeginTurn,
     ProviderUnavailable, ProviderFails, ProviderAnswers, ProviderCallsTools, ToolResult,
     CompactHistory, RuntimeUnavailable, PanicUnwind, PanicAfterTake, RestoreByDrop, LeaveLoop
<1>2. work'[x] = work[x]
  BY DEF Arrive, SendStep, LocalStep, AwaitedStep, FaultStep, SendEnter, SendRejected,
     InstallToken, SendWithoutSession, TakeState, BeginRound, RoundsExhausted,
     LoopCancelled, StreamDone, StartTool, ToolsDone, PutBack, ClearToken, BeginTurn,
     ProviderUnavailable, ProviderFails, ProviderAnswers, ProviderCallsTools, ToolResult,
     CompactHistory, RuntimeUnavailable, PanicUnwind, PanicAfterTake, RestoreByDrop,
     LeaveLoop, Push, WriteBack
<1> QED BY <1>1, <1>2

\* A settled turn stays settled: such a send only clears the token and returns.
LEMMA SettledStable ==
  ASSUME TypeOK, [Next]_vars, NEW t \in Sends, Settled(t)
  PROVE  Settled(t)'
<1>1. ASSUME NEW s \in Sends, Arrive(s) \/ SendStep(s), s # t PROVE Settled(t)'
  BY <1>1, SendFrame DEF Settled
<1>2. CASE Arrive(t) \/ SendStep(t)
  <2>1. ClearToken(t)
    BY <1>2 DEF Settled, Arrive, SendStep, LocalStep, AwaitedStep, FaultStep, SendEnter,
       SendRejected, InstallToken, SendWithoutSession, TakeState, BeginRound, RoundsExhausted,
       LoopCancelled, CancelPoint, StreamDone, StartTool, ToolsDone, PutBack, BeginTurn,
       ProviderUnavailable, ProviderFails, ProviderAnswers, ProviderCallsTools, ToolResult,
       CompactHistory, RuntimeUnavailable, PanicUnwind, PanicAfterTake, Guarded, LoopPoints
  <2> QED BY <2>1 DEF TypeOK, Settled, ClearToken, Goto
<1>3. CASE UNCHANGED <<pc, work, outcome, cancel_token>>
  BY <1>3 DEF Settled
<1> QED BY <1>1, <1>2, <1>3, OthersLeaveSends DEF Next

\* So what is public stays public, and a send may keep what it holds.
LEMMA PublicGrows ==
  ASSUME TypeOK, [Next]_vars
  PROVE  /\ Public \subseteq Public'
         /\ \A s \in Sends : Private(s) \subseteq Private(s)'
         /\ \A h : h \in Seq(Public) => h \in Seq(Public)'
         /\ \A s \in Sends : \A h : h \in Seq(Private(s)) => h \in Seq(Private(s))'
<1>1. \A m \in Message : m.turn = NoSend \/ m.turn \in Sends
  BY DEF Message
<1>2. \A m \in Message : m.turn # NoSend /\ Settled(m.turn) => Settled(m.turn)'
  BY <1>1, SettledStable
<1>3. Public \subseteq Public'
  BY <1>2 DEF Public
<1>4. \A s \in Sends : Private(s) \subseteq Private(s)'
  BY <1>2 DEF Private
<1> QED BY <1>3, <1>4, SeqMonotonic

\* A turn begins with the message of its user, whether or not a provider is there.
LEMMA UserAppended ==
  ASSUME TypeOK, NEW s \in Sends, BeginTurn(s) \/ ProviderUnavailable(s)
  PROVE  /\ work'[s].history = Append(work[s].history, Msg("user", work[s].ses, s))
         /\ work'[s].before = work[s].before /\ work'[s].ses = work[s].ses
         /\ work'[s].tools = work[s].tools
<1> DEFINE h == Append(work[s].history, TurnMsg(s, "user"))
<1>1. work[s] \in Work /\ s \in DOMAIN work
  BY DEF TypeOK
<1>2. h = Append(work[s].history, Msg("user", work[s].ses, s))
  BY DEF TurnMsg
<1>3. CASE BeginTurn(s)
  <2>1. PICK native \in BOOLEAN :
          work' = [work EXCEPT ![s].history = h, ![s].native = native]
    BY <1>3 DEF BeginTurn
  <2> HIDE DEF h
  <2>2. work'[s] = [work[s] EXCEPT !.history = h, !.native = native]
    BY <1>1, <2>1
  <2> QED BY <1>1, <1>2, <2>2 DEF Work
<1>4. CASE ProviderUnavailable(s)
  <2>1. work' = [work EXCEPT ![s].history = h]
    BY <1>4 DEF ProviderUnavailable, Push
  <2> HIDE DEF h
  <2>2. work'[s] = [work[s] EXCEPT !.history = h]
    BY <1>1, <2>1
  <2> QED BY <1>1, <1>2, <2>2 DEF Work
<1> QED BY <1>3, <1>4

\* A send that appends to its history a message of its own turn still holds
\* settled turns and its own.
LEMMA AppendOwn ==
  ASSUME TypeOK, [Next]_vars, NEW s \in Sends, HoldInv(s), pc[s] \in Holding,
         NEW m \in Message, m.turn = s,
         work'[s].history = Append(work[s].history, m),
         work'[s].before = work[s].before,
         outcome[s] # "ok",
         pc'[s] # "taken"
  PROVE  HoldInv(s)'
<1> DEFINE h == work[s].history
           b == work[s].before
<1>1. h \in Seq(Private(s)') /\ h \in Seq(Message) /\ b \in Nat
  BY PublicGrows DEF HoldInv, TypeOK, Work
<1>2. m \in Private(s)'
  BY DEF Private
<1>3. Append(h, m) \in Seq(Private(s)') /\ Len(Append(h, m)) = Len(h) + 1
  BY <1>1, <1>2
<1>4. b <= Len(h) /\ Take(h, b) \in Seq(Public)'
  BY PublicGrows DEF HoldInv
<1>5. Take(Append(h, m), b) = Take(h, b)
  BY <1>1, <1>4, TakeAppend
<1>6. b <= Len(Append(h, m))
  BY <1>1, <1>3, <1>4, LenProperties
<1> QED BY <1>3, <1>4, <1>5, <1>6 DEF HoldInv

\* A send that keeps its history keeps what is known of it.
LEMMA KeepOwn ==
  ASSUME TypeOK, [Next]_vars, NEW s \in Sends, HoldInv(s), pc[s] \in Holding,
         work'[s].history = work[s].history,
         work'[s].before = work[s].before,
         outcome'[s] # "ok" => outcome[s] # "ok",
         pc'[s] # "taken"
  PROVE  HoldInv(s)'
BY PublicGrows DEF HoldInv

\* TurnInv is kept by every step of a send.
LEMMA TurnSendStep ==
  ASSUME TypeOK, PointInv, TurnInv, NEW s \in Sends, Arrive(s) \/ SendStep(s)
  PROVE  TurnInv'
<1> DEFINE w == work[s]
<1>0. [Next]_vars
  BY DEF Next
<1>1. \A x \in Sends : x # s => HoldInv(x)'
  BY <1>0, SendFrame, PublicGrows DEF TurnInv, HoldInv
<1>2. /\ session.history \in Seq(Public)' /\ HoldInv(s)
      /\ w \in Work /\ w.history \in Seq(Message) /\ w.before \in Nat
  BY <1>0, PublicGrows DEF TurnInv, TypeOK, Work
<1>3. session'.history = session.history => session'.history \in Seq(Public)'
  BY <1>2
<1> SUFFICES session'.history \in Seq(Public)' /\ HoldInv(s)'
  BY <1>1 DEF TurnInv
<1> USE DEF TypeOK, Goto, Return
<1>4. CASE \/ Arrive(s) \/ InstallToken(s) \/ SendWithoutSession(s) \/ PanicAfterTake(s)
           \/ ClearToken(s)
  <2>1. pc'[s] \notin Holding /\ session' = session
    BY <1>4 DEF Arrive, SendEnter, SendRejected, InstallToken, SendWithoutSession,
       PanicAfterTake, ClearToken, Holding, Guarded, LoopPoints
  <2> QED BY <1>3, <2>1 DEF HoldInv
<1>5. CASE TakeState(s)
  <2>1. /\ session'.history = <<>>
        /\ work'[s].history = session.history
        /\ work'[s].before = Len(session.history)
    BY <1>5 DEF TakeState, Session, NoWork
  <2>2. session'.history \in Seq(Public)'
    BY <2>1, EmptySeq
  <2>3. session.history \in Seq(Private(s))'
    <3>1. Public' \subseteq Private(s)'
      BY DEF Public, Private
    <3> QED BY <1>2, <3>1, SeqMonotonic
  <2>4. Take(session.history, Len(session.history)) \in Seq(Public)'
    BY <1>2, TakeType, LenProperties
  <2>5. Len(session.history) \in Nat
    BY LenProperties DEF Session
  <2> QED BY <2>1, <2>2, <2>3, <2>4, <2>5 DEF HoldInv
<1>6. ASSUME NEW h, WriteBack(s, h), h \in Seq(Public)' PROVE session'.history \in Seq(Public)'
  BY <1>2, <1>6 DEF WriteBack, Session
<1>7. CASE RuntimeUnavailable(s)
  <2>1. w.history \in Seq(Public)'
    <3>1. Take(w.history, w.before) = w.history
      BY <1>2, <1>7, SubSeqFull
         DEF RuntimeUnavailable, HoldInv, Holding, Guarded, Take
    <3> QED BY <1>0, <1>2, <1>7, <3>1, PublicGrows
            DEF RuntimeUnavailable, HoldInv, Holding, Guarded, PointInv
  <2>2. pc'[s] = "done" /\ WriteBack(s, w.history)
    BY <1>7 DEF RuntimeUnavailable, RestoreByDrop
  <2> QED BY <1>6, <2>1, <2>2 DEF HoldInv, Holding, Guarded, LoopPoints
<1>8. CASE PanicUnwind(s)
  <2>1. pc'[s] = "done" /\ outcome'[s] = "panicked" /\ WriteBack(s, w.history)
    BY <1>8 DEF PanicUnwind, RestoreByDrop
  <2>2. Settled(s)'
    BY <2>1 DEF Settled
  <2>3. Private(s)' \subseteq Public'
    BY <2>2 DEF Private, Public
  <2>4. w.history \in Seq(Public)'
    BY <1>0, <1>2, <1>8, <2>3, PublicGrows, SeqMonotonic
       DEF PanicUnwind, HoldInv, Holding
  <2> QED BY <1>6, <2>1, <2>4 DEF HoldInv, Holding, Guarded, LoopPoints
<1>9. CASE BeginTurn(s) \/ ProviderUnavailable(s)
  <2>1. /\ pc[s] \in Holding /\ pc'[s] # "taken" /\ outcome[s] # "ok"
        /\ session' = session
    BY <1>9 DEF BeginTurn, ProviderUnavailable, LeaveLoop, Holding, Guarded, PointInv
  <2>2. /\ work'[s].history = Append(w.history, Msg("user", w.ses, s))
        /\ work'[s].before = w.before
    BY <1>9, UserAppended
  <2>3. Msg("user", w.ses, s) \in Message /\ Msg("user", w.ses, s).turn = s
    <3>1. w.ses \in 0..MaxSessions
      BY <1>2 DEF Work
    <3> QED BY <3>1, MsgType DEF Roles, Msg
  <2> QED BY <1>0, <1>2, <1>3, <2>1, <2>2, <2>3, AppendOwn
<1>10. CASE ProviderCallsTools(s)
  <2>1. /\ pc[s] \in Holding /\ pc'[s] # "taken" /\ outcome[s] # "ok"
        /\ session' = session
    BY <1>10 DEF ProviderCallsTools, Holding, Guarded, LoopPoints, PointInv
  <2>2. PICK n \in 1..MaxCalls :
          /\ work'[s].history = Append(w.history, [Msg("calls", w.ses, s) EXCEPT !.n = n])
          /\ work'[s].before = w.before
    <3>1. PICK n \in 1..MaxCalls :
            work' = [work EXCEPT ![s] =
                       [w EXCEPT !.history = Append(@, [Msg("calls", w.ses, s) EXCEPT !.n = n]),
                                 !.todo = n]]
      BY <1>10 DEF ProviderCallsTools, TurnMsg
    <3>2. work'[s] = [w EXCEPT !.history = Append(@, [Msg("calls", w.ses, s) EXCEPT !.n = n]),
                               !.todo = n]
      BY <3>1
    <3> QED BY <1>2, <3>2 DEF Work
  <2>3. /\ [Msg("calls", w.ses, s) EXCEPT !.n = n] \in Message
        /\ [Msg("calls", w.ses, s) EXCEPT !.n = n].turn = s
    <3>1. w.ses \in 0..MaxSessions /\ n \in 0..MaxCalls
      BY <1>2, Bounds DEF Work
    <3> QED BY <3>1, MsgType DEF Roles, Msg
  <2> QED BY <1>0, <1>2, <1>3, <2>1, <2>2, <2>3, AppendOwn
<1>11. CASE ToolResult(s) \/ ToolsDone(s)
  <2>1. /\ pc[s] \in Holding /\ pc'[s] # "taken" /\ outcome[s] # "ok" /\ outcome' = outcome
        /\ session' = session
    BY <1>11 DEF ToolResult, ToolsDone, Holding, Guarded, LoopPoints, PointInv
  <2>2. /\ \/ work'[s].history = Append(w.history, Msg("tool", w.ses, s))
           \/ work'[s].history = Append(w.history, Msg("results", w.ses, s))
           \/ work'[s].history = w.history
        /\ work'[s].before = w.before
    <3>1. CASE ToolResult(s)
      <4>1. work'[s] = [w EXCEPT !.todo = @ - 1,
                                 !.history = IF w.native
                                             THEN Append(@, Msg("tool", w.ses, s)) ELSE @]
        BY <3>1 DEF ToolResult, TurnMsg
      <4> QED BY <1>2, <4>1 DEF Work
    <3>2. CASE ToolsDone(s)
      BY <1>2, <3>2 DEF ToolsDone, TurnMsg, Work
    <3> QED BY <1>11, <3>1, <3>2
  <2>3. \A role \in {"tool", "results"} :
          Msg(role, w.ses, s) \in Message /\ Msg(role, w.ses, s).turn = s
    <3>1. w.ses \in 0..MaxSessions
      BY <1>2 DEF Work
    <3> QED BY <3>1, MsgType DEF Roles, Msg
  <2> QED BY <1>0, <1>2, <1>3, <2>1, <2>2, <2>3, AppendOwn, KeepOwn
<1>12. CASE StreamDone(s)
  <2>1. /\ pc[s] \in Holding /\ pc'[s] # "taken" /\ outcome[s] # "ok"
        /\ session' = session
    BY <1>12 DEF StreamDone, LeaveLoop, Holding, Guarded, LoopPoints, PointInv
  <2>2. /\ work'[s].history = Append(w.history, Msg("final", w.ses, s))
        /\ work'[s].before = w.before
    BY <1>2, <1>12 DEF StreamDone, Push, TurnMsg, Work
  <2>3. Msg("final", w.ses, s) \in Message /\ Msg("final", w.ses, s).turn = s
    <3>1. w.ses \in 0..MaxSessions
      BY <1>2 DEF Work
    <3> QED BY <3>1, MsgType DEF Roles, Msg
  <2> QED BY <1>0, <1>2, <1>3, <2>1, <2>2, <2>3, AppendOwn
<1>13. CASE \/ BeginRound(s) \/ RoundsExhausted(s) \/ LoopCancelled(s) \/ ProviderFails(s)
            \/ ProviderAnswers(s) \/ StartTool(s)
  <2>1. /\ pc[s] \in Holding /\ pc'[s] # "taken" /\ outcome[s] # "ok"
        /\ session' = session
    BY <1>13 DEF BeginRound, RoundsExhausted, LoopCancelled, ProviderFails, ProviderAnswers,
       StartTool, CancelPoint, LeaveLoop, Holding, Guarded, LoopPoints, PointInv
  <2>2. work'[s].history = w.history /\ work'[s].before = w.before
    BY <1>2, <1>13 DEF BeginRound, RoundsExhausted, LoopCancelled, ProviderFails,
       ProviderAnswers, StartTool, LeaveLoop, Work
  <2> QED BY <1>0, <1>2, <1>3, <2>1, <2>2, KeepOwn
<1>14. CASE CompactHistory(s)
  <2>1. pc[s] = "compacting" /\ pc'[s] = "ending" /\ outcome'[s] = "ok" /\ session' = session
    BY <1>14 DEF CompactHistory, PointInv
  <2>2. work'[s].history = w.history \/ work'[s].history = Compact(w.history, w.ses)
    BY <1>2, <1>14 DEF CompactHistory, Work
  <2>3. w.history \in Seq(Private(s))'
    BY <1>0, <1>2, <2>1, PublicGrows DEF HoldInv, Holding
  <2>4. Msg("summary", w.ses, NoSend) \in Private(s)'
    <3>1. w.ses \in 0..MaxSessions
      BY <1>2 DEF Work
    <3> QED BY <3>1, MsgType DEF Roles, Private, Msg
  <2>5. Compact(w.history, w.ses) \in Seq(Private(s))'
    BY <2>3, <2>4, CompactType
  <2> QED BY <1>3, <2>1, <2>2, <2>3, <2>5 DEF HoldInv
<1>15. CASE PutBack(s)
  <2> DEFINE back == IF outcome[s] = "error" THEN Take(w.history, w.before) ELSE w.history
  <2>1. pc[s] = "ending" /\ pc'[s] = "clearing" /\ outcome' = outcome /\ WriteBack(s, back)
    BY <1>15 DEF PutBack
  <2>2. back \in Seq(Public)'
    <3>1. CASE outcome[s] = "error"
      BY <1>0, <1>2, <2>1, <3>1, PublicGrows DEF HoldInv, Holding
    <3>2. CASE outcome[s] # "error"
      <4>1. Settled(s)'
        BY <2>1, <3>2 DEF Settled, PointInv
      <4>2. Private(s)' \subseteq Public'
        BY <4>1 DEF Private, Public
      <4> QED BY <1>0, <1>2, <2>1, <3>2, <4>2, PublicGrows, SeqMonotonic DEF HoldInv, Holding
    <3> QED BY <3>1, <3>2
  <2> QED BY <1>6, <2>1, <2>2 DEF HoldInv, Holding, Guarded, LoopPoints
<1> QED
  BY <1>4, <1>5, <1>7, <1>8, <1>9, <1>10, <1>11, <1>12, <1>13, <1>14, <1>15
     DEF SendStep, LocalStep, AwaitedStep, FaultStep

\* TurnInv is kept by every step: the functions that are not sends add prompts
\* and seeds, which belong to no turn, or drop the conversation.
LEMMA TurnStep == TypeOK /\ PointInv /\ TurnInv /\ [Next]_vars => TurnInv'
<1> SUFFICES ASSUME TypeOK, PointInv, TurnInv, [Next]_vars PROVE TurnInv'
  OBVIOUS
<1>1. ASSUME NEW s \in Sends, Arrive(s) \/ SendStep(s) PROVE TurnInv'
  BY <1>1, TurnSendStep
<1>2. ASSUME UNCHANGED <<pc, work, outcome>>, session'.history \in Seq(Public)
      PROVE  TurnInv'
  <2>1. session'.history \in Seq(Public)'
    BY <1>2, PublicGrows
  <2>2. \A s \in Sends : HoldInv(s)'
    BY <1>2, PublicGrows DEF TurnInv, HoldInv
  <2> QED BY <2>1, <2>2 DEF TurnInv
<1>3. \A role \in Roles, ses \in 0..MaxSessions : Msg(role, ses, NoSend) \in Public
  BY MsgType DEF Public, Msg
<1>4. CASE SessionCancel \/ DestroyCancel \/ UNCHANGED vars
  BY <1>2, <1>4 DEF SessionCancel, DestroyCancel, vars, TurnInv
<1>5. CASE SessionStart
  <2>1. session'.history = <<Msg("system", opened + 1, NoSend)>>
    BY <1>5 DEF SessionStart
  <2>2. opened + 1 \in 0..MaxSessions
    BY <1>5, Bounds DEF SessionStart, TypeOK
  <2>3. Msg("system", opened + 1, NoSend) \in Public
    BY <1>3, <2>2 DEF Roles
  <2> QED BY <1>2, <1>5, <2>1, <2>3 DEF SessionStart
<1>6. CASE SessionSeed
  <2>1. PICK n \in 1..MaxSeed :
          session' = [session EXCEPT !.history =
                        @ \o [i \in 1..n |-> Msg("seed", session.id, NoSend)]]
    BY <1>6 DEF SessionSeed
  <2>2. Msg("seed", session.id, NoSend) \in Public
    BY <1>3 DEF TypeOK, Session, Roles
  <2>3. [i \in 1..n |-> Msg("seed", session.id, NoSend)] \in Seq(Public)
    BY <2>2, BoundsAssumption
  <2>4. session.history \o [i \in 1..n |-> Msg("seed", session.id, NoSend)] \in Seq(Public)
    BY <2>3, ConcatProperties DEF TurnInv
  <2>5. session'.history \in Seq(Public)
    BY <2>1, <2>4 DEF TypeOK, Session
  <2> QED BY <1>2, <1>6, <2>5 DEF SessionSeed
<1>7. CASE SessionClear
  <2>1. session'.history = <<Msg("system", session.id, NoSend)>>
    BY <1>7 DEF SessionClear, TypeOK, Session
  <2>2. Msg("system", session.id, NoSend) \in Public
    BY <1>3 DEF TypeOK, Session, Roles
  <2> QED BY <1>2, <1>7, <2>1, <2>2 DEF SessionClear
<1>8. CASE DestroyTake
  <2>1. session'.history \in Seq(Public)
    BY <1>8, EmptySeq DEF DestroyTake, NoSession
  <2> QED BY <1>2, <1>8, <2>1 DEF DestroyTake
<1> QED BY <1>1, <1>4, <1>5, <1>6, <1>7, <1>8 DEF Next

-----------------------------------------------------------------------------
(* The inductive invariant and what follows from it.                       *)

IInv == TypeOK /\ PointInv /\ TokenInv /\ TurnInv

\* No conversation is open and no send is in flight: the first state, and what the death
\* of the process leaves (EmergencyStop).
Idle ==
  /\ session = NoSession /\ cancel_token = NoSend /\ cancelled = {}
  /\ opened \in 0..MaxSessions /\ destroying = FALSE
  /\ pc \in [Sends -> {"idle", "done"}]
  /\ work = [s \in Sends |-> NoWork]
  /\ outcome \in [Sends -> Outcomes]
  /\ \A s \in Sends : pc[s] = "idle" => outcome[s] = "none"

\* The first state is idle.
LEMMA InitIdle == Init => Idle
BY Bounds DEF Init, Idle, Outcomes

\* An idle state satisfies IInv.
LEMMA IdleInv == Idle => IInv
<1> SUFFICES ASSUME Idle PROVE IInv
  OBVIOUS
<1>1. TypeOK
  <2>1. session \in Session
    BY Bounds, EmptySeq DEF Idle, NoSession, Session
  <2>2. work \in [Sends -> Work]
    BY NoWorkType DEF Idle
  <2>3. pc \in [Sends -> PCs]
    BY DEF Idle, PCs
  <2> QED BY <2>1, <2>2, <2>3 DEF Idle, TypeOK
<1>2. PointInv /\ TokenInv
  BY DEF Idle, PointInv, TokenInv, TokenHasOwner, Guarded, LoopPoints
<1>3. TurnInv
  BY EmptySeq DEF Idle, TurnInv, HoldInv, NoSession, Holding, Guarded, LoopPoints
<1> QED BY <1>1, <1>2, <1>3 DEF IInv

\* Every step keeps IInv.
LEMMA IInvStep == IInv /\ [Next]_vars => IInv'
BY TypeStep, PointStep, TokenStep, TurnStep DEF IInv

\* IInv holds in every state the exported functions can reach together.
THEOREM Invariance == Spec => []IInv
BY InitIdle, IdleInv, IInvStep, PTL DEF Spec

\* The conversation, the slots and every send keep their types.
THEOREM TypeCorrect == Spec => []TypeOK
<1>1. IInv => TypeOK
  BY DEF IInv
<1> QED BY <1>1, Invariance, PTL

\* A token that outlives its send was left by a send that found no session or
\* that panicked after the guard was disarmed.
THEOREM TokenOwners == Spec => []TokenHasOwner
<1>1. IInv => TokenHasOwner
  BY DEF IInv, TokenInv
<1> QED BY <1>1, Invariance, PTL

\* What IInv says of the messages in the conversation.
LEMMA RollbackInv == IInv => OnlyCommittedTurns
<1> SUFFICES ASSUME IInv, NEW i \in TurnMessages(Committed)
             PROVE  outcome[Committed[i].turn] \in {"ok", "cancelled", "panicked"}
  BY DEF OnlyCommittedTurns
<1>1. session.history \in Seq(Public) /\ i \in DOMAIN session.history
  BY DEF IInv, TurnInv, TurnMessages, Committed
<1>2. session.history[i] \in Public
  BY <1>1, ElementOfSeq, LenProperties
<1> QED BY <1>2 DEF Public, Settled, TurnMessages, Committed

\* However sends, seeds, clears, destroys and starts interleave, a send that
\* failed, was refused or is still running shows nothing in the conversation.
THEOREM RollbackIsComplete == Spec => []OnlyCommittedTurns
BY RollbackInv, Invariance, PTL

-----------------------------------------------------------------------------
(* With serial callers (SerialSpec) a session keeps its own messages.      *)

OwnMessage(id) == {m \in Message : m.ses = id}

\* A history of session id that begins with its system prompt.
Own(h, id) == h \in Seq(OwnMessage(id)) /\ h # <<>> /\ h[1].role = "system"

\* A message of the session may be appended.
LEMMA OwnAppend ==
  ASSUME NEW id, NEW h, Own(h, id), NEW m \in OwnMessage(id)
  PROVE  Own(Append(h, m), id)
<1>1. Len(h) \in Nat \ {0} /\ h \in Seq(OwnMessage(id))
  BY EmptySeq, LenProperties DEF Own
<1>2. Append(h, m) \in Seq(OwnMessage(id)) /\ Append(h, m) # <<>>
  BY <1>1, AppendProperties
<1>3. Append(h, m)[1] = h[1]
  BY <1>1, AppendProperties
<1> QED BY <1>2, <1>3 DEF Own

\* So may a sequence of them.
LEMMA OwnConcat ==
  ASSUME NEW id, NEW h, Own(h, id), NEW g \in Seq(OwnMessage(id))
  PROVE  Own(h \o g, id)
<1>1. Len(h) \in Nat \ {0} /\ h \in Seq(OwnMessage(id)) /\ Len(g) \in Nat
  BY EmptySeq, LenProperties DEF Own
<1>2. h \o g \in Seq(OwnMessage(id)) /\ Len(h \o g) = Len(h) + Len(g) /\ (h \o g)[1] = h[1]
  BY <1>1, ConcatProperties
<1>3. h \o g # <<>>
  BY <1>1, <1>2, EmptySeq
<1> QED BY <1>2, <1>3 DEF Own

\* A rollback that keeps anything keeps the first message.
LEMMA TakeFirst ==
  ASSUME NEW S, NEW h \in Seq(S), h # <<>>, NEW len \in Nat, len > 0
  PROVE  Take(h, len) # <<>> /\ Take(h, len)[1] = h[1]
<1>1. Len(h) \in Nat \ {0}
  BY EmptySeq, LenProperties
<1>2. ASSUME NEW k \in Nat \ {0}, k <= Len(h)
      PROVE  Len(SubSeq(h, 1, k)) = k /\ SubSeq(h, 1, k)[1] = h[1]
  <2>1. \A i \in 1..k : h[i] \in S
    BY <1>1, <1>2, ElementOfSeq
  <2>2. /\ Len(SubSeq(h, 1, k)) = IF 1 <= k THEN k - 1 + 1 ELSE 0
        /\ \A i \in 1..k-1+1 : SubSeq(h, 1, k)[i] = h[1+i-1]
    BY <2>1, SubSeqProperties
  <2> QED BY <2>2
<1>3. Len(Take(h, len)) > 0 /\ Take(h, len)[1] = h[1]
  BY <1>1, <1>2 DEF Take
<1> QED BY <1>3, EmptySeq

\* So it keeps the prompt.
LEMMA OwnTake ==
  ASSUME NEW id, NEW h, Own(h, id), NEW len \in Nat, len > 0
  PROVE  Own(Take(h, len), id)
<1>1. h \in Seq(OwnMessage(id)) /\ h # <<>> /\ h[1].role = "system"
  BY DEF Own
<1>2. Take(h, len) \in Seq(OwnMessage(id))
  BY <1>1, TakeType
<1>3. Take(h, len) # <<>> /\ Take(h, len)[1] = h[1]
  BY <1>1, TakeFirst
<1> QED BY <1>1, <1>2, <1>3 DEF Own

\* Compaction keeps the prompt in front and adds a summary of the same session.
LEMMA OwnCompact ==
  ASSUME NEW id \in 0..MaxSessions, NEW h, Own(h, id)
  PROVE  Own(Compact(h, id), id)
<1>1. Len(h) \in Nat \ {0} /\ h \in Seq(OwnMessage(id)) /\ h # <<>> /\ h[1].role = "system"
  BY EmptySeq, LenProperties DEF Own
<1>2. Msg("summary", id, NoSend) \in OwnMessage(id)
  BY MsgType DEF Roles, OwnMessage, Msg
<1>3. Compact(h, id) \in Seq(OwnMessage(id))
  BY <1>1, <1>2, CompactType
<1> DEFINE kept == IF KeepRecent < Len(h) - 1 THEN KeepRecent ELSE Len(h) - 1
           front == SubSeq(h, 1, 1)
           tail == SubSeq(h, Len(h) - kept + 1, Len(h))
<1>4. Compact(h, id) = h \/ Compact(h, id) = front \o <<Msg("summary", id, NoSend)>> \o tail
  BY <1>1 DEF Compact
<1>5. Own(front, id)
  <2>1. front = Take(h, 1)
    BY <1>1 DEF Take
  <2>2. 1 \in Nat /\ 1 > 0
    OBVIOUS
  <2>3. Own(Take(h, 1), id)
    BY <2>2, OwnTake
  <2> QED BY ONLY <2>1, <2>3
<1>6. tail \in Seq(OwnMessage(id))
  <2>1. kept \in Nat /\ kept <= Len(h)
    BY <1>1, BoundsAssumption
  <2>2. \A i \in (Len(h) - kept + 1)..Len(h) : h[i] \in OwnMessage(id)
    BY <1>1, <2>1, ElementOfSeq
  <2> QED BY <1>1, <2>1, <2>2, SubSeqProperties
<1>7. Own(front \o <<Msg("summary", id, NoSend)>>, id)
  <2>1. <<Msg("summary", id, NoSend)>> \in Seq(OwnMessage(id))
    BY <1>2
  <2> QED BY <1>5, <2>1, OwnConcat
<1>8. Own(front \o <<Msg("summary", id, NoSend)>> \o tail, id)
  BY <1>6, <1>7, OwnConcat
<1> QED BY <1>4, <1>8

\* One send at a time, and none while a session is destroyed.
SerialInv ==
  /\ \A s, t \in Sends : InFlight(s) /\ InFlight(t) => s = t
  /\ destroying => \A s \in Sends : ~InFlight(s)
  /\ \A s \in Sends : outcome[s] = "lost" => pc[s] = "done"

\* What a send holds belongs to the session it will be put back into.
OwnInv ==
  NothingLost =>
    /\ \A s \in Sends : pc[s] \in Holding =>
         /\ Active /\ work[s].ses = session.id
         /\ Own(work[s].history, session.id)
         /\ work[s].before > 0
    /\ Active /\ (\A s \in Sends : pc[s] \notin Holding) => Own(session.history, session.id)

\* A step of a send begins in flight; a send that had its history lost has returned.
LEMMA SendInFlight ==
  ASSUME TypeOK, PointInv, NEW s \in Sends, SendStep(s)
  PROVE  /\ InFlight(s)
         /\ outcome'[s] = "lost" => pc'[s] = "done" \/ outcome[s] = "lost"
         /\ destroying' = destroying
<1> USE DEF TypeOK, PointInv, InFlight, Goto, Return, LeaveLoop, RestoreByDrop, Guarded,
            LoopPoints, lifecycle
<1>1. CASE LocalStep(s)
  <2>1. CASE InstallToken(s) \/ SendWithoutSession(s) \/ TakeState(s)
    BY <2>1 DEF InstallToken, SendWithoutSession, TakeState
  <2>2. CASE BeginRound(s) \/ RoundsExhausted(s) \/ StartTool(s)
    BY <2>2 DEF BeginRound, RoundsExhausted, StartTool
  <2>3. CASE LoopCancelled(s)
    BY <2>3 DEF LoopCancelled, CancelPoint
  <2>4. CASE StreamDone(s) \/ ToolsDone(s)
    BY <2>4 DEF StreamDone, ToolsDone
  <2>5. CASE PutBack(s) \/ ClearToken(s)
    BY <2>5 DEF PutBack, ClearToken
  <2> QED BY <1>1, <2>1, <2>2, <2>3, <2>4, <2>5 DEF LocalStep
<1>2. CASE AwaitedStep(s)
  BY <1>2 DEF AwaitedStep, BeginTurn, ProviderUnavailable, ProviderFails, ProviderAnswers,
              ProviderCallsTools, ToolResult, CompactHistory
<1>3. CASE FaultStep(s)
  BY <1>3 DEF FaultStep, RuntimeUnavailable, PanicUnwind, PanicAfterTake
<1> QED BY <1>1, <1>2, <1>3 DEF SendStep

\* A message of the turn of s.
OfTurn(s) == {m \in OwnMessage(work[s].ses) : m.turn = s}

\* The steps of the loop leave the session, the tools and the rollback point alone, and
\* append at most one message of the turn: first the user's, at last the answer.
LEMMA LoopMoves ==
  ASSUME TypeOK, NEW s \in Sends,
         \/ BeginTurn(s) \/ ProviderUnavailable(s) \/ ProviderCallsTools(s)
         \/ ToolResult(s) \/ ToolsDone(s) \/ StreamDone(s)
         \/ BeginRound(s) \/ RoundsExhausted(s) \/ LoopCancelled(s) \/ ProviderFails(s)
         \/ ProviderAnswers(s) \/ StartTool(s)
  PROVE  /\ session' = session /\ pc[s] \in Holding
         /\ work'[s].ses = work[s].ses /\ work'[s].before = work[s].before
         /\ work'[s].tools = work[s].tools
         /\ \/ work'[s].history = work[s].history
            \/ \E m \in OfTurn(s) : work'[s].history = Append(work[s].history, m)
         /\ BeginTurn(s) => \E m \in OfTurn(s) :
              m.role = "user" /\ work'[s].history = Append(work[s].history, m)
         /\ StreamDone(s) => \E m \in OfTurn(s) :
              m.role = "final" /\ work'[s].history = Append(work[s].history, m)
<1> DEFINE w == work[s]
<1> USE DEF TypeOK, Goto, Return, Holding, Guarded, LoopPoints
<1>0. /\ pc[s] # "taken" => ~BeginTurn(s)
      /\ pc[s] # "streaming" => ~StreamDone(s)
  BY DEF BeginTurn, StreamDone
<1>1. w \in Work /\ w.ses \in 0..MaxSessions
  BY DEF Work
<1>2. \A role \in Roles : /\ Msg(role, w.ses, s) \in OfTurn(s)
                          /\ Msg(role, w.ses, s).role = role
                          /\ \A n \in 0..MaxCalls :
                               [Msg(role, w.ses, s) EXCEPT !.n = n] \in OfTurn(s)
  BY <1>1, MsgType DEF OfTurn, OwnMessage, Msg
<1>3. CASE BeginTurn(s) \/ ProviderUnavailable(s)
  <2>1. /\ work'[s].history = Append(w.history, Msg("user", w.ses, s))
        /\ work'[s].before = w.before /\ work'[s].ses = w.ses /\ work'[s].tools = w.tools
    BY <1>3, UserAppended
  <2>2. Msg("user", w.ses, s) \in OfTurn(s) /\ Msg("user", w.ses, s).role = "user"
    BY <1>2 DEF Roles
  <2> QED BY <1>0, <1>3, <2>1, <2>2 DEF BeginTurn, ProviderUnavailable, LeaveLoop
<1>4. CASE ProviderCallsTools(s)
  <2>1. PICK n \in 1..MaxCalls :
          work' = [work EXCEPT ![s] =
                     [w EXCEPT !.history = Append(@, [Msg("calls", w.ses, s) EXCEPT !.n = n]),
                               !.todo = n]]
    BY <1>4 DEF ProviderCallsTools, TurnMsg
  <2>2. work'[s] = [w EXCEPT !.history = Append(@, [Msg("calls", w.ses, s) EXCEPT !.n = n]),
                             !.todo = n]
    BY <2>1
  <2>3. /\ work'[s].history = Append(w.history, [Msg("calls", w.ses, s) EXCEPT !.n = n])
        /\ work'[s].before = w.before /\ work'[s].ses = w.ses /\ work'[s].tools = w.tools
    BY <1>1, <2>2 DEF Work
  <2>4. [Msg("calls", w.ses, s) EXCEPT !.n = n] \in OfTurn(s)
    <3>1. n \in 0..MaxCalls
      BY Bounds
    <3> QED BY <1>2, <3>1 DEF Roles
  <2> QED BY <1>0, <1>4, <2>3, <2>4 DEF ProviderCallsTools
<1>5. CASE ToolResult(s)
  <2>1. work'[s] = [w EXCEPT !.todo = @ - 1,
                             !.history = IF w.native
                                         THEN Append(@, Msg("tool", w.ses, s)) ELSE @]
    BY <1>5 DEF ToolResult, TurnMsg
  <2>2. /\ \/ work'[s].history = Append(w.history, Msg("tool", w.ses, s))
           \/ work'[s].history = w.history
        /\ work'[s].before = w.before /\ work'[s].ses = w.ses /\ work'[s].tools = w.tools
    BY <1>1, <2>1 DEF Work
  <2>3. Msg("tool", w.ses, s) \in OfTurn(s)
    BY <1>2 DEF Roles
  <2> QED BY <1>0, <1>5, <2>2, <2>3 DEF ToolResult
<1>6. CASE ToolsDone(s)
  <2>1. /\ \/ work'[s].history = Append(w.history, Msg("results", w.ses, s))
           \/ work'[s].history = w.history
        /\ work'[s].before = w.before /\ work'[s].ses = w.ses /\ work'[s].tools = w.tools
    BY <1>1, <1>6 DEF ToolsDone, TurnMsg, Work
  <2>2. Msg("results", w.ses, s) \in OfTurn(s)
    BY <1>2 DEF Roles
  <2> QED BY <1>0, <1>6, <2>1, <2>2 DEF ToolsDone
<1>7. CASE StreamDone(s)
  <2>1. /\ work'[s].history = Append(w.history, Msg("final", w.ses, s))
        /\ work'[s].before = w.before /\ work'[s].ses = w.ses /\ work'[s].tools = w.tools
    BY <1>1, <1>7 DEF StreamDone, Push, TurnMsg, Work
  <2>2. Msg("final", w.ses, s) \in OfTurn(s) /\ Msg("final", w.ses, s).role = "final"
    BY <1>2 DEF Roles
  <2> QED BY <1>0, <1>7, <2>1, <2>2 DEF StreamDone, LeaveLoop
<1>8. CASE \/ BeginRound(s) \/ RoundsExhausted(s) \/ LoopCancelled(s) \/ ProviderFails(s)
           \/ ProviderAnswers(s) \/ StartTool(s)
  <2>1. session' = session /\ pc[s] \in Holding /\ pc[s] # "taken"
    BY <1>8 DEF BeginRound, RoundsExhausted, LoopCancelled, ProviderFails, ProviderAnswers,
       StartTool, CancelPoint, LeaveLoop
  <2>2. /\ work'[s].history = w.history
        /\ work'[s].before = w.before /\ work'[s].ses = w.ses /\ work'[s].tools = w.tools
    BY <1>1, <1>8 DEF BeginRound, RoundsExhausted, LoopCancelled, ProviderFails,
       ProviderAnswers, StartTool, LeaveLoop, Work
  <2>3. StreamDone(s) => FALSE
    BY <1>8 DEF BeginRound, RoundsExhausted, LoopCancelled, ProviderFails, ProviderAnswers,
       StartTool, StreamDone, LeaveLoop
  <2> QED BY <1>0, <2>1, <2>2, <2>3
<1> QED BY <1>3, <1>4, <1>5, <1>6, <1>7, <1>8

\* A step of the one send in flight keeps what the session and the send hold.
LEMMA OwnSendStep ==
  ASSUME IInv, SerialInv, OwnInv, NEW s \in Sends, SendStep(s)
  PROVE  OwnInv'
<1> DEFINE w == work[s]
<1> USE DEF IInv, TypeOK, Goto, Return
<1>1. /\ InFlight(s)
      /\ \A x \in Sends : x # s => /\ pc[x] \notin Holding /\ pc'[x] \notin Holding
                                   /\ outcome'[x] = outcome[x]
  BY SendInFlight, SendFrame DEF SerialInv, InFlight, Holding, Guarded, LoopPoints
<1>2. outcome[s] # "lost"
  BY <1>1 DEF SerialInv, InFlight
<1> SUFFICES ASSUME NothingLost'
             PROVE  /\ pc'[s] \in Holding =>
                         /\ Active' /\ work'[s].ses = session'.id
                         /\ Own(work'[s].history, session'.id)
                         /\ work'[s].before > 0
                    /\ Active' /\ pc'[s] \notin Holding =>
                         Own(session'.history, session'.id)
  BY <1>1 DEF OwnInv
<1>3. NothingLost
  BY <1>1, <1>2 DEF NothingLost
<1>4. /\ pc[s] \in Holding => /\ Active /\ w.ses = session.id
                              /\ Own(w.history, session.id) /\ w.before > 0
      /\ Active /\ pc[s] \notin Holding => Own(session.history, session.id)
  BY <1>1, <1>3 DEF OwnInv
<1>5. /\ session.id \in 0..MaxSessions /\ w.before \in Nat /\ w \in Work
  BY DEF Session, Work
<1>6. CASE InstallToken(s) \/ SendWithoutSession(s) \/ ClearToken(s)
  <2>1. pc[s] \notin Holding /\ pc'[s] \notin Holding /\ session' = session
    BY <1>6 DEF InstallToken, SendWithoutSession, ClearToken, Holding, Guarded, LoopPoints
  <2> QED BY <1>4, <2>1 DEF Active
<1>7. CASE TakeState(s)
  <2>1. /\ work'[s].history = session.history /\ work'[s].ses = session.id
        /\ work'[s].before = Len(session.history)
        /\ session'.id = session.id /\ Active /\ pc[s] = "token" /\ pc'[s] = "taken"
    BY <1>7 DEF TakeState, Session, NoWork
  <2>2. Own(session.history, session.id)
    BY <1>4, <2>1 DEF Holding, Guarded, LoopPoints
  <2>3. Len(session.history) > 0
    BY <2>2, EmptySeq, LenProperties DEF Own
  <2> QED BY <2>1, <2>2, <2>3 DEF Active, Holding, Guarded
<1>8. ASSUME NEW h, pc[s] \in Holding, Own(h, session.id), WriteBack(s, h)
      PROVE  Active' /\ session'.id = session.id /\ Own(session'.history, session'.id)
  BY <1>4, <1>8 DEF WriteBack, Session, Active
<1>9. CASE RuntimeUnavailable(s) \/ PanicUnwind(s)
  <2>1. pc[s] \in Holding /\ pc'[s] = "done" /\ WriteBack(s, w.history)
    BY <1>9 DEF RuntimeUnavailable, PanicUnwind, RestoreByDrop, Holding, Guarded
  <2> QED BY <1>4, <1>8, <2>1 DEF Holding, Guarded, LoopPoints
<1>10. CASE PutBack(s)
  <2> DEFINE back == IF outcome[s] = "error" THEN Take(w.history, w.before) ELSE w.history
  <2>1. pc[s] = "ending" /\ pc'[s] = "clearing" /\ WriteBack(s, back)
    BY <1>10 DEF PutBack
  <2>2. Own(w.history, session.id) /\ w.before > 0
    BY <1>4, <2>1 DEF Holding
  <2>3. Own(back, session.id)
    BY <1>5, <2>2, OwnTake
  <2> QED BY <1>8, <2>1, <2>3 DEF Holding, Guarded, LoopPoints
<1>11. CASE \/ BeginTurn(s) \/ ProviderUnavailable(s) \/ ProviderCallsTools(s)
            \/ ToolResult(s) \/ ToolsDone(s) \/ StreamDone(s)
            \/ BeginRound(s) \/ RoundsExhausted(s) \/ LoopCancelled(s) \/ ProviderFails(s)
            \/ ProviderAnswers(s) \/ StartTool(s)
  <2>1. /\ session' = session /\ pc[s] \in Holding
        /\ work'[s].ses = w.ses /\ work'[s].before = w.before
        /\ \/ work'[s].history = w.history
           \/ \E m \in OwnMessage(w.ses) : work'[s].history = Append(w.history, m)
    BY <1>11, LoopMoves DEF OfTurn
  <2>2. Active /\ w.ses = session.id /\ Own(w.history, session.id) /\ w.before > 0
    BY <1>4, <2>1
  <2>3. Own(work'[s].history, session.id)
    <3>1. CASE work'[s].history = w.history
      BY <2>2, <3>1
    <3>2. CASE \E m \in OwnMessage(w.ses) : work'[s].history = Append(w.history, m)
      <4>1. PICK m \in OwnMessage(session.id) : work'[s].history = Append(w.history, m)
        BY ONLY <2>2, <3>2
      <4>2. Own(Append(w.history, m), session.id)
        BY ONLY <2>2, OwnAppend, m \in OwnMessage(session.id)
      <4> QED BY <4>1, <4>2
    <3> QED BY <2>1, <3>1, <3>2
  <2>4. pc'[s] \in Holding
    BY <1>11 DEF BeginTurn, ProviderUnavailable, ProviderCallsTools, ToolResult, ToolsDone,
       StreamDone, BeginRound, RoundsExhausted, LoopCancelled, ProviderFails,
       ProviderAnswers, StartTool, LeaveLoop, Holding, Guarded, LoopPoints
  <2> QED BY <2>1, <2>2, <2>3, <2>4 DEF Active
<1>12. CASE CompactHistory(s)
  <2>1. pc[s] \in Holding /\ pc'[s] = "ending" /\ session' = session
    BY <1>12 DEF CompactHistory, Holding
  <2>2. Active /\ w.ses = session.id /\ Own(w.history, session.id) /\ w.before > 0
    BY <1>4, <2>1
  <2>3. /\ work'[s].history = w.history \/ work'[s].history = Compact(w.history, w.ses)
        /\ work'[s].ses = w.ses /\ work'[s].before = w.before
    BY <1>5, <1>12 DEF CompactHistory, Work
  <2>4. Own(work'[s].history, session.id)
    BY <1>5, <2>2, <2>3, OwnCompact
  <2> QED BY <2>1, <2>2, <2>3, <2>4 DEF Active, Holding
<1>13. CASE PanicAfterTake(s)
  <2>1. outcome'[s] = "lost"
    BY <1>13 DEF PanicAfterTake
  <2> QED BY <2>1 DEF NothingLost
<1> QED
  BY <1>6, <1>7, <1>9, <1>10, <1>11, <1>12, <1>13
     DEF SendStep, LocalStep, AwaitedStep, FaultStep

\* Between calls the other functions keep a session its own; no send holds anything then.
LEMMA OwnOtherStep ==
  ASSUME IInv, SerialInv, OwnInv,
         \/ SessionCancel \/ DestroyTake \/ UNCHANGED vars
         \/ /\ Quiescent
            /\ \/ \E s \in Sends : Arrive(s)
               \/ SessionStart \/ SessionSeed \/ SessionClear \/ DestroyCancel
  PROVE  OwnInv'
<1> USE DEF IInv, TypeOK
<1>1. CASE SessionCancel \/ UNCHANGED vars
  BY <1>1 DEF SessionCancel, vars, OwnInv, NothingLost, Active
<1>2. CASE DestroyTake
  <2>1. \A s \in Sends : pc[s] \notin Holding
    BY <1>2 DEF DestroyTake, SerialInv, InFlight, Holding, Guarded, LoopPoints
  <2>2. ~Active' /\ pc' = pc
    BY <1>2 DEF DestroyTake, Active, NoSession
  <2> QED BY <2>1, <2>2 DEF OwnInv
<1>3. CASE /\ Quiescent
           /\ \/ \E s \in Sends : Arrive(s)
              \/ SessionStart \/ SessionSeed \/ SessionClear \/ DestroyCancel
  <2>1. \A s \in Sends : pc[s] \notin Holding
    BY <1>3 DEF Quiescent, InFlight, Holding, Guarded, LoopPoints
  <2>2. CASE \E s \in Sends : Arrive(s)
    <3>1. /\ \A s \in Sends : pc'[s] \notin Holding
          /\ session' = session
          /\ NothingLost' => NothingLost
      BY <2>1, <2>2 DEF Arrive, SendEnter, SendRejected, Goto, Return, Holding, Guarded,
         LoopPoints, NothingLost, PointInv
    <3> QED BY <2>1, <3>1 DEF OwnInv, Active
  <2>3. ASSUME UNCHANGED <<pc, outcome>>,
               NothingLost /\ Active' => Own(session'.history, session'.id)
        PROVE  OwnInv'
    BY <2>1, <2>3 DEF OwnInv, NothingLost
  <2>4. CASE SessionStart
    <3>1. /\ session'.history = <<Msg("system", opened + 1, NoSend)>>
          /\ session'.id = opened + 1 /\ opened + 1 \in 0..MaxSessions
      BY <2>4, Bounds DEF SessionStart
    <3>2. Msg("system", opened + 1, NoSend) \in OwnMessage(opened + 1)
      BY <3>1, MsgType DEF Roles, OwnMessage, Msg
    <3>3. Own(session'.history, session'.id)
      BY <3>1, <3>2 DEF Own, Msg
    <3> QED BY <2>3, <2>4, <3>3 DEF SessionStart
  <2>5. CASE SessionSeed
    <3>1. PICK n \in 1..MaxSeed :
            session' = [session EXCEPT !.history =
                          @ \o [i \in 1..n |-> Msg("seed", session.id, NoSend)]]
      BY <2>5 DEF SessionSeed
    <3>2. Msg("seed", session.id, NoSend) \in OwnMessage(session.id)
      BY MsgType DEF Session, Roles, OwnMessage, Msg
    <3>3. [i \in 1..n |-> Msg("seed", session.id, NoSend)] \in Seq(OwnMessage(session.id))
      BY <3>2, BoundsAssumption
    <3>4. /\ session'.history = session.history
                                  \o [i \in 1..n |-> Msg("seed", session.id, NoSend)]
          /\ session'.id = session.id
      BY <3>1 DEF Session
    <3>5. NothingLost => Own(session.history, session.id)
      BY <2>1, <2>5 DEF SessionSeed, OwnInv
    <3>6. NothingLost => Own(session'.history, session'.id)
      <4> HIDE DEF IInv, TypeOK
      <4> QED BY <3>3, <3>4, <3>5, OwnConcat
    <3>7. UNCHANGED <<pc, outcome>>
      BY <2>5 DEF SessionSeed
    <3> QED BY <2>3, <3>6, <3>7
  <2>6. CASE SessionClear
    <3>1. /\ session'.history = <<Msg("system", session.id, NoSend)>>
          /\ session'.id = session.id
      BY <2>6 DEF SessionClear, Session
    <3>2. Msg("system", session.id, NoSend) \in OwnMessage(session.id)
      BY MsgType DEF Session, Roles, OwnMessage, Msg
    <3>3. Own(session'.history, session'.id)
      BY <3>1, <3>2 DEF Own, Msg
    <3> QED BY <2>3, <2>6, <3>3 DEF SessionClear
  <2>7. CASE DestroyCancel
    BY <2>7 DEF DestroyCancel, OwnInv, NothingLost, Active
  <2> QED BY <1>3, <2>2, <2>4, <2>5, <2>6, <2>7
<1> QED BY <1>1, <1>2, <1>3

\* Serial callers stay serial.
LEMMA SerialStep ==
  ASSUME IInv, SerialInv, [SerialNext]_vars
  PROVE  SerialInv'
<1> USE DEF IInv, TypeOK, SerialInv
<1>1. ASSUME NEW s \in Sends, SendStep(s) PROVE SerialInv'
  <2>1. \A x \in Sends : x # s => pc'[x] = pc[x] /\ outcome'[x] = outcome[x]
    BY <1>1, SendFrame
  <2>2. /\ InFlight(s) /\ destroying' = destroying
        /\ outcome'[s] = "lost" => pc'[s] = "done"
    BY <1>1, SendInFlight DEF InFlight
  <2> QED BY <2>1, <2>2 DEF InFlight
<1>2. ASSUME NEW s \in Sends, Quiescent, Arrive(s) PROVE SerialInv'
  <2>1. \A x \in Sends : x # s => pc'[x] = pc[x] /\ outcome'[x] = outcome[x]
    BY <1>2, SendFrame
  <2>2. outcome'[s] # "lost" /\ destroying' = destroying
    BY <1>2 DEF Arrive, SendEnter, SendRejected, Goto, Return, PointInv, Guarded, lifecycle
  <2>3. ~destroying /\ \A x \in Sends : ~InFlight(x)
    BY <1>2 DEF Quiescent
  <2> QED BY <2>1, <2>2, <2>3 DEF InFlight
<1>3. CASE SessionCancel \/ UNCHANGED vars
  BY <1>3 DEF SessionCancel, lifecycle, vars, InFlight
<1>4. CASE DestroyTake
  BY <1>4 DEF DestroyTake, InFlight
<1>5. CASE Quiescent /\ (SessionStart \/ SessionSeed \/ SessionClear \/ DestroyCancel)
  BY <1>5 DEF SessionStart, SessionSeed, SessionClear, DestroyCancel, Quiescent, InFlight,
              lifecycle
<1> QED BY <1>1, <1>2, <1>3, <1>4, <1>5 DEF SerialNext

\* With serial callers, for any number of sends, seeds, clears and sessions: between calls
\* a session holds its own prompt first and nothing but its own messages.
THEOREM SessionStaysWhole == SerialSpec => []SessionIntact
<1>1. [SerialNext]_vars => [Next]_vars
  BY DEF SerialNext, Next
<1>2. SerialSpec => Spec
  BY <1>1, PTL DEF SerialSpec, Spec
<1>3. Init => SerialInv /\ OwnInv
  BY DEF Init, SerialInv, OwnInv, InFlight, Active, NoSession, Holding, Guarded, LoopPoints
<1>4. IInv /\ SerialInv /\ OwnInv /\ [SerialNext]_vars => (SerialInv /\ OwnInv)'
  BY SerialStep, OwnSendStep, OwnOtherStep DEF SerialNext
<1>5. IInv /\ SerialInv /\ OwnInv => SessionIntact
  <2> SUFFICES ASSUME IInv, OwnInv, Active, NothingLost,
                      \A s \in Sends : pc[s] \notin Holding
               PROVE  /\ Committed # <<>> /\ Committed[1].role = "system"
                      /\ OwnMessages
    BY DEF SessionIntact
  <2>1. Own(session.history, session.id)
    BY DEF OwnInv
  <2>2. \A i \in DOMAIN session.history : session.history[i] \in OwnMessage(session.id)
    BY <2>1, ElementOfSeq, LenProperties DEF Own
  <2> QED BY <2>1, <2>2 DEF Committed, Own, OwnMessages, OwnMessage
<1> QED BY <1>2, <1>3, <1>4, <1>5, Invariance, PTL DEF SerialSpec

-----------------------------------------------------------------------------
(* With serial callers the session implements Transcript.                  *)

\* What a send has added since its rollback point is one turn, from its user message on.
TurnSoFar(s) ==
  LET h == work[s].history
      b == work[s].before
  IN  /\ b < Len(h) /\ h[b+1].role = "user"
      /\ \A i \in b+1..Len(h) : h[i].turn = s

\* A send in the loop holds a turn, one that ended well a turn with its answer.
HeldTurns ==
  \A s \in Sends :
    /\ pc[s] \in LoopPoints \cup {"compacting"} => TurnSoFar(s)
    /\ pc[s] = "compacting" => work[s].history[Len(work[s].history)].role = "final"

\* Moreover a closed session is empty, and nothing is lost.
ContractInv == NothingLost /\ (~Active => session = NoSession) /\ HeldTurns

\* The turn of a send begins with its user message and goes on message by message.
LEMMA TurnAppend ==
  ASSUME NEW h \in Seq(Message), NEW m \in Message, NEW b \in Nat, NEW s, m.turn = s,
         \/ b = Len(h) /\ m.role = "user"
         \/ /\ b < Len(h) /\ h[b+1].role = "user"
            /\ \A i \in b+1..Len(h) : h[i].turn = s
  PROVE  LET g == Append(h, m)
         IN  /\ b < Len(g) /\ g[b+1].role = "user"
             /\ \A i \in b+1..Len(g) : g[i].turn = s
             /\ g[Len(g)] = m
<1> DEFINE g == Append(h, m)
<1>1. /\ Len(h) \in Nat /\ Len(g) = Len(h) + 1 /\ g[Len(h) + 1] = m
      /\ \A i \in 1..Len(h) : g[i] = h[i]
  BY LenProperties, AppendProperties
<1> HIDE DEF g
<1>2. b < Len(g) /\ g[Len(g)] = m /\ g[b+1].role = "user"
  BY <1>1
<1>3. \A i \in b+1..Len(g) : g[i].turn = s
  BY <1>1
<1> QED BY <1>2, <1>3 DEF g

\* A send that is in the loop, or on its way out with an answer, holds its turn so far.
LEMMA TurnSoFarStep ==
  ASSUME IInv, HeldTurns, NEW s \in Sends, SendStep(s)
  PROVE  /\ pc'[s] \in LoopPoints \cup {"compacting"} => TurnSoFar(s)'
         /\ pc'[s] = "compacting" => work'[s].history[Len(work'[s].history)].role = "final"
<1> DEFINE w == work[s]
<1> USE DEF IInv, TypeOK
<1>1. w.history \in Seq(Message) /\ w.before \in Nat
  BY DEF Work
<1> SUFFICES ASSUME pc'[s] \in LoopPoints \cup {"compacting"}
             PROVE  /\ TurnSoFar(s)'
                    /\ pc'[s] = "compacting" =>
                         work'[s].history[Len(work'[s].history)].role = "final"
  OBVIOUS
<1>2. \/ BeginTurn(s) \/ ProviderCallsTools(s) \/ ToolResult(s) \/ ToolsDone(s) \/ StreamDone(s)
      \/ BeginRound(s) \/ ProviderAnswers(s) \/ StartTool(s)
  BY DEF SendStep, LocalStep, AwaitedStep, FaultStep, LoopPoints, Goto, Return, LeaveLoop,
     RestoreByDrop, InstallToken, SendWithoutSession, TakeState, RoundsExhausted,
     LoopCancelled, PutBack, ClearToken, ProviderUnavailable, ProviderFails, CompactHistory,
     RuntimeUnavailable, PanicUnwind, PanicAfterTake
<1>3. /\ work'[s].before = w.before
      /\ \/ work'[s].history = w.history
         \/ \E m \in OfTurn(s) : work'[s].history = Append(w.history, m)
      /\ BeginTurn(s) => \E m \in OfTurn(s) :
           m.role = "user" /\ work'[s].history = Append(w.history, m)
      /\ StreamDone(s) => \E m \in OfTurn(s) :
           m.role = "final" /\ work'[s].history = Append(w.history, m)
  BY <1>2, LoopMoves
<1>4. \A m \in OfTurn(s) : m \in Message /\ m.turn = s
  BY DEF OfTurn, OwnMessage
<1>5. CASE BeginTurn(s)
  <2>1. w.before = Len(w.history)
    BY <1>5 DEF BeginTurn, TurnInv, HoldInv, Holding, Guarded
  <2>2. pc'[s] = "ready"
    BY <1>5 DEF BeginTurn, Goto
  <2>3. PICK m \in OfTurn(s) : m.role = "user" /\ work'[s].history = Append(w.history, m)
    BY <1>3, <1>5
  <2>4. TurnSoFar(s)'
    BY <1>1, <1>3, <1>4, <2>1, <2>3, TurnAppend DEF TurnSoFar
  <2> QED BY <2>2, <2>4
<1>6. CASE ~BeginTurn(s)
  <2>1. pc[s] \in LoopPoints
    BY <1>2, <1>6 DEF ProviderCallsTools, ToolResult, ToolsDone, StreamDone, BeginRound,
       ProviderAnswers, StartTool, LoopPoints
  <2>2. TurnSoFar(s)
    BY <2>1 DEF HeldTurns
  <2>3. TurnSoFar(s)'
    <3>1. CASE work'[s].history = w.history
      BY <1>3, <2>2, <3>1 DEF TurnSoFar
    <3>2. ASSUME NEW m \in OfTurn(s), work'[s].history = Append(w.history, m)
          PROVE  TurnSoFar(s)'
      BY <1>1, <1>3, <1>4, <2>2, <3>2, TurnAppend DEF TurnSoFar
    <3> QED BY <1>3, <3>1, <3>2
  <2>4. CASE StreamDone(s)
    <3>1. PICK m \in OfTurn(s) : m.role = "final" /\ work'[s].history = Append(w.history, m)
      BY <1>3, <2>4
    <3>2. work'[s].history[Len(work'[s].history)] = m
      BY <1>1, <1>4, <2>2, <3>1, TurnAppend DEF TurnSoFar
    <3> QED BY <2>3, <3>1, <3>2
  <2>5. CASE ~StreamDone(s)
    <3>1. pc'[s] # "compacting"
      BY <1>2, <1>6, <2>5 DEF ProviderCallsTools, ToolResult, ToolsDone, BeginRound,
         ProviderAnswers, StartTool, Goto
    <3> QED BY <2>3, <3>1
  <2> QED BY <2>4, <2>5
<1> QED BY <1>5, <1>6

\* What sends hold of their turns is kept by every step.
LEMMA HeldTurnsStep ==
  ASSUME IInv, HeldTurns, [Next]_vars
  PROVE  HeldTurns'
<1> USE DEF IInv, TypeOK
<1>1. ASSUME NEW s \in Sends, Arrive(s) \/ SendStep(s) PROVE HeldTurns'
  <2>1. \A x \in Sends : x # s => pc'[x] = pc[x] /\ work'[x] = work[x]
    BY <1>1, SendFrame
  <2>2. /\ pc'[s] \in LoopPoints \cup {"compacting"} => TurnSoFar(s)'
        /\ pc'[s] = "compacting" => work'[s].history[Len(work'[s].history)].role = "final"
    <3>1. CASE Arrive(s)
      BY <3>1 DEF Arrive, SendEnter, SendRejected, Goto, Return, LoopPoints
    <3>2. CASE SendStep(s)
      BY <3>2, TurnSoFarStep
    <3> QED BY <1>1, <3>1, <3>2
  <2>3. \A x \in Sends : x # s =>
          /\ pc'[x] \in LoopPoints \cup {"compacting"} => TurnSoFar(x)'
          /\ pc'[x] = "compacting" => work'[x].history[Len(work'[x].history)].role = "final"
    BY <2>1 DEF HeldTurns, TurnSoFar
  <2> HIDE DEF IInv, TypeOK
  <2> QED BY <2>2, <2>3 DEF HeldTurns
<1>2. CASE UNCHANGED <<pc, work>>
  BY <1>2 DEF HeldTurns, TurnSoFar
<1> QED BY <1>1, <1>2, OthersLeaveSends DEF Next

\* ContractInv is kept by every step, if the code behind the guard does not panic.
LEMMA ContractInvStep ==
  ASSUME ~LatePanics, IInv, ContractInv, [Next]_vars
  PROVE  ContractInv'
<1> USE DEF IInv, TypeOK
<1>0. HeldTurns'
  BY HeldTurnsStep DEF ContractInv
<1>1. ASSUME NEW s \in Sends, Arrive(s) \/ SendStep(s) PROVE ContractInv'
  <2>1. \A x \in Sends : x # s => outcome'[x] = outcome[x]
    BY <1>1, SendFrame
  <2>2. outcome'[s] # "lost"
    BY <1>1 DEF ContractInv, NothingLost, PointInv, Arrive, SendStep, LocalStep, AwaitedStep,
       FaultStep, SendEnter, SendRejected, InstallToken, SendWithoutSession, TakeState,
       BeginRound, RoundsExhausted, LoopCancelled, StreamDone, StartTool, ToolsDone, PutBack,
       ClearToken, BeginTurn, ProviderUnavailable, ProviderFails, ProviderAnswers,
       ProviderCallsTools, ToolResult, CompactHistory, RuntimeUnavailable, PanicUnwind,
       PanicAfterTake, RestoreByDrop, LeaveLoop, Goto, Return
  <2>3. session' = session \/ (Active /\ session'.id = session.id)
    BY <1>1 DEF Arrive, SendStep, LocalStep, AwaitedStep,
       FaultStep, SendEnter, SendRejected, InstallToken, SendWithoutSession, TakeState,
       BeginRound, RoundsExhausted, LoopCancelled, StreamDone, StartTool, ToolsDone, PutBack,
       ClearToken, BeginTurn, ProviderUnavailable, ProviderFails, ProviderAnswers,
       ProviderCallsTools, ToolResult, CompactHistory, RuntimeUnavailable, PanicUnwind,
       PanicAfterTake, RestoreByDrop, LeaveLoop, WriteBack, Session
  <2>4. ~Active' => session' = NoSession
    BY <2>3 DEF ContractInv, Active
  <2>5. NothingLost'
    BY <2>1, <2>2 DEF ContractInv, NothingLost
  <2> HIDE DEF IInv, TypeOK
  <2> QED BY <1>0, <2>4, <2>5 DEF ContractInv
<1>2. ASSUME UNCHANGED <<pc, work, outcome>>, ~Active' => session' = NoSession
      PROVE  ContractInv'
  BY <1>0, <1>2 DEF ContractInv, NothingLost
<1>3. CASE SessionCancel \/ DestroyCancel \/ UNCHANGED vars
  BY <1>2, <1>3 DEF SessionCancel, DestroyCancel, vars, ContractInv, Active
<1>4. CASE SessionStart
  BY <1>2, <1>4, Bounds DEF SessionStart, Active
<1>5. CASE SessionSeed \/ SessionClear
  BY <1>2, <1>5 DEF SessionSeed, SessionClear, Active, Session
<1>6. CASE DestroyTake
  BY <1>2, <1>6 DEF DestroyTake
<1> QED BY <1>1, <1>3, <1>4, <1>5, <1>6 DEF Next

\* A history that holds a turn behind the rollback point extends what a rollback keeps,
\* by that turn.
LEMMA TurnExtends ==
  ASSUME TypeOK, NEW s \in Sends, TurnSoFar(s)
  PROVE  LET h == work[s].history
             l == Take(work[s].history, work[s].before)
         IN  /\ Contract!Extends(h, l)
             /\ h[Len(l) + 1].role = "user"
             /\ \A i \in Contract!NewPart(h, l) :
                  h[i].turn = h[Len(l) + 1].turn /\ h[i].turn # NoSend
<1> DEFINE h == work[s].history
           b == work[s].before
           l == Take(h, b)
<1>1. h \in Seq(Message) /\ b \in Nat /\ Len(h) \in Nat
  BY LenProperties DEF TypeOK, Work
<1>2. b < Len(h) /\ h[b+1].role = "user" /\ \A i \in b+1..Len(h) : h[i].turn = s
  BY DEF TurnSoFar
<1> HIDE DEF h, b
<1>3. l = SubSeq(h, 1, b)
  BY <1>1, <1>2 DEF Take
<1>4. Len(l) = b
  <2>1. \A i \in 1..b : h[i] \in Message
    BY <1>1, <1>2, ElementOfSeq
  <2>2. Len(SubSeq(h, 1, b)) = IF 1 <= b THEN b - 1 + 1 ELSE 0
    BY <1>1, <2>1, SubSeqProperties
  <2> QED BY <1>1, <1>3, <2>2
<1> HIDE DEF l
<1>5. Contract!Extends(h, l)
  BY <1>2, <1>3, <1>4 DEF Contract!Extends
<1>6. /\ h[Len(l) + 1].role = "user"
      /\ \A i \in Contract!NewPart(h, l) :
           h[i].turn = h[Len(l) + 1].turn /\ h[i].turn # NoSend
  BY <1>1, <1>2, <1>4, SendsAssumption DEF Contract!NewPart
<1> QED BY <1>5, <1>6 DEF h, l, b

\* What a compaction that does something leaves.
LEMMA CompactShape ==
  ASSUME NEW ses \in 0..MaxSessions, NEW h \in Seq(Message), h # <<>>,
         h[1].role = "system", h[Len(h)].role = "final", Compact(h, ses) # h
  PROVE  LET c == Compact(h, ses)
         IN  /\ Len(c) = KeepRecent + 2 /\ c[1] = h[1] /\ c[2].role = "summary"
             /\ KeepRecent > 0 => c[Len(c)].role = "final"
<1> DEFINE m == Msg("summary", ses, NoSend)
           front == SubSeq(h, 1, 1)
           tail == SubSeq(h, Len(h) - KeepRecent + 1, Len(h))
           head == front \o <<m>>
<1>1. Len(h) \in Nat \ {0} /\ KeepRecent \in Nat
  BY EmptySeq, LenProperties, BoundsAssumption
<1>2. KeepRecent < Len(h) - 1 /\ Compact(h, ses) = front \o <<m>> \o tail
  BY <1>1 DEF Compact
<1>3. m \in Message /\ m.role = "summary"
  BY MsgType DEF Roles, Msg
<1>4. \A i \in 1..Len(h) : h[i] \in Message
  BY ElementOfSeq
<1> HIDE DEF m
<1>5. front \in Seq(Message) /\ Len(front) = 1 /\ front[1] = h[1]
  <2>1. \A i \in 1..1 : h[i] \in Message
    BY <1>1, <1>4
  <2>2. /\ front \in Seq(Message)
        /\ Len(front) = IF 1 <= 1 THEN 1 - 1 + 1 ELSE 0
        /\ \A i \in 1..1-1+1 : front[i] = h[1+i-1]
    BY <2>1, SubSeqProperties
  <2> QED BY <2>2
<1>6. /\ tail \in Seq(Message) /\ Len(tail) = KeepRecent
      /\ KeepRecent > 0 => tail[KeepRecent] = h[Len(h)]
  <2> DEFINE a == Len(h) - KeepRecent + 1
  <2>1. a \in Nat /\ a > 2 /\ \A i \in a..Len(h) : h[i] \in Message
    BY <1>1, <1>2, <1>4
  <2>2. /\ tail \in Seq(Message)
        /\ Len(tail) = IF a <= Len(h) THEN Len(h) - a + 1 ELSE 0
        /\ \A i \in 1..Len(h)-a+1 : tail[i] = h[a+i-1]
    BY <1>1, <2>1, SubSeqProperties
  <2> QED BY <1>1, <1>2, <2>1, <2>2
<1> HIDE DEF front, tail
<1>7. head \in Seq(Message) /\ Len(head) = 2 /\ head[1] = h[1] /\ head[2] = m
  <2>1. <<m>> \in Seq(Message) /\ Len(<<m>>) = 1 /\ <<m>>[1] = m
    BY <1>3
  <2> HIDE DEF head
  <2>2. /\ head \in Seq(Message) /\ Len(head) = Len(front) + Len(<<m>>)
        /\ \A i \in 1..Len(front) + Len(<<m>>) :
             head[i] = IF i <= Len(front) THEN front[i] ELSE <<m>>[i - Len(front)]
    BY <1>5, <2>1, ConcatProperties DEF head
  <2> QED BY <1>5, <2>1, <2>2
<1> HIDE DEF head
<1>8. /\ Len(head \o tail) = 2 + KeepRecent
      /\ \A i \in 1..2 + KeepRecent :
           (head \o tail)[i] = IF i <= 2 THEN head[i] ELSE tail[i - 2]
  <2>1. head \in Seq(Message) /\ tail \in Seq(Message)
    BY <1>6, <1>7
  <2>2. /\ Len(head \o tail) = Len(head) + Len(tail)
        /\ \A i \in 1..Len(head) + Len(tail) :
             (head \o tail)[i] = IF i <= Len(head) THEN head[i] ELSE tail[i - Len(head)]
    BY ONLY <2>1, ConcatProperties
  <2>3. Len(head) = 2 /\ Len(tail) = KeepRecent
    BY <1>6, <1>7
  <2> QED BY ONLY <2>2, <2>3
<1>9. Compact(h, ses) = head \o tail
  BY <1>2 DEF head
<1> DEFINE c == head \o tail
<1> HIDE DEF c
<1>10. /\ Len(c) = KeepRecent + 2 /\ c[1] = h[1] /\ c[2].role = "summary"
       /\ KeepRecent > 0 => c[Len(c)].role = "final"
  BY <1>1, <1>3, <1>6, <1>7, <1>8 DEF c
<1> QED BY <1>9, <1>10 DEF c

\* While a send holds the conversation it is the only holder, and the contract shows the
\* part it is known to keep.
LEMMA HeldConversation ==
  ASSUME IInv, SerialInv, NEW s \in Sends, pc[s] \in Holding, Active
  PROVE  Conversation = [id |-> session.id, log |-> HeldLog(s), tools |-> work[s].tools]
<1>1. \A x \in Sends : pc[x] \in Holding => x = s
  BY DEF SerialInv, InFlight, Holding, Guarded, LoopPoints
<1>2. Holders = {s}
  BY <1>1 DEF Holders
<1> QED BY <1>2 DEF Conversation

\* Otherwise it shows the session.
LEMMA FreeConversation ==
  ASSUME \A x \in Sends : pc[x] \notin Holding
  PROVE  Conversation = [id |-> session.id, log |-> session.history, tools |-> session.tools]
BY DEF Conversation, Holders

\* A step of a send is a turn, a turn with its compaction, or invisible.
LEMMA ContractSendStep ==
  ASSUME ~LatePanics, IInv, SerialInv, OwnInv, ContractInv, NEW s \in Sends, SendStep(s)
  PROVE  Contract!Turn \/ Contract!CompactedTurn \/ Conversation' = Conversation
<1> DEFINE w == work[s]
           old == Take(w.history, w.before)
           Show(log) == [id |-> session.id, log |-> log, tools |-> w.tools]
<1> USE DEF IInv, TypeOK, Goto, Return
<1>1. /\ InFlight(s)
      /\ \A x \in Sends : x # s => pc[x] \notin Holding /\ pc'[x] \notin Holding
  BY SendInFlight, SendFrame DEF SerialInv, InFlight, Holding, Guarded, LoopPoints
<1>2. pc[s] \in Holding => /\ Active /\ w.ses = session.id
                           /\ Own(w.history, session.id) /\ w.before > 0
  BY DEF OwnInv, ContractInv
<1>3. /\ w \in Work /\ w.history \in Seq(Message) /\ w.before \in Nat
      /\ session \in Session
  BY DEF Work
<1>4. pc[s] \in Holding => Conversation = Show(HeldLog(s))
  BY <1>2, HeldConversation
<1>5. pc[s] \in Holding /\ (pc[s] # "ending" \/ outcome[s] = "error") => Conversation = Show(old)
  BY <1>4 DEF HeldLog
<1>6. pc'[s] \notin Holding =>
        Conversation' = [id |-> session'.id, log |-> session'.history, tools |-> session'.tools]
  BY <1>1 DEF Conversation, Holders
<1>7. pc'[s] \in Holding /\ Active' =>
        Conversation' = [id |-> session'.id, log |-> HeldLog(s)', tools |-> work'[s].tools]
  <2> SUFFICES ASSUME pc'[s] \in Holding, Active'
               PROVE  Conversation' = [id |-> session'.id, log |-> HeldLog(s)',
                                       tools |-> work'[s].tools]
    OBVIOUS
  <2>1. Holders' = {s}
    BY <1>1 DEF Holders
  <2> QED BY <2>1 DEF Conversation
\* A turn that becomes visible.
<1>8. ASSUME TurnSoFar(s), Active, Conversation = Show(old), Conversation' = Show(w.history)
      PROVE  Contract!Turn
  <2>1. /\ Contract!Extends(w.history, old)
        /\ w.history[Len(old) + 1].role = "user"
        /\ \A i \in Contract!NewPart(w.history, old) :
             w.history[i].turn = w.history[Len(old) + 1].turn /\ w.history[i].turn # NoSend
    BY <1>8, TurnExtends
  <2>2. Contract!log = old /\ Contract!log' = w.history
    BY <1>8 DEF Contract!log
  <2>3. Contract!Continue
    BY <1>8, <2>2 DEF Contract!Continue, Active
  <2> QED BY <2>1, <2>2, <2>3 DEF Contract!Turn
<1>9. ASSUME NEW h, pc[s] \in Holding, WriteBack(s, h), pc'[s] \notin Holding
      PROVE  Conversation' = Show(h)
  <2>1. session' = [session EXCEPT !.history = h, !.tools = w.tools]
    BY <1>2, <1>9 DEF WriteBack
  <2> QED BY <1>3, <1>6, <1>9, <2>1 DEF Session
<1>10. pc[s] = "taken" => old = w.history
  <2> SUFFICES ASSUME pc[s] = "taken" PROVE old = w.history
    OBVIOUS
  <2>1. w.before = Len(w.history)
    BY DEF TurnInv, HoldInv, Holding, Guarded
  <2> QED BY <1>3, <2>1, SubSeqFull DEF Take
<1>11. CASE InstallToken(s) \/ SendWithoutSession(s) \/ ClearToken(s)
  <2>1. pc[s] \notin Holding /\ pc'[s] \notin Holding /\ session' = session
    BY <1>11 DEF InstallToken, SendWithoutSession, ClearToken, Holding, Guarded, LoopPoints
  <2>2. Conversation = [id |-> session.id, log |-> session.history, tools |-> session.tools]
    BY <1>1, <2>1, FreeConversation
  <2> QED BY <1>6, <2>1, <2>2
<1>12. CASE TakeState(s)
  <2>1. /\ work'[s].history = session.history /\ work'[s].tools = session.tools
        /\ work'[s].before = Len(session.history)
        /\ session'.id = session.id /\ Active /\ pc[s] = "token" /\ pc'[s] = "taken"
    BY <1>12 DEF TakeState, Session, NoWork
  <2>2. Conversation = [id |-> session.id, log |-> session.history, tools |-> session.tools]
    BY <1>1, <2>1, FreeConversation DEF Holding, Guarded, LoopPoints
  <2>3. Take(session.history, Len(session.history)) = session.history
    BY SubSeqFull, LenProperties DEF Take, Session
  <2>4. HeldLog(s)' = session.history
    BY <2>1, <2>3 DEF HeldLog
  <2>5. Active' /\ pc'[s] \in Holding
    BY <2>1 DEF Active, Holding, Guarded
  <2> QED BY <1>7, <2>1, <2>2, <2>4, <2>5
<1>13. CASE RuntimeUnavailable(s) \/ PanicUnwind(s)
  <2>1. /\ pc[s] \in Guarded /\ pc'[s] = "done" /\ WriteBack(s, w.history)
    BY <1>13 DEF RuntimeUnavailable, PanicUnwind, RestoreByDrop, Guarded
  <2>2. /\ pc[s] \in Holding /\ pc[s] # "ending" /\ pc'[s] \notin Holding
    BY <2>1 DEF Holding, Guarded, LoopPoints
  <2>3. Conversation = Show(old) /\ Conversation' = Show(w.history)
    BY <1>5, <1>9, <2>1, <2>2
  <2>4. CASE pc[s] = "taken"
    BY <1>10, <2>3, <2>4
  <2>5. CASE pc[s] \in LoopPoints
    BY <1>2, <1>8, <2>2, <2>3, <2>5 DEF ContractInv, HeldTurns
  <2> QED BY <2>1, <2>4, <2>5 DEF Guarded
<1>14. CASE PutBack(s)
  <2> DEFINE back == IF outcome[s] = "error" THEN old ELSE w.history
  <2>1. pc[s] = "ending" /\ pc'[s] = "clearing" /\ WriteBack(s, back)
    BY <1>14 DEF PutBack
  <2>2. HeldLog(s) = back
    BY <2>1 DEF HeldLog
  <2>3. pc[s] \in Holding /\ pc'[s] \notin Holding
    BY <2>1 DEF Holding, Guarded, LoopPoints
  <2>4. Conversation' = Show(back)
    BY <1>9, <2>1, <2>3
  <2> QED BY <1>4, <2>2, <2>3, <2>4
<1>15. CASE \/ BeginTurn(s) \/ ProviderUnavailable(s) \/ ProviderCallsTools(s)
            \/ ToolResult(s) \/ ToolsDone(s) \/ StreamDone(s)
            \/ BeginRound(s) \/ RoundsExhausted(s) \/ LoopCancelled(s) \/ ProviderFails(s)
            \/ ProviderAnswers(s) \/ StartTool(s)
  <2>1. /\ session' = session /\ pc[s] \in Holding
        /\ work'[s].ses = w.ses /\ work'[s].before = w.before /\ work'[s].tools = w.tools
        /\ \/ work'[s].history = w.history
           \/ \E m \in OfTurn(s) : work'[s].history = Append(w.history, m)
    BY <1>15, LoopMoves
  <2>2. pc[s] \in LoopPoints \cup {"taken"} /\ pc'[s] \in LoopPoints \cup {"compacting", "ending"}
    BY <1>15 DEF BeginTurn, ProviderUnavailable, ProviderCallsTools, ToolResult, ToolsDone,
       StreamDone, BeginRound, RoundsExhausted, LoopCancelled, ProviderFails,
       ProviderAnswers, StartTool, CancelPoint, LeaveLoop, LoopPoints
  <2>3. Active /\ Active' /\ pc'[s] \in Holding /\ pc[s] # "ending"
    BY <1>2, <2>1, <2>2 DEF Active, Holding, Guarded, LoopPoints
  <2>4. Conversation = Show(old)
    BY <1>5, <2>1, <2>3
  <2>5. Take(work'[s].history, w.before) = old
    <3>1. w.before <= Len(w.history)
      BY <2>1, <2>2 DEF TurnInv, HoldInv, PointInv, Guarded
    <3>2. \A m \in OfTurn(s) : m \in Message
      BY DEF OfTurn, OwnMessage
    <3>3. CASE work'[s].history = w.history
      BY <3>3
    <3>4. ASSUME NEW m \in OfTurn(s), work'[s].history = Append(w.history, m)
          PROVE  Take(work'[s].history, w.before) = old
      <4>1. m \in Message
        BY <3>2
      <4>2. Take(Append(w.history, m), w.before) = Take(w.history, w.before)
        BY <1>3, <3>1, <4>1, TakeAppend
      <4> QED BY <3>4, <4>2
    <3> QED BY <2>1, <3>3, <3>4
  <2>6. Conversation' = Show(HeldLog(s)')
    BY <1>7, <2>1, <2>3
  <2>7. CASE pc'[s] # "ending" \/ outcome'[s] = "error"
    <3>1. HeldLog(s)' = old
      BY <2>1, <2>5, <2>7 DEF HeldLog
    <3> QED BY <2>4, <2>6, <3>1
  <2>8. CASE pc'[s] = "ending" /\ outcome'[s] # "error"
    <3>1. LoopCancelled(s)
      BY <1>15, <2>8 DEF BeginTurn, ProviderUnavailable, ProviderCallsTools, ToolResult,
         ToolsDone, StreamDone, BeginRound, RoundsExhausted, ProviderFails,
         ProviderAnswers, StartTool, LeaveLoop
    <3>2. pc[s] \in LoopPoints /\ work' = work
      BY <3>1 DEF LoopCancelled, CancelPoint, LoopPoints
    <3>3. HeldLog(s)' = w.history
      BY <2>8, <3>2 DEF HeldLog
    <3> QED BY <1>8, <2>3, <2>4, <2>6, <3>2, <3>3 DEF ContractInv, HeldTurns
  <2> QED BY <2>7, <2>8
<1>16. CASE CompactHistory(s)
  <2>1. /\ pc[s] = "compacting" /\ pc'[s] = "ending" /\ session' = session
        /\ outcome'[s] = outcome[s] /\ outcome[s] = "ok"
    BY <1>16 DEF CompactHistory, PointInv
  <2>2. pc[s] \in Holding /\ pc'[s] \in Holding
    BY <2>1 DEF Holding
  <2>3. /\ Active /\ Active' /\ w.ses = session.id /\ Own(w.history, session.id)
        /\ w.before > 0
    BY <1>2, <2>1, <2>2 DEF Active
  <2>4. /\ TurnSoFar(s)
        /\ w.history[Len(w.history)].role = "final"
    BY <2>1 DEF ContractInv, HeldTurns
  <2>5. /\ work'[s].history = w.history \/ work'[s].history = Compact(w.history, w.ses)
        /\ work'[s].tools = w.tools
    BY <1>3, <1>16 DEF CompactHistory, Work
  <2>6. Conversation = Show(old)
    BY <1>5, <2>1, <2>2
  <2>7. Conversation' = Show(work'[s].history)
    <3>1. HeldLog(s)' = work'[s].history
      BY <2>1 DEF HeldLog
    <3> QED BY <1>7, <2>1, <2>2, <2>3, <2>5, <3>1
  <2>8. CASE work'[s].history = w.history
    BY <1>8, <2>3, <2>4, <2>6, <2>7, <2>8
  <2>9. CASE work'[s].history # w.history
    <3> DEFINE c == Compact(w.history, w.ses)
    <3>1. work'[s].history = c /\ c # w.history
      BY <2>5, <2>9
    <3>2. w.ses \in 0..MaxSessions /\ w.history # <<>> /\ w.history[1].role = "system"
      BY <1>3, <2>3 DEF Own, Work
    <3>3. /\ Len(c) = KeepRecent + 2 /\ c[1] = w.history[1] /\ c[2].role = "summary"
          /\ KeepRecent > 0 => c[Len(c)].role = "final"
      BY <1>3, <2>4, <3>1, <3>2, CompactShape
    <3>4. old[1] = w.history[1]
      BY <1>3, <2>3, TakeFirst DEF Own
    <3>5. Contract!log = old /\ Contract!log' = c
      BY <2>6, <2>7, <3>1 DEF Contract!log
    <3>6. Contract!Continue
      BY <2>3, <2>6, <2>7, <3>1, <3>5 DEF Contract!Continue, Active
    <3> HIDE DEF c, old
    <3>7. Contract!CompactedTurn
      BY <3>3, <3>4, <3>5, <3>6 DEF Contract!CompactedTurn
    <3> QED BY <3>7
  <2> QED BY <2>8, <2>9
<1>17. ~PanicAfterTake(s)
  BY DEF PanicAfterTake
<1> QED
  BY <1>11, <1>12, <1>13, <1>14, <1>15, <1>16, <1>17
     DEF SendStep, LocalStep, AwaitedStep, FaultStep

\* A seed extends the conversation by seeds.
LEMMA SeedExtends ==
  ASSUME NEW h \in Seq(Message), NEW m \in Message, NEW n \in Nat \ {0}
  PROVE  LET g == h \o [i \in 1..n |-> m]
         IN  /\ Contract!Extends(g, h)
             /\ \A i \in Contract!NewPart(g, h) : g[i] = m
<1> DEFINE t == [i \in 1..n |-> m]
           g == h \o t
<1>1. t \in Seq(Message) /\ Len(t) = n /\ \A i \in 1..n : t[i] = m
  OBVIOUS
<1> HIDE DEF t
<1>2. /\ g \in Seq(Message) /\ Len(g) = Len(h) + Len(t)
      /\ \A i \in 1..Len(h) + Len(t) :
           g[i] = IF i <= Len(h) THEN h[i] ELSE t[i - Len(h)]
  BY <1>1, ConcatProperties
<1>3. Len(h) \in Nat
  BY LenProperties
<1> HIDE DEF g
<1>4. Len(g) > Len(h)
  BY <1>1, <1>2, <1>3
<1>5. SubSeq(g, 1, Len(h)) = h
  <2>1. \A i \in 1..Len(h) : g[i] = h[i] /\ g[i] \in Message
    BY <1>1, <1>2, <1>3, ElementOfSeq
  <2>2. /\ SubSeq(g, 1, Len(h)) \in Seq(Message)
        /\ Len(SubSeq(g, 1, Len(h))) = IF 1 <= Len(h) THEN Len(h) - 1 + 1 ELSE 0
        /\ \A i \in 1..Len(h)-1+1 : SubSeq(g, 1, Len(h))[i] = g[1+i-1]
    BY <1>3, <2>1, SubSeqProperties
  <2>3. Len(SubSeq(g, 1, Len(h))) = Len(h)
    BY <1>3, <2>2
  <2>4. \A i \in 1..Len(h) : SubSeq(g, 1, Len(h))[i] = h[i]
    BY <1>3, <2>1, <2>2
  <2> QED BY <2>2, <2>3, <2>4, SeqEqual
<1>6. \A i \in Contract!NewPart(g, h) : g[i] = m
  BY <1>1, <1>2, <1>3 DEF Contract!NewPart
<1> QED BY <1>4, <1>5, <1>6 DEF Contract!Extends, g, t

\* Every other call of a serial caller is an opening, a seed, a clear, a closing, or invisible.
LEMMA ContractOtherStep ==
  ASSUME IInv, SerialInv, ContractInv,
         \/ SessionCancel \/ DestroyTake \/ UNCHANGED vars
         \/ /\ Quiescent
            /\ \/ \E s \in Sends : Arrive(s)
               \/ SessionStart \/ SessionSeed \/ SessionClear \/ DestroyCancel
  PROVE  \/ Contract!Open \/ Contract!Close \/ Contract!Seed \/ Contract!Clear
         \/ Conversation' = Conversation
<1> USE DEF IInv, TypeOK
<1> DEFINE Show(ses) == [id |-> ses.id, log |-> ses.history, tools |-> ses.tools]
<1>1. CASE SessionCancel \/ UNCHANGED vars
  BY <1>1 DEF SessionCancel, vars, Conversation, Holders, HeldLog, Active
<1>2. CASE \/ DestroyTake
           \/ /\ Quiescent
              /\ \/ \E s \in Sends : Arrive(s)
                 \/ SessionStart \/ SessionSeed \/ SessionClear \/ DestroyCancel
  <2>1. \A s \in Sends : pc[s] \notin Holding
    BY <1>2 DEF Quiescent, DestroyTake, SerialInv, InFlight, Holding, Guarded, LoopPoints
  <2>2. \A s \in Sends : pc'[s] \notin Holding
    BY <1>2, <2>1 DEF Arrive, SendEnter, SendRejected, SessionStart, SessionSeed, SessionClear,
       DestroyCancel, DestroyTake, Goto, Return, Holding, Guarded, LoopPoints, lifecycle
  <2>3. Conversation = Show(session) /\ Conversation' = Show(session')
    BY <2>1, <2>2 DEF Conversation, Holders
  <2>4. CASE (\E s \in Sends : Arrive(s)) \/ DestroyCancel
    BY <2>3, <2>4 DEF Arrive, SendEnter, SendRejected, DestroyCancel
  <2>5. CASE SessionStart
    <3>1. /\ session'.history = <<Msg("system", opened + 1, NoSend)>>
          /\ session'.id = opened + 1 /\ opened + 1 > 0 /\ session.id = 0
      BY <2>5, Bounds DEF SessionStart, Active
    <3>2. Contract!SystemOnly(session'.history)
      BY <3>1 DEF Contract!SystemOnly, Msg
    <3> QED BY <2>3, <3>1, <3>2 DEF Contract!Open, Contract!log
  <2>6. CASE SessionSeed
    <3>1. PICK n \in 1..MaxSeed :
            session' = [session EXCEPT !.history =
                          @ \o [i \in 1..n |-> Msg("seed", session.id, NoSend)]]
      BY <2>6 DEF SessionSeed
    <3>2. /\ Msg("seed", session.id, NoSend) \in Message
          /\ Msg("seed", session.id, NoSend).role = "seed"
      BY MsgType DEF Session, Roles, Msg
    <3>3. n \in Nat \ {0} /\ session.history \in Seq(Message)
      BY BoundsAssumption DEF Session
    <3>4. /\ session'.history = session.history
                                  \o [i \in 1..n |-> Msg("seed", session.id, NoSend)]
          /\ session'.id = session.id /\ session'.tools = session.tools
      BY <3>1 DEF Session
    <3>5. /\ Contract!Extends(session'.history, session.history)
          /\ \A i \in Contract!NewPart(session'.history, session.history) :
               session'.history[i].role = "seed"
      <4> DEFINE m == Msg("seed", session.id, NoSend)
                 g == session.history \o [i \in 1..n |-> m]
      <4>1. m \in Message /\ m.role = "seed" /\ session'.history = g
        BY <3>2, <3>4
      <4> HIDE DEF m
      <4>2. /\ Contract!Extends(g, session.history)
            /\ \A i \in Contract!NewPart(g, session.history) : g[i] = m
        BY ONLY <3>3, <4>1, SeedExtends
      <4> HIDE DEF g
      <4> QED BY ONLY <4>1, <4>2
    <3>6. Contract!log = session.history /\ Contract!log' = session'.history
      BY <2>3 DEF Contract!log
    <3>7. Contract!Continue
      <4>1. session.id # 0
        BY <2>6 DEF SessionSeed, Active
      <4>2. session'.id = session.id /\ session'.tools = session.tools
        BY <3>4
      <4> QED BY ONLY <2>3, <3>6, <4>1, <4>2 DEF Contract!Continue
    <3> QED BY <3>5, <3>6, <3>7 DEF Contract!Seed
  <2>7. CASE SessionClear
    <3>1. /\ session'.history = <<Msg("system", session.id, NoSend)>>
          /\ session'.id = session.id /\ session'.tools = session.tools /\ session.id # 0
      BY <2>7 DEF SessionClear, Session, Active
    <3>2. Contract!SystemOnly(session'.history)
      BY <3>1 DEF Contract!SystemOnly, Msg
    <3>3. Contract!log' = session'.history
      BY <2>3 DEF Contract!log
    <3>4. Contract!Continue
      BY <2>3, <3>1, <3>3 DEF Contract!Continue
    <3> QED BY <3>2, <3>3, <3>4 DEF Contract!Clear
  <2>8. CASE DestroyTake
    <3>1. session' = NoSession
      BY <2>8 DEF DestroyTake
    <3>2. CASE Active
      BY <2>3, <3>1, <3>2 DEF Contract!Close, Contract!Closed, NoSession, Active
    <3>3. CASE ~Active
      BY <2>3, <3>1, <3>3 DEF ContractInv, HeldTurns
    <3> QED BY <3>2, <3>3
  <2> QED BY <1>2, <2>4, <2>5, <2>6, <2>7, <2>8
<1> QED BY <1>1, <1>2

\* With serial callers, and unless the code behind the guard panics, the session does what
\* Transcript promises, for any sends, seeds and lengths of history.
THEOREM SessionKeepsContract ==
  ASSUME ~LatePanics
  PROVE  SerialSpec => KeepsContract
<1> DEFINE AllInv == IInv /\ SerialInv /\ OwnInv /\ ContractInv
<1>1. [SerialNext]_vars => [Next]_vars
  BY DEF SerialNext, Next
<1>2. SerialSpec => Spec
  BY <1>1, PTL DEF SerialSpec, Spec
<1>3. Init => SerialInv /\ OwnInv /\ ContractInv
  <2> SUFFICES ASSUME Init PROVE SerialInv /\ OwnInv /\ ContractInv
    OBVIOUS
  <2>1. SerialInv
    BY DEF Init, SerialInv, InFlight
  <2>2. OwnInv
    BY DEF Init, OwnInv, Active, NoSession, Holding, Guarded, LoopPoints
  <2>3. ContractInv
    BY DEF Init, ContractInv, HeldTurns, NothingLost, NoSession, Active, LoopPoints
  <2> QED BY <2>1, <2>2, <2>3
<1>4. AllInv /\ [SerialNext]_vars => (SerialInv /\ OwnInv /\ ContractInv)'
  <2> SUFFICES ASSUME AllInv, [SerialNext]_vars PROVE (SerialInv /\ OwnInv /\ ContractInv)'
    OBVIOUS
  <2>1. SerialInv'
    BY SerialStep
  <2>2. OwnInv'
    BY OwnSendStep, OwnOtherStep DEF SerialNext
  <2>3. ContractInv'
    BY <1>1, ContractInvStep
  <2> QED BY <2>1, <2>2, <2>3
<1>5. AllInv /\ [SerialNext]_vars => [Contract!Next]_Conversation
  <2> SUFFICES ASSUME AllInv, [SerialNext]_vars PROVE [Contract!Next]_Conversation
    OBVIOUS
  <2>1. ASSUME NEW s \in Sends, SendStep(s) PROVE [Contract!Next]_Conversation
    BY <2>1, ContractSendStep DEF Contract!Next
  <2>2. ASSUME ~\E s \in Sends : SendStep(s) PROVE [Contract!Next]_Conversation
    BY <2>2, ContractOtherStep DEF SerialNext, Contract!Next
  <2> QED BY <2>1, <2>2
<1>6. Init => Contract!Init
  <2> SUFFICES ASSUME Init PROVE Contract!Init
    OBVIOUS
  <2>1. \A s \in Sends : pc[s] \notin Holding
    BY DEF Init, Holding, Guarded, LoopPoints
  <2>2. session = NoSession
    BY DEF Init
  <2> QED BY <2>1, <2>2 DEF Contract!Init, Contract!Closed, Conversation, Holders, NoSession
<1>7. SerialSpec => []AllInv
  BY <1>2, <1>3, <1>4, Invariance, PTL DEF SerialSpec
<1> QED BY <1>5, <1>6, <1>7, PTL DEF SerialSpec, KeepsContract, Contract!Spec

-----------------------------------------------------------------------------
(* The shape of a history, when every call may overlap every other: whole  *)
(* turns, and results that have their calls.                               *)

\* WholeTurns and ResultsPaired of any history h, where ok are the turns that ended well.
StartsWell(h) ==
  \A i \in 1..Len(h) : h[i].turn # NoSend =>
    \/ h[i].role = "user"
    \/ i > 1 /\ (h[i-1].turn = h[i].turn \/ h[i-1].role = "summary")
EndsWell(h, ok) ==
  \A i \in 1..Len(h) : h[i].turn \in ok =>
    h[i].role = "final" \/ (i < Len(h) /\ h[i+1].turn = h[i].turn)
CallsPaired(h, ok) ==
  \A i \in 1..Len(h) : h[i].role = "calls" /\ h[i].turn \in ok => CallsAnswered(h, i)
HaveCalls(h) ==
  \A i \in 1..Len(h) : h[i].turn # NoSend /\ h[i].role \in {"tool", "results"} => HasItsCalls(h, i)
\* Whatever became of its turn, calls without all their results are the end of it.
CutPaired(h) ==
  \A i \in 1..Len(h) : h[i].role = "calls" /\ h[i].turn # NoSend =>
    CallsAnswered(h, i) \/ CutShort(h, i)

AllAnswered(h, s) ==
  \A i \in 1..Len(h) : h[i].role = "calls" /\ h[i].turn = s => CallsAnswered(h, i)

Good(h, ok) == /\ StartsWell(h) /\ EndsWell(h, ok)
               /\ CallsPaired(h, ok) /\ HaveCalls(h) /\ CutPaired(h)

\* Fewer turns that ended well, fewer demands.
LEMMA GoodFor ==
  ASSUME NEW h, NEW a, NEW b, Good(h, a),
         \A i \in 1..Len(h) : h[i].turn \in b => h[i].turn \in a
  PROVE  Good(h, b)
BY DEF Good, EndsWell, CallsPaired

\* What appending a message leaves of the pairs that were there.
LEMMA PairsStay ==
  ASSUME NEW h \in Seq(Message), NEW m \in Message, NEW i \in 1..Len(h)
  PROVE  /\ CallsAnswered(h, i) => CallsAnswered(Append(h, m), i)
         /\ HasItsCalls(h, i) => HasItsCalls(Append(h, m), i)
<1> DEFINE g == Append(h, m)
<1>1. /\ Len(h) \in Nat /\ Len(g) = Len(h) + 1 /\ DOMAIN g = 1..Len(g) /\ DOMAIN h = 1..Len(h)
      /\ \A k \in 1..Len(h) : g[k] = h[k]
  BY LenProperties, AppendProperties
<1> HIDE DEF g
<1>3. ASSUME CallsAnswered(h, i) PROVE CallsAnswered(g, i)
  <2>1. CASE \A k \in 1..h[i].n : /\ i + k \in DOMAIN h
                                  /\ h[i+k].role = "tool" /\ h[i+k].turn = h[i].turn
    BY <1>1, <2>1 DEF CallsAnswered
  <2>2. CASE i + 1 \in DOMAIN h /\ h[i+1].role = "results" /\ h[i+1].turn = h[i].turn
    BY <1>1, <2>2 DEF CallsAnswered
  <2> QED BY <1>3, <2>1, <2>2 DEF CallsAnswered
<1>4. ASSUME HasItsCalls(h, i) PROVE HasItsCalls(g, i)
  <2>1. PICK e \in 1..i-1 :
          /\ \A k \in e+1..i : h[k].role \in {"tool", "results"} /\ h[k].turn = h[i].turn
          /\ \/ h[e].role = "calls" /\ h[e].turn = h[i].turn /\ i - e <= h[e].n
             \/ h[e].role = "summary"
    BY <1>4 DEF HasItsCalls
  <2>2. /\ \A k \in e+1..i : g[k] = h[k]
        /\ g[e] = h[e] /\ g[i] = h[i]
    BY <1>1
  <2> QED BY <2>1, <2>2 DEF HasItsCalls
<1> QED BY <1>3, <1>4 DEF g

\* A message of no turn, or one that goes on with the turn at the end of the history, or
\* begins one, leaves a good history good; a result must have its calls, and the earlier
\* calls of the turn must be answered unless the message is the next result.
LEMMA GoodAppend ==
  ASSUME NEW h \in Seq(Message), NEW m \in Message, NEW ok, Good(h, ok), m.turn \notin ok,
         \/ m.turn = NoSend \/ m.role = "user"
         \/ h # <<>> /\ h[Len(h)].turn = m.turn,
         \/ m.turn = NoSend \/ m.role \notin {"tool", "results"}
         \/ HasItsCalls(Append(h, m), Len(h) + 1),
         \/ m.turn = NoSend \/ m.role = "tool"
         \/ AllAnswered(h, m.turn) \/ AllAnswered(Append(h, m), m.turn)
  PROVE  Good(Append(h, m), ok)
<1> DEFINE g == Append(h, m)
<1>1. /\ Len(h) \in Nat /\ Len(g) = Len(h) + 1 /\ g[Len(h) + 1] = m
      /\ \A k \in 1..Len(h) : g[k] = h[k]
      /\ h # <<>> => Len(h) > 0
  BY LenProperties, AppendProperties, EmptySeq
<1>2. \A i \in 1..Len(h) : /\ CallsAnswered(h, i) => CallsAnswered(g, i)
                           /\ HasItsCalls(h, i) => HasItsCalls(g, i)
  BY PairsStay
<1> HIDE DEF g
<1>3. StartsWell(g)
  BY <1>1 DEF Good, StartsWell
<1>4. EndsWell(g, ok)
  BY <1>1 DEF Good, EndsWell
<1>5. CallsPaired(g, ok)
  BY <1>1, <1>2 DEF Good, CallsPaired
<1>6. HaveCalls(g)
  <2>1. m.turn # NoSend /\ m.role \in {"tool", "results"} => HasItsCalls(g, Len(h) + 1)
    BY DEF g
  <2> QED BY <1>1, <1>2, <2>1 DEF Good, HaveCalls
<1>7. CutPaired(g)
  <2> SUFFICES ASSUME NEW i \in 1..Len(g), g[i].role = "calls", g[i].turn # NoSend
               PROVE  CallsAnswered(g, i) \/ CutShort(g, i)
    BY DEF CutPaired
  <2>1. CASE i = Len(h) + 1
    BY <1>1, <2>1 DEF CutShort
  <2>2. CASE i # Len(h) + 1
    <3>1. i \in 1..Len(h) /\ g[i] = h[i]
      BY <1>1, <2>2
    <3>2. CASE CallsAnswered(h, i)
      BY <1>2, <3>1, <3>2
    <3>3. CASE m.turn = h[i].turn /\ m.role # "tool"
      <4>1. m.turn # NoSend
        BY <3>1, <3>3
      <4>2. AllAnswered(h, m.turn) \/ AllAnswered(g, m.turn)
        BY <3>3, <4>1 DEF g
      <4>3. CASE AllAnswered(h, m.turn)
        BY <1>2, <3>1, <3>3, <4>3 DEF AllAnswered
      <4>4. CASE AllAnswered(g, m.turn)
        BY <3>1, <3>3, <4>4 DEF AllAnswered
      <4> QED BY <4>2, <4>3, <4>4
    <3>4. CASE CutShort(h, i) /\ (m.turn = h[i].turn => m.role = "tool")
      <4> SUFFICES ASSUME NEW j \in i+1..Len(g), g[j].turn = g[i].turn
                   PROVE  g[j].role = "tool"
        BY DEF CutShort
      <4>1. CASE j = Len(h) + 1
        BY <1>1, <3>1, <3>4, <4>1
      <4>2. CASE j # Len(h) + 1
        <5>1. j \in i+1..Len(h) /\ g[j] = h[j]
          BY <1>1, <3>1, <4>2
        <5> QED BY <3>1, <3>4, <5>1 DEF CutShort
      <4> QED BY <4>1, <4>2
    <3> QED BY <3>1, <3>2, <3>3, <3>4 DEF Good, CutPaired
  <2> QED BY <2>1, <2>2
<1> QED BY <1>3, <1>4, <1>5, <1>6, <1>7 DEF Good, g

\* The answer at its end makes a turn one that ended well, if its messages are together
\* and its calls are answered.
LEMMA GoodFinish ==
  ASSUME NEW h, NEW ok, NEW s, Good(h, ok), Len(h) \in Nat, h[Len(h)].role = "final",
         NEW b \in Nat,
         \A i \in 1..Len(h) : h[i].turn = s => i > b,
         \A i \in b+1..Len(h) : h[i].turn = s,
         \A i \in 1..Len(h) : h[i].role = "calls" /\ h[i].turn = s => CallsAnswered(h, i)
  PROVE  Good(h, ok \cup {s})
<1>1. EndsWell(h, ok \cup {s})
  BY DEF Good, EndsWell
<1>2. CallsPaired(h, ok \cup {s})
  BY DEF Good, CallsPaired
<1> QED BY <1>1, <1>2 DEF Good

\* An empty history, and one with a message of no turn.
LEMMA GoodNew ==
  ASSUME NEW ok, NoSend \notin ok
  PROVE  /\ Good(<<>>, ok)
         /\ \A m \in Message : m.turn = NoSend => Good(<<m>>, ok)
<1>1. Good(<<>>, ok)
  BY DEF Good, StartsWell, EndsWell, CallsPaired, HaveCalls, CutPaired
<1>2. ASSUME NEW m \in Message, m.turn = NoSend PROVE Good(<<m>>, ok)
  <2>1. Len(<<m>>) = 1 /\ <<m>>[1] = m
    OBVIOUS
  <2> QED BY <1>2, <2>1 DEF Good, StartsWell, EndsWell, CallsPaired, HaveCalls, CutPaired
<1> QED BY <1>1, <1>2

\* Messages of no turn may follow.
LEMMA GoodConcat ==
  ASSUME NEW h \in Seq(Message), NEW q \in Seq(Message), NEW ok, Good(h, ok), NoSend \notin ok,
         \A i \in 1..Len(q) : q[i].turn = NoSend
  PROVE  Good(h \o q, ok)
<1> DEFINE g == h \o q
<1>1. /\ Len(h) \in Nat /\ Len(q) \in Nat /\ Len(g) = Len(h) + Len(q)
      /\ DOMAIN g = 1..Len(g) /\ DOMAIN h = 1..Len(h)
      /\ \A k \in 1..Len(g) : g[k] = IF k <= Len(h) THEN h[k] ELSE q[k - Len(h)]
  BY LenProperties, ConcatProperties
<1> HIDE DEF g
<1>2. /\ \A k \in 1..Len(h) : g[k] = h[k] /\ k \in 1..Len(g)
      /\ \A k \in 1..Len(g) : k \notin 1..Len(h) => g[k].turn = NoSend
  BY <1>1
<1>3. StartsWell(g)
  BY <1>1, <1>2 DEF Good, StartsWell
<1>4. EndsWell(g, ok)
  BY <1>1, <1>2 DEF Good, EndsWell
<1>5. ASSUME NEW i \in 1..Len(h), CallsAnswered(h, i) PROVE CallsAnswered(g, i)
  <2>1. g[i] = h[i]
    BY <1>2
  <2>2. CASE \A k \in 1..h[i].n : /\ i + k \in DOMAIN h
                                  /\ h[i+k].role = "tool" /\ h[i+k].turn = h[i].turn
    BY <1>1, <1>2, <2>1, <2>2 DEF CallsAnswered
  <2>3. CASE i + 1 \in DOMAIN h /\ h[i+1].role = "results" /\ h[i+1].turn = h[i].turn
    BY <1>1, <1>2, <2>1, <2>3 DEF CallsAnswered
  <2> QED BY <1>5, <2>2, <2>3 DEF CallsAnswered
<1>6. CallsPaired(g, ok)
  BY <1>5, <1>2 DEF Good, CallsPaired
<1>7. CutPaired(g)
  <2> SUFFICES ASSUME NEW i \in 1..Len(g), g[i].role = "calls", g[i].turn # NoSend,
                      ~CallsAnswered(g, i),
                      NEW j \in i+1..Len(g), g[j].turn = g[i].turn
               PROVE  g[j].role = "tool"
    BY DEF CutPaired, CutShort
  <2>1. i \in 1..Len(h) /\ g[i] = h[i] /\ j \in i+1..Len(h) /\ g[j] = h[j]
    BY <1>1, <1>2
  <2> QED BY <1>5, <2>1 DEF Good, CutPaired, CutShort
<1>8. HaveCalls(g)
  <2> SUFFICES ASSUME NEW i \in 1..Len(g), g[i].turn # NoSend, g[i].role \in {"tool", "results"}
               PROVE  HasItsCalls(g, i)
    BY DEF HaveCalls
  <2>1. i \in 1..Len(h) /\ g[i] = h[i]
    BY <1>2
  <2>2. HasItsCalls(h, i)
    BY <2>1 DEF Good, HaveCalls
  <2>3. PICK e \in 1..i-1 :
          /\ \A k \in e+1..i : h[k].role \in {"tool", "results"} /\ h[k].turn = h[i].turn
          /\ \/ h[e].role = "calls" /\ h[e].turn = h[i].turn /\ i - e <= h[e].n
             \/ h[e].role = "summary"
    BY <2>2 DEF HasItsCalls
  <2>4. g[e] = h[e] /\ \A k \in e+1..i : g[k] = h[k]
    BY <1>1, <1>2, <2>1
  <2> QED BY <2>1, <2>3, <2>4 DEF HasItsCalls
<1> QED BY <1>3, <1>4, <1>6, <1>7, <1>8 DEF Good, g

\* What a compaction that does something leaves: the system prompt if there is one, the
\* summary at p, and the newest messages, which stood o places further right.
LEMMA CompactIndex ==
  ASSUME NEW ses \in 0..MaxSessions, NEW h \in Seq(Message), Compact(h, ses) # h
  PROVE  LET c == Compact(h, ses)
         IN  \E p \in {1, 2}, o \in Int :
               /\ c \in Seq(Message) /\ p + o > 0 /\ Len(c) = Len(h) - o
               /\ c[p].turn = NoSend /\ c[p].role = "summary"
               /\ p = 2 => c[1] = h[1] /\ h[1].role = "system"
               /\ p <= Len(c) /\ \A i \in p+1..Len(c) : c[i] = h[i+o]
<1> DEFINE m == Msg("summary", ses, NoSend)
           start == IF h # <<>> /\ h[1].role = "system" THEN 1 ELSE 0
           count == Len(h) - start
           kept  == IF KeepRecent < count THEN KeepRecent ELSE count
           front == SubSeq(h, 1, start)
           d == Len(h) - kept
           tail == SubSeq(h, d + 1, Len(h))
           head == front \o <<m>>
           p == start + 1
<1>1. /\ Len(h) \in Nat /\ KeepRecent \in Nat /\ (h # <<>> => Len(h) > 0)
      /\ \A i \in 1..Len(h) : h[i] \in Message
  BY EmptySeq, LenProperties, ElementOfSeq, BoundsAssumption
<1>2. kept # count /\ Compact(h, ses) = front \o <<m>> \o tail
  BY DEF Compact
<1>3. /\ start \in {0, 1} /\ kept \in Nat /\ kept < count /\ d \in 1..Len(h) /\ start <= Len(h)
      /\ start = 1 => h[1].role = "system"
      /\ Len(h) - d = kept
  <2>1. start \in {0, 1} /\ (start = 1 => h # <<>> /\ h[1].role = "system")
    OBVIOUS
  <2> HIDE DEF start
  <2>2. start <= Len(h) /\ count \in Nat /\ count <= Len(h)
    BY <1>1, <2>1
  <2> HIDE DEF count
  <2>3. kept \in Nat /\ kept < count
    BY <1>1, <1>2, <2>2
  <2> HIDE DEF kept
  <2>4. d \in 1..Len(h) /\ Len(h) - d = kept
    BY <1>1, <2>2, <2>3
  <2> QED BY <2>1, <2>2, <2>3, <2>4
<1>4. m \in Message /\ m.role = "summary" /\ m.turn = NoSend
  BY MsgType DEF Roles, Msg
<1> HIDE DEF m, kept, start
<1>5. front \in Seq(Message) /\ Len(front) = start /\ (start = 1 => front[1] = h[1])
  <2>1. \A i \in 1..start : h[i] \in Message
    BY <1>1, <1>3
  <2>2. /\ front \in Seq(Message)
        /\ Len(front) = IF 1 <= start THEN start - 1 + 1 ELSE 0
        /\ \A i \in 1..start-1+1 : front[i] = h[1+i-1]
    BY <1>3, <2>1, SubSeqProperties
  <2> QED BY <1>3, <2>2
<1>6. /\ tail \in Seq(Message) /\ Len(tail) = kept
      /\ \A i \in 1..kept : tail[i] = h[d+i]
  <2> HIDE DEF d
  <2>1. \A i \in d+1..Len(h) : h[i] \in Message
    BY <1>1, <1>3
  <2>2. /\ tail \in Seq(Message)
        /\ Len(tail) = IF d + 1 <= Len(h) THEN Len(h) - (d + 1) + 1 ELSE 0
        /\ \A i \in 1..Len(h)-(d+1)+1 : tail[i] = h[d+1+i-1]
    BY <1>1, <1>3, <2>1, SubSeqProperties
  <2> QED BY <1>1, <1>3, <2>2
<1> HIDE DEF front, tail, d
<1>7. /\ head \in Seq(Message) /\ Len(head) = p /\ head[p] = m
      /\ start = 1 => head[1] = h[1]
  <2>1. <<m>> \in Seq(Message) /\ Len(<<m>>) = 1 /\ <<m>>[1] = m
    BY <1>4
  <2> HIDE DEF head
  <2>2. /\ head \in Seq(Message) /\ Len(head) = Len(front) + Len(<<m>>)
        /\ \A i \in 1..Len(front) + Len(<<m>>) :
             head[i] = IF i <= Len(front) THEN front[i] ELSE <<m>>[i - Len(front)]
    BY <1>5, <2>1, ConcatProperties DEF head
  <2> QED BY <1>3, <1>5, <2>1, <2>2
<1> HIDE DEF head
<1> DEFINE c == head \o tail
<1>8. /\ c \in Seq(Message) /\ Len(c) = p + kept
      /\ \A i \in 1..p + kept : c[i] = IF i <= p THEN head[i] ELSE tail[i - p]
  <2>1. /\ c \in Seq(Message) /\ Len(c) = Len(head) + Len(tail)
        /\ \A i \in 1..Len(head) + Len(tail) :
             c[i] = IF i <= Len(head) THEN head[i] ELSE tail[i - Len(head)]
    BY <1>6, <1>7, ConcatProperties
  <2> HIDE DEF c
  <2> QED BY <1>6, <1>7, <2>1
<1>9. Compact(h, ses) = c
  BY <1>2 DEF head
<1> HIDE DEF c
<1>10. p \in {1, 2} /\ (p = 2 => start = 1) /\ (p = 1 => start = 0)
  BY <1>3
<1> DEFINE o == d - p
<1>11. c[p] = m /\ (p = 2 => c[1] = h[1])
  BY <1>3, <1>7, <1>8, <1>10
<1>12. /\ o \in Int /\ p + o > 0 /\ Len(c) = Len(h) - o
       /\ p <= Len(c)
  <2> HIDE DEF count
  <2>1. /\ d \in Nat /\ d > 0 /\ kept \in Nat /\ Len(h) \in Nat /\ Len(h) - d = kept
        /\ p \in Nat /\ Len(c) = p + kept
    BY <1>1, <1>3, <1>8, <1>10
  <2> HIDE DEF p
  <2> QED BY <2>1
<1>13. \A i \in p+1..Len(c) : c[i] = h[i+o]
  <2> SUFFICES ASSUME NEW i \in p+1..Len(c) PROVE c[i] = h[i+o]
    OBVIOUS
  <2>1. i - p \in 1..kept /\ i \in 1..p + kept /\ ~(i <= p) /\ d + (i - p) = i + o
    BY <1>3, <1>8, <1>10
  <2> HIDE DEF p, o
  <2>2. c[i] = tail[i - p]
    BY <1>8, <2>1
  <2>3. tail[i - p] = h[d + (i - p)]
    BY <1>6, <2>1
  <2> QED BY <2>1, <2>2, <2>3
<1> HIDE DEF p, o
<1> QED BY <1>3, <1>4, <1>8, <1>9, <1>10, <1>11, <1>12, <1>13

\* Compaction may cut a turn, but then a summary comes before what is left of it.
LEMMA GoodCompact ==
  ASSUME NEW ses \in 0..MaxSessions, NEW h \in Seq(Message), NEW ok, Good(h, ok), NoSend \notin ok
  PROVE  Good(Compact(h, ses), ok)
<1> DEFINE c == Compact(h, ses)
<1>1. CASE c = h
  BY <1>1
<1>2. CASE c # h
  <2>1. PICK p \in {1, 2}, o \in Int :
          /\ c \in Seq(Message) /\ p + o > 0 /\ Len(c) = Len(h) - o
          /\ c[p].turn = NoSend /\ c[p].role = "summary"
          /\ p = 2 => c[1] = h[1] /\ h[1].role = "system"
          /\ p <= Len(c) /\ \A i \in p+1..Len(c) : c[i] = h[i+o]
    BY <1>2, CompactIndex
  <2> HIDE DEF c
  <2>2. Len(h) \in Nat /\ Len(c) \in Nat /\ DOMAIN c = 1..Len(c) /\ DOMAIN h = 1..Len(h)
    BY <2>1, LenProperties
  <2>3. p = 2 => c[1].turn = NoSend
    BY <2>1, <2>2 DEF Good, StartsWell
  <2>4. \A i \in 1..Len(c) : c[i].turn # NoSend =>
          i \in p+1..Len(c) /\ i + o \in 1..Len(h) /\ c[i] = h[i+o]
    <3> SUFFICES ASSUME NEW i \in 1..Len(c), c[i].turn # NoSend
                 PROVE  i \in p+1..Len(c) /\ i + o \in 1..Len(h) /\ c[i] = h[i+o]
      OBVIOUS
    <3>1. i # p /\ (p = 2 => i # 1)
      BY <2>1, <2>3
    <3>2. i \in p+1..Len(c) /\ i + o \in 1..Len(h)
      BY <2>1, <2>2, <3>1
    <3> QED BY <2>1, <3>2
  <2>5. StartsWell(c)
    <3> SUFFICES ASSUME NEW i \in 1..Len(c), c[i].turn # NoSend, c[i].role # "user"
                 PROVE  i > 1 /\ (c[i-1].turn = c[i].turn \/ c[i-1].role = "summary")
      BY DEF StartsWell
    <3>1. i \in p+1..Len(c) /\ i + o \in 1..Len(h) /\ c[i] = h[i+o]
      BY <2>4
    <3>2. h[(i+o)-1].turn = h[i+o].turn \/ h[(i+o)-1].role = "summary"
      BY <3>1 DEF Good, StartsWell
    <3>3. CASE i - 1 = p
      BY <2>1, <3>1, <3>3
    <3>4. CASE i - 1 # p
      <4>1. i - 1 \in p+1..Len(c) /\ (i - 1) + o = (i+o)-1 /\ i > 1
        BY <2>2, <3>1, <3>4
      <4>2. c[i-1] = h[(i-1)+o]
        BY <2>1, <4>1
      <4> QED BY <3>1, <3>2, <4>1, <4>2
    <3> QED BY <3>3, <3>4
  <2>6. EndsWell(c, ok)
    <3> SUFFICES ASSUME NEW i \in 1..Len(c), c[i].turn \in ok, c[i].role # "final"
                 PROVE  i < Len(c) /\ c[i+1].turn = c[i].turn
      BY DEF EndsWell
    <3>1. i \in p+1..Len(c) /\ i + o \in 1..Len(h) /\ c[i] = h[i+o]
      BY <2>4
    <3>2. i + o < Len(h) /\ h[(i+o)+1].turn = h[i+o].turn
      BY <3>1 DEF Good, EndsWell
    <3>3. i + 1 \in p+1..Len(c) /\ (i + 1) + o = (i+o)+1 /\ i < Len(c)
      BY <2>1, <2>2, <3>1, <3>2
    <3>4. c[i+1] = h[(i+1)+o]
      BY <2>1, <3>3
    <3> QED BY <3>1, <3>2, <3>3, <3>4
  <2>7. \A i \in 1..Len(c) : c[i].turn # NoSend => \A k \in Nat \ {0} :
          (i + o) + k \in DOMAIN h <=> i + k \in DOMAIN c
    BY <2>1, <2>2, <2>4
  <2>8. \A i \in 1..Len(c) : c[i].turn # NoSend => \A k \in Nat \ {0} :
           i + k \in DOMAIN c => c[i+k] = h[(i+o)+k]
    <3> SUFFICES ASSUME NEW i \in 1..Len(c), c[i].turn # NoSend, NEW k \in Nat \ {0},
                        i + k \in DOMAIN c
                 PROVE  c[i+k] = h[(i+o)+k]
      OBVIOUS
    <3>1. i + k \in p+1..Len(c) /\ (i + k) + o = (i + o) + k
      BY <2>2, <2>4
    <3>2. c[i+k] = h[(i+k)+o]
      BY <2>1, <3>1
    <3> QED BY <3>1, <3>2
  <2>9. ASSUME NEW i \in 1..Len(c), c[i].turn # NoSend, CallsAnswered(h, i + o)
         PROVE  CallsAnswered(c, i)
    <3> DEFINE j == i + o
    <3>1. c[i] = h[j] /\ j \in 1..Len(h)
      BY <2>4, <2>9
    <3>2. \A k \in Nat \ {0} : j + k \in DOMAIN h => i + k \in DOMAIN c /\ c[i+k] = h[j+k]
      BY <2>7, <2>8, <2>9
    <3>3. CallsAnswered(h, j)
      BY <2>9
    <3> HIDE DEF j
    <3>4. CASE \A k \in 1..h[j].n : /\ j + k \in DOMAIN h
                                    /\ h[j+k].role = "tool" /\ h[j+k].turn = h[j].turn
      <4>1. \A k \in 1..c[i].n : /\ i + k \in DOMAIN c
                                 /\ c[i+k].role = "tool" /\ c[i+k].turn = c[i].turn
        <5> SUFFICES ASSUME NEW k \in 1..h[j].n
                     PROVE  /\ i + k \in DOMAIN c
                            /\ c[i+k].role = "tool" /\ c[i+k].turn = c[i].turn
          BY <3>1
        <5>1. k \in Nat \ {0}
          OBVIOUS
        <5> QED BY <3>1, <3>2, <3>4, <5>1
      <4> QED BY <4>1 DEF CallsAnswered
    <3>5. CASE j + 1 \in DOMAIN h /\ h[j+1].role = "results" /\ h[j+1].turn = h[j].turn
      BY <3>1, <3>2, <3>5 DEF CallsAnswered
    <3> QED BY <3>3, <3>4, <3>5 DEF CallsAnswered
  <2>10. CallsPaired(c, ok)
    BY <2>4, <2>9 DEF Good, CallsPaired
  <2>11. CutPaired(c)
    <3> SUFFICES ASSUME NEW i \in 1..Len(c), c[i].role = "calls", c[i].turn # NoSend,
                        ~CallsAnswered(c, i),
                        NEW j \in i+1..Len(c), c[j].turn = c[i].turn
                 PROVE  c[j].role = "tool"
      BY DEF CutPaired, CutShort
    <3>1. /\ i + o \in 1..Len(h) /\ c[i] = h[i+o]
          /\ j + o \in (i+o)+1..Len(h) /\ c[j] = h[j+o]
      BY <2>2, <2>4
    <3>2. CutShort(h, i + o)
      BY <2>9, <3>1 DEF Good, CutPaired
    <3> QED BY <3>1, <3>2 DEF CutShort
  <2>12. HaveCalls(c)
    <3> SUFFICES ASSUME NEW i \in 1..Len(c), c[i].turn # NoSend, c[i].role \in {"tool", "results"}
                 PROVE  HasItsCalls(c, i)
      BY DEF HaveCalls
    <3> DEFINE j == i + o
    <3>1. i \in p+1..Len(c) /\ j \in 1..Len(h) /\ c[i] = h[j]
      BY <2>4
    <3>2. HasItsCalls(h, j)
      BY <3>1 DEF Good, HaveCalls
    <3>3. PICK e \in 1..j-1 :
            /\ \A k \in e+1..j : h[k].role \in {"tool", "results"} /\ h[k].turn = h[j].turn
            /\ \/ h[e].role = "calls" /\ h[e].turn = h[j].turn /\ j - e <= h[e].n
               \/ h[e].role = "summary"
      BY <3>2 DEF HasItsCalls
    <3> DEFINE f == e - o
    <3>4. \A k \in p+1..i : c[k] = h[k+o] /\ (k > f => k + o \in e+1..j)
      <4> SUFFICES ASSUME NEW k \in p+1..i
                   PROVE  c[k] = h[k+o] /\ (k > f => k + o \in e+1..j)
        OBVIOUS
      <4>1. k \in p+1..Len(c) /\ (k > f => k + o \in e+1..j)
        BY <2>2, <3>1
      <4>2. c[k] = h[k+o]
        BY <2>1, <4>1
      <4> QED BY <4>1, <4>2
    <3>5. CASE f > p
      <4>1. f \in p+1..i /\ f \in 1..i-1 /\ f + o = e /\ i - f = j - e
        BY <3>1, <3>3, <3>5
      <4>2. c[f] = h[f+o]
        BY <3>4, <4>1
      <4>3. \A k \in f+1..i : k \in p+1..i /\ k > f
        BY <3>1, <4>1
      <4> HIDE DEF f, j
      <4>4. \A k \in f+1..i : c[k].role \in {"tool", "results"} /\ c[k].turn = c[i].turn
        BY <3>1, <3>3, <3>4, <4>3
      <4>5. \/ c[f].role = "calls" /\ c[f].turn = c[i].turn /\ i - f <= c[f].n
            \/ c[f].role = "summary"
        BY <3>1, <3>3, <4>1, <4>2
      <4> QED BY <4>1, <4>4, <4>5 DEF HasItsCalls
    <3>6. CASE f <= p
      <4>1. p \in 1..i-1 /\ \A k \in p+1..i : k > f
        <5>1. p \in Int /\ p >= 1 /\ i \in Int /\ i >= p + 1 /\ e \in Int /\ o \in Int
          BY <3>1, <3>3
        <5> QED BY <3>6, <5>1
      <4> HIDE DEF f, j
      <4>2. \A k \in p+1..i : c[k].role \in {"tool", "results"} /\ c[k].turn = c[i].turn
        <5> SUFFICES ASSUME NEW k \in p+1..i
                     PROVE  c[k].role \in {"tool", "results"} /\ c[k].turn = c[i].turn
          OBVIOUS
        <5>1. c[k] = h[k+o] /\ k + o \in e+1..j
          BY <3>4, <4>1
        <5>2. h[k+o].role \in {"tool", "results"} /\ h[k+o].turn = h[j].turn
          BY <3>3, <5>1
        <5> QED BY <3>1, <5>1, <5>2
      <4> QED BY <2>1, <4>1, <4>2 DEF HasItsCalls
    <3> QED BY <3>5, <3>6
  <2> QED BY <2>5, <2>6, <2>10, <2>11, <2>12 DEF Good, c
<1> QED BY <1>1, <1>2

-----------------------------------------------------------------------------
(* The shape of what sends hold, and of the conversation they put back.     *)

\* The turns that ended well.
Ok == {t \in Sends : outcome[t] = "ok"}

\* The calls at c are the ones being executed: native results follow one by one, the
\* others come together at the end.
OpenCalls(w, s, c) ==
  LET h == w.history
  IN  /\ h[c].role = "calls" /\ h[c].turn = s /\ h[c].n > 0 /\ w.todo <= h[c].n
      /\ IF w.native
         THEN /\ Len(h) + w.todo = c + h[c].n
              /\ \A k \in c+1..Len(h) : h[k].role = "tool" /\ h[k].turn = s
         ELSE Len(h) = c
      /\ \A i \in 1..Len(h) :
           i # c /\ h[i].role = "calls" /\ h[i].turn = s => CallsAnswered(h, i)

CallsInv(s) ==
  /\ pc[s] \in {"ready", "chatting", "streaming"} => AllAnswered(work[s].history, s)
  /\ pc[s] \in {"tools", "running"} =>
       \E c \in 1..Len(work[s].history) : OpenCalls(work[s], s, c)

\* What a send holds is good, and so is what it would roll back to.
GoodHold(s) ==
  pc[s] \in Holding =>
    /\ Good(work[s].history, Ok)
    /\ outcome[s] # "ok" => Good(Take(work[s].history, work[s].before), Ok)

ShapeInv == Good(session.history, Ok) /\ \A s \in Sends : GoodHold(s) /\ CallsInv(s)

\* A turn ends well at one step only, when its answer has been streamed.
LEMMA OkStep ==
  ASSUME TypeOK, PointInv, NEW s \in Sends, Arrive(s) \/ SendStep(s)
  PROVE  /\ ~StreamDone(s) => Ok' \subseteq Ok
         /\ StreamDone(s) => Ok' = Ok \cup {s} /\ s \notin Ok /\ ~Settled(s)
<1> USE DEF TypeOK, Goto, Return
<1>1. \A x \in Sends : x # s => outcome'[x] = outcome[x]
  BY SendFrame
<1>2. ASSUME ~StreamDone(s), outcome'[s] = "ok" PROVE outcome[s] = "ok"
  BY <1>2 DEF Arrive, SendStep, LocalStep, AwaitedStep,
     FaultStep, SendEnter, SendRejected, InstallToken, SendWithoutSession, TakeState,
     BeginRound, RoundsExhausted, LoopCancelled, StartTool, ToolsDone, PutBack,
     ClearToken, BeginTurn, ProviderUnavailable, ProviderFails, ProviderAnswers,
     ProviderCallsTools, ToolResult, CompactHistory, RuntimeUnavailable, PanicUnwind,
     PanicAfterTake, RestoreByDrop, LeaveLoop
<1>3. ASSUME StreamDone(s) PROVE outcome'[s] = "ok" /\ outcome[s] = "none"
  BY <1>3 DEF StreamDone, LeaveLoop, PointInv, Guarded, LoopPoints
<1> QED BY <1>1, <1>2, <1>3 DEF Ok, Settled

\* So a good history stays good, if it holds messages of the turn that steps only if that
\* turn is settled.
LEMMA GoodStays ==
  ASSUME TypeOK, PointInv, NEW s \in Sends, Arrive(s) \/ SendStep(s), NEW h, Good(h, Ok),
         \A i \in 1..Len(h) : h[i].turn = s => Settled(s)
  PROVE  Good(h, Ok')
BY OkStep, GoodFor

\* Which holds of what is public, and of what the other sends hold.
LEMMA OthersTurns ==
  ASSUME NEW s \in Sends
  PROVE  /\ \A h \in Seq(Public) : \A i \in 1..Len(h) : h[i].turn = s => Settled(s)
         /\ \A x \in Sends : x # s =>
              \A h \in Seq(Private(x)) : \A i \in 1..Len(h) : h[i].turn = s => Settled(s)
<1>1. ASSUME NEW h \in Seq(Public), NEW i \in 1..Len(h), h[i].turn = s PROVE Settled(s)
  <2>1. h[i] \in Public
    BY ElementOfSeq
  <2> QED BY <1>1, <2>1, SendsAssumption DEF Public
<1>2. ASSUME NEW x \in Sends, x # s, NEW h \in Seq(Private(x)), NEW i \in 1..Len(h), h[i].turn = s
      PROVE  Settled(s)
  <2>1. h[i] \in Private(x)
    BY ElementOfSeq
  <2> QED BY <1>2, <2>1, SendsAssumption DEF Private
<1> QED BY <1>1, <1>2

\* What the steps that deal with tools record.
LEMMA ToolSteps ==
  ASSUME TypeOK, NEW s \in Sends
  PROVE  /\ ProviderCallsTools(s) => \E n \in 1..MaxCalls, m \in Message :
              /\ m.role = "calls" /\ m.turn = s /\ m.n = n
              /\ work'[s].history = Append(work[s].history, m) /\ work'[s].todo = n
         /\ ToolResult(s) =>
              /\ work'[s].todo = work[s].todo - 1 /\ work'[s].native = work[s].native
              /\ ~work[s].native => work'[s].history = work[s].history
              /\ work[s].native => \E m \in Message :
                   m.role = "tool" /\ m.turn = s /\ work'[s].history = Append(work[s].history, m)
         /\ ToolsDone(s) =>
              /\ work[s].native => work'[s].history = work[s].history
              /\ ~work[s].native => \E m \in Message :
                   m.role = "results" /\ m.turn = s /\ work'[s].history = Append(work[s].history, m)
<1> DEFINE w == work[s]
<1> USE DEF TypeOK
<1>1. w \in Work /\ w.ses \in 0..MaxSessions
  BY DEF Work
<1>2. \A role \in Roles : /\ Msg(role, w.ses, s) \in Message
                          /\ Msg(role, w.ses, s).role = role /\ Msg(role, w.ses, s).turn = s
  BY <1>1, MsgType DEF Msg
<1>3. CASE ProviderCallsTools(s)
  <2>1. PICK n \in 1..MaxCalls :
          work' = [work EXCEPT ![s] =
                     [w EXCEPT !.history = Append(@, [Msg("calls", w.ses, s) EXCEPT !.n = n]),
                               !.todo = n]]
    BY <1>3 DEF ProviderCallsTools, TurnMsg
  <2> DEFINE m == [Msg("calls", w.ses, s) EXCEPT !.n = n]
  <2>2. work'[s] = [w EXCEPT !.history = Append(@, m), !.todo = n]
    BY <2>1
  <2>3. n \in 0..MaxCalls
    BY Bounds
  <2>4. m \in Message /\ m.role = "calls" /\ m.turn = s /\ m.n = n
    BY <1>1, <2>3, MsgType DEF Roles, Msg
  <2> HIDE DEF m
  <2>5. work'[s].history = Append(w.history, m) /\ work'[s].todo = n
    BY <1>1, <2>2 DEF Work
  <2>6. ~ToolResult(s) /\ ~ToolsDone(s)
    BY <1>3 DEF ProviderCallsTools, ToolResult, ToolsDone
  <2> QED BY <2>4, <2>5, <2>6
<1>4. CASE ToolResult(s)
  <2> DEFINE m == Msg("tool", w.ses, s)
  <2>1. m \in Message /\ m.role = "tool" /\ m.turn = s
    BY <1>2 DEF Roles
  <2>2. work'[s] = [w EXCEPT !.todo = @ - 1,
                             !.history = IF w.native THEN Append(@, m) ELSE @]
    BY <1>4 DEF ToolResult, TurnMsg
  <2> HIDE DEF m
  <2>3. /\ work'[s].todo = w.todo - 1 /\ work'[s].native = w.native
        /\ work'[s].history = IF w.native THEN Append(w.history, m) ELSE w.history
    BY <1>1, <2>2 DEF Work
  <2>4. ~ProviderCallsTools(s) /\ ~ToolsDone(s)
    BY <1>4 DEF ProviderCallsTools, ToolResult, ToolsDone
  <2> QED BY <2>1, <2>3, <2>4
<1>5. CASE ToolsDone(s)
  <2> DEFINE m == Msg("results", w.ses, s)
  <2>1. m \in Message /\ m.role = "results" /\ m.turn = s
    BY <1>2 DEF Roles
  <2>2. work'[s] = [w EXCEPT !.history = IF w.native THEN @ ELSE Append(@, m)]
    BY <1>5 DEF ToolsDone, TurnMsg
  <2> HIDE DEF m
  <2>3. work'[s].history = IF w.native THEN w.history ELSE Append(w.history, m)
    BY <1>1, <2>2 DEF Work
  <2>4. ~ProviderCallsTools(s) /\ ~ToolResult(s)
    BY <1>5 DEF ProviderCallsTools, ToolResult, ToolsDone
  <2> QED BY <2>1, <2>3, <2>4
<1> QED BY <1>3, <1>4, <1>5

\* Answered calls stay answered when anything but calls is appended.
LEMMA StillAnswered ==
  ASSUME NEW h \in Seq(Message), NEW m \in Message, NEW s, AllAnswered(h, s), m.role # "calls"
  PROVE  AllAnswered(Append(h, m), s)
<1> DEFINE g == Append(h, m)
<1>1. /\ Len(h) \in Nat /\ Len(g) = Len(h) + 1 /\ g[Len(h) + 1] = m
      /\ \A k \in 1..Len(h) : g[k] = h[k]
  BY LenProperties, AppendProperties
<1>2. \A i \in 1..Len(h) : CallsAnswered(h, i) => CallsAnswered(g, i)
  BY PairsStay
<1> HIDE DEF g
<1>3. AllAnswered(g, s)
  BY <1>1, <1>2 DEF AllAnswered
<1> QED BY <1>3 DEF g

\* The calls just recorded are the open ones.
LEMMA CallsOpened ==
  ASSUME NEW h \in Seq(Message), NEW m \in Message, NEW s, NEW v, NEW n \in Nat \ {0},
         AllAnswered(h, s), m.role = "calls", m.turn = s, m.n = n,
         v.history = Append(h, m), v.todo = n, v.native \in BOOLEAN
  PROVE  \E c \in 1..Len(v.history) : OpenCalls(v, s, c)
<1> DEFINE g == Append(h, m)
           c == Len(h) + 1
<1>1. /\ Len(h) \in Nat /\ Len(g) = c /\ g[c] = m
      /\ \A k \in 1..Len(h) : g[k] = h[k]
  BY LenProperties, AppendProperties
<1>2. \A i \in 1..Len(h) : CallsAnswered(h, i) => CallsAnswered(g, i)
  BY PairsStay
<1>3. v.history = g
  OBVIOUS
<1> HIDE DEF g
<1>4. OpenCalls(v, s, c)
  BY <1>1, <1>2, <1>3 DEF OpenCalls, AllAnswered
<1> QED BY <1>1, <1>3, <1>4

\* One message more, one call less: the results that are due end where they did.
LEMMA OneLess ==
  ASSUME NEW l \in Int, NEW t \in Int, NEW c \in Int, NEW n \in Int, t <= n, l + t = c + n
  PROVE  (l + 1) + (t - 1) = c + n /\ t - 1 <= n
OBVIOUS

\* A native result follows the open calls, and there is one less to come.
LEMMA NativeResult ==
  ASSUME NEW w, NEW v, NEW s, NEW m \in Message, NEW c \in 1..Len(w.history),
         w.history \in Seq(Message), w.todo \in Nat \ {0}, w.native,
         OpenCalls(w, s, c), m.role = "tool", m.turn = s,
         v.history = Append(w.history, m), v.todo = w.todo - 1, v.native = w.native
  PROVE  /\ c \in 1..Len(v.history) /\ OpenCalls(v, s, c)
         /\ HasItsCalls(v.history, Len(w.history) + 1)
<1> DEFINE h == w.history
           g == v.history
<1>1. /\ Len(h) \in Nat /\ Len(g) = Len(h) + 1 /\ g[Len(h) + 1] = m
      /\ \A k \in 1..Len(h) : g[k] = h[k]
  BY LenProperties, AppendProperties
<1>2. \A i \in 1..Len(h) : CallsAnswered(h, i) => CallsAnswered(g, i)
  BY PairsStay
<1>3. /\ h[c].role = "calls" /\ h[c].turn = s /\ h[c].n > 0 /\ w.todo <= h[c].n
      /\ Len(h) + w.todo = c + h[c].n
      /\ \A k \in c+1..Len(h) : h[k].role = "tool" /\ h[k].turn = s
      /\ \A i \in 1..Len(h) :
           i # c /\ h[i].role = "calls" /\ h[i].turn = s => CallsAnswered(h, i)
      /\ h[c].n \in Int
  <2>1. h[c] \in Message
    BY ElementOfSeq
  <2>2. h[c].n \in Int
    <3>1. h[c].n \in 0..MaxCalls
      BY ONLY <2>1 DEF Message
    <3> QED BY ONLY <3>1
  <2>3. OpenCalls(w, s, c) /\ w.native
    OBVIOUS
  <2>4. /\ h[c].role = "calls" /\ h[c].turn = s /\ h[c].n > 0 /\ w.todo <= h[c].n
        /\ \A i \in 1..Len(h) :
             i # c /\ h[i].role = "calls" /\ h[i].turn = s => CallsAnswered(h, i)
    BY ONLY <2>3 DEF OpenCalls, h
  <2>5. /\ Len(h) + w.todo = c + h[c].n
        /\ \A k \in c+1..Len(h) : h[k].role = "tool" /\ h[k].turn = s
    BY ONLY <2>3 DEF OpenCalls, h
  <2> QED BY ONLY <2>2, <2>4, <2>5
<1>0. c \in 1..Len(h)
  OBVIOUS
<1> HIDE DEF g, h
<1>4. \A k \in c+1..Len(g) : g[k].role = "tool" /\ g[k].turn = s
  <2> SUFFICES ASSUME NEW k \in c+1..Len(g) PROVE g[k].role = "tool" /\ g[k].turn = s
    OBVIOUS
  <2>1. CASE k = Len(h) + 1
    BY <1>1, <2>1
  <2>2. CASE k # Len(h) + 1
    <3>1. Len(h) \in Nat /\ c \in Nat /\ c > 0 /\ k \in Int /\ c+1 <= k /\ k <= Len(h)+1
      BY <1>0, <1>1
    <3> HIDE DEF h
    <3>2. k \in c+1..Len(h) /\ k \in 1..Len(h)
      BY <3>1, <2>2
    <3> QED BY <1>1, <1>3, <3>2
  <2> QED BY <2>1, <2>2
<1>5. c \in 1..Len(g) /\ g[c] = h[c]
  BY <1>0, <1>1
<1>6. \A i \in 1..Len(g) : i # c /\ g[i].role = "calls" /\ g[i].turn = s => CallsAnswered(g, i)
  <2> SUFFICES ASSUME NEW i \in 1..Len(g), i # c, g[i].role = "calls", g[i].turn = s
               PROVE  CallsAnswered(g, i)
    OBVIOUS
  <2>1. i # Len(h) + 1
    BY <1>1
  <2>2. i \in 1..Len(h)
    BY <1>1, <2>1
  <2>3. h[i].role = "calls" /\ h[i].turn = s
    BY <1>1, <2>2
  <2> QED BY <1>2, <1>3, <2>2, <2>3
<1>7. Len(g) + v.todo = c + g[c].n /\ v.todo <= g[c].n
  <2>1. Len(h) \in Int /\ w.todo \in Int /\ c \in Int /\ h[c].n \in Int
    BY <1>0, <1>1, <1>3
  <2>2. (Len(h) + 1) + (w.todo - 1) = c + h[c].n /\ w.todo - 1 <= h[c].n
    BY <1>3, <2>1, OneLess
  <2> QED BY <1>1, <1>5, <2>2
<1>8. OpenCalls(v, s, c)
  BY <1>3, <1>4, <1>5, <1>6, <1>7 DEF OpenCalls, g
<1>9. HasItsCalls(g, Len(h) + 1)
  <2>1. c \in 1..(Len(h) + 1)-1 /\ (Len(h) + 1) - c <= g[c].n
    <3>1. Len(h) + w.todo = c + h[c].n /\ w.todo \in Nat \ {0} /\ h[c].n \in Int
      BY <1>3
    <3> DEFINE n == h[c].n
               t == w.todo
               l == Len(h)
    <3>2. l \in Nat /\ c \in 1..l /\ l + t = c + n /\ t \in Nat \ {0} /\ n \in Int
      BY <1>0, <1>1, <3>1
    <3> HIDE DEF n, t, l
    <3>3. c \in 1..(l + 1)-1 /\ (l + 1) - c <= n
      BY ONLY <3>2
    <3> QED BY <1>5, <3>3 DEF l, n
  <2> QED BY <1>1, <1>3, <1>4, <1>5, <2>1 DEF HasItsCalls
<1> QED BY <1>5, <1>8, <1>9 DEF g, h

\* When nothing is left to do, the open calls are answered: the results are there, or they
\* come now, in one message.
LEMMA CallsClosed ==
  ASSUME NEW w, NEW s, NEW c \in 1..Len(w.history),
         w.history \in Seq(Message), w.todo = 0, w.native \in BOOLEAN, OpenCalls(w, s, c)
  PROVE  /\ w.native => AllAnswered(w.history, s)
         /\ ~w.native => \A m \in Message : m.role = "results" /\ m.turn = s =>
              /\ AllAnswered(Append(w.history, m), s)
              /\ HasItsCalls(Append(w.history, m), Len(w.history) + 1)
<1> DEFINE h == w.history
<1>1. Len(h) \in Nat /\ DOMAIN h = 1..Len(h)
  BY LenProperties
<1>2. /\ h[c].role = "calls" /\ h[c].turn = s /\ h[c].n > 0 /\ h[c].n \in Int
      /\ \A i \in 1..Len(h) :
           i # c /\ h[i].role = "calls" /\ h[i].turn = s => CallsAnswered(h, i)
  <2>1. h[c] \in Message
    BY ElementOfSeq
  <2> QED BY <2>1 DEF OpenCalls, Message
<1>3. ASSUME w.native PROVE AllAnswered(h, s)
  <2>1. Len(h) = c + h[c].n /\ \A k \in c+1..Len(h) : h[k].role = "tool" /\ h[k].turn = s
    BY <1>1, <1>2, <1>3 DEF OpenCalls
  <2> HIDE DEF h
  <2>2. \A k \in 1..h[c].n : c + k \in c+1..Len(h) /\ c + k \in DOMAIN h
    BY <1>1, <1>2, <2>1 DEF h
  <2>3. CallsAnswered(h, c)
    BY <1>2, <2>1, <2>2 DEF CallsAnswered
  <2> QED BY <1>2, <2>3 DEF AllAnswered
<1>4. ASSUME ~w.native, NEW m \in Message, m.role = "results", m.turn = s
      PROVE  AllAnswered(Append(h, m), s) /\ HasItsCalls(Append(h, m), Len(h) + 1)
  <2> DEFINE g == Append(h, m)
  <2>1. /\ Len(g) = Len(h) + 1 /\ DOMAIN g = 1..Len(g) /\ g[Len(h) + 1] = m
        /\ \A k \in 1..Len(h) : g[k] = h[k]
    BY LenProperties, AppendProperties
  <2>2. \A i \in 1..Len(h) : CallsAnswered(h, i) => CallsAnswered(g, i)
    BY PairsStay
  <2>3. Len(h) = c
    BY <1>4 DEF OpenCalls
  <2> HIDE DEF g, h
  <2>4. CallsAnswered(g, c)
    BY <1>1, <1>2, <1>4, <2>1, <2>3 DEF CallsAnswered
  <2>5. AllAnswered(g, s)
    BY <1>1, <1>2, <1>4, <2>1, <2>2, <2>4 DEF AllAnswered
  <2>6. HasItsCalls(g, c + 1)
    <3>1. c \in 1..(c+1)-1 /\ (c+1) - c <= g[c].n /\ \A k \in c+1..c+1 : k = c + 1
      BY <1>1, <1>2, <2>1, <2>3
    <3> QED BY <1>1, <1>2, <1>4, <2>1, <2>3, <3>1 DEF HasItsCalls
  <2> QED BY <2>3, <2>5, <2>6 DEF g
<1> QED BY <1>3, <1>4 DEF h

\* Nothing that a send would roll back to is of its own turn.
LEMMA BeforeIsOthers ==
  ASSUME TypeOK, PointInv, NEW s \in Sends, HoldInv(s), pc[s] \in Guarded
  PROVE  \A i \in 1..work[s].before : work[s].history[i].turn # s
<1> DEFINE h == work[s].history
           b == work[s].before
<1>1. /\ h \in Seq(Message) /\ b \in Nat /\ b <= Len(h) /\ Take(h, b) \in Seq(Public)
      /\ Len(h) \in Nat /\ outcome[s] = "none"
  BY LenProperties DEF TypeOK, Work, HoldInv, PointInv, Holding
<1>2. ~Settled(s)
  BY <1>1 DEF Settled
<1> HIDE DEF h, b
<1>3. Take(h, b) = SubSeq(h, 1, b)
  BY <1>1 DEF Take
<1>4. Len(Take(h, b)) = b /\ \A i \in 1..b : Take(h, b)[i] = h[i]
  <2>1. \A i \in 1..b : h[i] \in Message
    BY <1>1, ElementOfSeq
  <2>2. /\ Len(SubSeq(h, 1, b)) = IF 1 <= b THEN b - 1 + 1 ELSE 0
        /\ \A i \in 1..b-1+1 : SubSeq(h, 1, b)[i] = h[1+i-1]
    BY <1>1, <2>1, SubSeqProperties
  <2> QED BY <1>1, <1>3, <2>2
<1>5. \A i \in 1..b : Take(h, b)[i].turn # s
  BY <1>1, <1>2, <1>4, OthersTurns
<1> QED BY <1>4, <1>5 DEF h, b

\* A send that appends to its turn, or begins it, holds a good history.
LEMMA HoldAppend ==
  ASSUME IInv, HeldTurns, NEW s \in Sends, GoodHold(s), pc[s] \in Guarded,
         NEW m \in Message, m.turn = s,
         m.role = "user" \/ pc[s] \in LoopPoints,
         \/ m.role \notin {"tool", "results"}
         \/ HasItsCalls(Append(work[s].history, m), Len(work[s].history) + 1),
         \/ m.role = "tool" \/ AllAnswered(work[s].history, s)
         \/ AllAnswered(Append(work[s].history, m), s)
  PROVE  LET h == Append(work[s].history, m)
         IN  /\ Good(h, Ok) /\ h \in Seq(Message)
             /\ Good(Take(h, work[s].before), Ok)
<1> DEFINE h == work[s].history
           b == work[s].before
<1>1. /\ h \in Seq(Message) /\ b \in Nat /\ b <= Len(h) /\ Len(h) \in Nat
      /\ outcome[s] = "none" /\ Good(h, Ok) /\ Good(Take(h, b), Ok)
  BY LenProperties DEF IInv, TypeOK, Work, TurnInv, HoldInv, PointInv, Holding, GoodHold
<1>2. m.turn \notin Ok
  BY <1>1 DEF Ok
<1>3. pc[s] \in LoopPoints => h # <<>> /\ h[Len(h)].turn = m.turn
  <2>1. ASSUME pc[s] \in LoopPoints PROVE b < Len(h) /\ \A i \in b+1..Len(h) : h[i].turn = s
    BY <2>1 DEF HeldTurns, TurnSoFar
  <2> QED BY <1>1, <2>1, EmptySeq
<1> HIDE DEF h, b
<1>4. Good(Append(h, m), Ok)
  <2>1. m.role = "user" \/ (h # <<>> /\ h[Len(h)].turn = m.turn)
    BY <1>3
  <2>2. m.role \notin {"tool", "results"} \/ HasItsCalls(Append(h, m), Len(h) + 1)
    BY DEF h
  <2>3. m.role = "tool" \/ AllAnswered(h, m.turn) \/ AllAnswered(Append(h, m), m.turn)
    BY DEF h
  <2> QED BY <1>1, <1>2, <2>1, <2>2, <2>3, GoodAppend
<1>5. Take(Append(h, m), b) = Take(h, b)
  BY <1>1, TakeAppend
<1>6. Append(h, m) \in Seq(Message)
  BY <1>1
<1> QED BY <1>1, <1>4, <1>5, <1>6 DEF h, b

\* The steps of the loop, and the one that begins it, keep a good history good.
LEMMA LoopKeepsShape ==
  ASSUME IInv, HeldTurns, NEW s \in Sends, GoodHold(s), CallsInv(s), SendStep(s),
         pc'[s] \in Holding, pc[s] \in Guarded, ~StreamDone(s)
  PROVE  /\ session' = session
         /\ Good(work'[s].history, Ok) /\ Good(Take(work'[s].history, work'[s].before), Ok)
         /\ CallsInv(s)'
<1> DEFINE w == work[s]
           h == work[s].history
           b == work[s].before
<1>1. /\ TypeOK /\ PointInv /\ HoldInv(s)
      /\ w \in Work /\ h \in Seq(Message) /\ b \in Nat /\ b <= Len(h) /\ Len(h) \in Nat
      /\ outcome[s] = "none" /\ Good(h, Ok) /\ Good(Take(h, b), Ok)
  BY LenProperties DEF IInv, TypeOK, Work, TurnInv, HoldInv, PointInv, Holding, GoodHold
<1>2. \/ BeginTurn(s) \/ ProviderUnavailable(s) \/ ProviderCallsTools(s)
      \/ ToolResult(s) \/ ToolsDone(s)
      \/ BeginRound(s) \/ RoundsExhausted(s) \/ LoopCancelled(s) \/ ProviderFails(s)
      \/ ProviderAnswers(s) \/ StartTool(s)
  BY <1>1 DEF SendStep, LocalStep, AwaitedStep, FaultStep, TypeOK, Goto, Return, Holding, Guarded,
     LoopPoints, RestoreByDrop, InstallToken, SendWithoutSession, TakeState, PutBack, ClearToken,
     CompactHistory, RuntimeUnavailable, PanicUnwind, PanicAfterTake
<1>3. /\ session' = session /\ work'[s].before = b
      /\ \/ work'[s].history = h
         \/ \E m \in OfTurn(s) : work'[s].history = Append(h, m)
      /\ BeginTurn(s) => \E m \in OfTurn(s) :
           m.role = "user" /\ work'[s].history = Append(h, m)
  BY <1>1, <1>2, LoopMoves
<1>4. \A m \in OfTurn(s) : m \in Message /\ m.turn = s
  BY DEF OfTurn, OwnMessage
<1> USE DEF TypeOK, Goto, Return
<1>5. CASE BeginTurn(s) \/ ProviderUnavailable(s)
  <2>1. pc[s] = "taken" /\ pc'[s] \in {"ready", "ending"}
    BY <1>1, <1>5 DEF BeginTurn, ProviderUnavailable, LeaveLoop
  <2>2. PICK m \in Message : /\ m.role = "user" /\ m.turn = s
                             /\ work'[s].history = Append(h, m)
    <3>1. CASE BeginTurn(s)
      BY <1>3, <1>4, <3>1
    <3>2. CASE ProviderUnavailable(s)
      <4>1. w.ses \in 0..MaxSessions
        BY <1>1 DEF Work
      <4>2. /\ Msg("user", w.ses, s) \in Message /\ Msg("user", w.ses, s).role = "user"
            /\ Msg("user", w.ses, s).turn = s
        BY <4>1, MsgType DEF Roles, Msg
      <4>3. work'[s].history = Append(h, Msg("user", w.ses, s))
        BY <1>1, <3>2 DEF ProviderUnavailable, Push, TurnMsg, Work
      <4> QED BY <4>2, <4>3
    <3> QED BY <1>5, <3>1, <3>2
  <2>3. b = Len(h)
    BY <1>1, <2>1 DEF HoldInv, Holding, Guarded
  <2>4. AllAnswered(h, s)
    BY <1>1, <2>3, BeforeIsOthers DEF AllAnswered
  <2>5. Good(work'[s].history, Ok) /\ Good(Take(work'[s].history, work'[s].before), Ok)
    BY <1>3, <2>2, <2>4, HoldAppend
  <2>6. AllAnswered(work'[s].history, s)
    BY <1>1, <2>2, <2>4, StillAnswered
  <2>7. CallsInv(s)'
    BY <2>1, <2>6 DEF CallsInv
  <2> QED BY <1>3, <2>5, <2>7
<1>6. CASE ProviderCallsTools(s)
  <2>1. pc[s] = "chatting" /\ pc'[s] = "tools"
    BY <1>1, <1>6 DEF ProviderCallsTools
  <2>2. PICK n \in 1..MaxCalls, m \in Message :
          /\ m.role = "calls" /\ m.turn = s /\ m.n = n
          /\ work'[s].history = Append(h, m) /\ work'[s].todo = n
    BY <1>1, <1>6, ToolSteps
  <2>3. AllAnswered(h, s)
    BY <2>1 DEF CallsInv
  <2>4. Good(work'[s].history, Ok) /\ Good(Take(work'[s].history, work'[s].before), Ok)
    BY <1>3, <2>1, <2>2, <2>3, HoldAppend DEF LoopPoints
  <2>5. work'[s].native \in BOOLEAN /\ n \in Nat \ {0}
    <3>1. work' \in [Sends -> Work]
      BY <1>1, WorkStep
    <3> QED BY <3>1, Bounds DEF Work
  <2>6. \E c \in 1..Len(work'[s].history) : OpenCalls(work'[s], s, c)
    BY <1>1, <2>2, <2>3, <2>5, CallsOpened
  <2> QED BY <1>3, <2>1, <2>4, <2>6 DEF CallsInv
<1>7. CASE ToolResult(s)
  <2>1. pc[s] = "running" /\ pc'[s] = "tools" /\ w.todo \in Nat \ {0}
    BY <1>1, <1>7, Bounds DEF ToolResult, PointInv, Work
  <2>2. PICK c \in 1..Len(h) : OpenCalls(w, s, c)
    BY <2>1 DEF CallsInv
  <2>3. /\ work'[s].todo = w.todo - 1 /\ work'[s].native = w.native
        /\ ~w.native => work'[s].history = h
        /\ w.native => \E m \in Message :
             m.role = "tool" /\ m.turn = s /\ work'[s].history = Append(h, m)
    BY <1>1, <1>7, ToolSteps
  <2>4. CASE w.native
    <3>1. PICK m \in Message : m.role = "tool" /\ m.turn = s /\ work'[s].history = Append(h, m)
      BY <2>3, <2>4
    <3>2. /\ c \in 1..Len(work'[s].history) /\ OpenCalls(work'[s], s, c)
          /\ HasItsCalls(work'[s].history, Len(h) + 1)
      <4>1. w.history \in Seq(Message) /\ c \in 1..Len(w.history)
        BY <1>1, <2>2
      <4>2. /\ w.todo \in Nat \ {0} /\ w.native
            /\ work'[s].todo = w.todo - 1 /\ work'[s].native = w.native
            /\ work'[s].history = Append(w.history, m)
        BY <2>1, <2>3, <2>4, <3>1
      <4>3. OpenCalls(w, s, c) /\ m \in Message /\ m.role = "tool" /\ m.turn = s
        BY <2>2, <3>1
      <4>4. /\ c \in 1..Len(work'[s].history) /\ OpenCalls(work'[s], s, c)
            /\ HasItsCalls(work'[s].history, Len(w.history) + 1)
        BY ONLY <4>1, <4>2, <4>3, NativeResult
      <4> QED BY <4>4
    <3>3. Good(work'[s].history, Ok) /\ Good(Take(work'[s].history, work'[s].before), Ok)
      BY <1>3, <2>1, <3>1, <3>2, HoldAppend DEF LoopPoints
    <3> QED BY <1>3, <2>1, <3>2, <3>3 DEF CallsInv
  <2>5. CASE ~w.native
    <3>1. h[c].n \in Nat
      <4>1. h[c] \in Message
        BY <1>1, ElementOfSeq
      <4> QED BY <4>1, Bounds DEF Message
    <3>2. work'[s].history = h /\ work'[s].native = w.native /\ work'[s].todo <= h[c].n
      BY <2>1, <2>2, <2>3, <2>5, <3>1 DEF OpenCalls
    <3>3. OpenCalls(work'[s], s, c)
      BY <2>2, <2>5, <3>2 DEF OpenCalls
    <3> QED BY <1>1, <1>3, <2>1, <2>3, <2>5, <3>3 DEF CallsInv
  <2> QED BY <2>4, <2>5
<1>8. CASE ToolsDone(s)
  <2>1. pc[s] = "tools" /\ pc'[s] = "ready" /\ w.todo = 0 /\ w.native \in BOOLEAN
    BY <1>1, <1>8 DEF ToolsDone, Work
  <2>2. PICK c \in 1..Len(h) : OpenCalls(w, s, c)
    BY <2>1 DEF CallsInv
  <2>3. /\ w.native => work'[s].history = h
        /\ ~w.native => \E m \in Message :
             m.role = "results" /\ m.turn = s /\ work'[s].history = Append(h, m)
    BY <1>1, <1>8, ToolSteps
  <2>4. /\ w.native => AllAnswered(h, s)
        /\ ~w.native => \A m \in Message : m.role = "results" /\ m.turn = s =>
             AllAnswered(Append(h, m), s) /\ HasItsCalls(Append(h, m), Len(h) + 1)
    BY <1>1, <2>1, <2>2, CallsClosed
  <2>5. CASE w.native
    BY <1>1, <1>3, <2>1, <2>3, <2>4, <2>5 DEF CallsInv
  <2>6. CASE ~w.native
    <3>1. PICK m \in Message : /\ m.role = "results" /\ m.turn = s
                               /\ work'[s].history = Append(h, m)
      BY <2>3, <2>6
    <3>2. Good(work'[s].history, Ok) /\ Good(Take(work'[s].history, work'[s].before), Ok)
      BY <1>3, <2>1, <2>4, <2>6, <3>1, HoldAppend DEF LoopPoints
    <3> QED BY <1>3, <2>1, <2>4, <2>6, <3>1, <3>2 DEF CallsInv
  <2> QED BY <2>5, <2>6
<1>9. CASE \/ BeginRound(s) \/ RoundsExhausted(s) \/ LoopCancelled(s) \/ ProviderFails(s)
           \/ ProviderAnswers(s) \/ StartTool(s)
  <2>1. /\ work'[s].history = h /\ work'[s].todo = w.todo /\ work'[s].native = w.native
    BY <1>1, <1>9 DEF BeginRound, RoundsExhausted, LoopCancelled, ProviderFails,
       ProviderAnswers, StartTool, LeaveLoop, Work
  <2>2. \/ pc'[s] = "ending"
        \/ pc[s] \in {"ready", "chatting"} /\ pc'[s] \in {"chatting", "streaming"}
        \/ pc[s] = "tools" /\ pc'[s] = "running"
    BY <1>1, <1>9 DEF BeginRound, RoundsExhausted, LoopCancelled, ProviderFails,
       ProviderAnswers, StartTool, LeaveLoop
  <2>3. CallsInv(s)'
    BY <2>1, <2>2 DEF CallsInv, OpenCalls
  <2> QED BY <1>1, <1>3, <2>1, <2>3
<1> QED BY <1>2, <1>5, <1>6, <1>7, <1>8, <1>9

\* The answer ends a turn that is whole and whose calls are answered.
LEMMA AnswerKeepsShape ==
  ASSUME IInv, HeldTurns, NEW s \in Sends, GoodHold(s), CallsInv(s), StreamDone(s)
  PROVE  session' = session /\ Good(work'[s].history, Ok \cup {s})
<1> DEFINE h == work[s].history
           b == work[s].before
           g == work'[s].history
<1>1. /\ TypeOK /\ PointInv /\ HoldInv(s) /\ pc[s] = "streaming"
      /\ h \in Seq(Message) /\ b \in Nat /\ Len(h) \in Nat
      /\ b < Len(h) /\ \A i \in b+1..Len(h) : h[i].turn = s
  BY LenProperties DEF IInv, TypeOK, Work, TurnInv, StreamDone, HeldTurns, TurnSoFar, LoopPoints
<1>2. PICK m \in OfTurn(s) : m.role = "final" /\ g = Append(h, m)
  BY <1>1, LoopMoves
<1>3. m \in Message /\ m.turn = s /\ session' = session
  BY <1>1, LoopMoves DEF OfTurn, OwnMessage
<1>4. AllAnswered(h, s)
  BY <1>1 DEF CallsInv
<1>5. Good(g, Ok)
  BY <1>1, <1>2, <1>3, <1>4, HoldAppend DEF Guarded, LoopPoints
<1>6. AllAnswered(g, s)
  BY <1>1, <1>2, <1>3, <1>4, StillAnswered
<1>7. \A i \in 1..b : h[i].turn # s
  BY <1>1, BeforeIsOthers DEF Guarded, LoopPoints
<1>8. /\ Len(g) = Len(h) + 1 /\ g[Len(g)] = m
      /\ \A k \in 1..Len(h) : g[k] = h[k]
  BY <1>1, <1>2, <1>3, AppendProperties
<1> HIDE DEF g, h, b
<1>9. (\A i \in 1..Len(g) : g[i].turn = s => i > b) /\ (\A i \in b+1..Len(g) : g[i].turn = s)
  BY <1>1, <1>3, <1>7, <1>8
<1>10. /\ Len(g) \in Nat /\ g[Len(g)].role = "final"
       /\ \A i \in 1..Len(g) : g[i].role = "calls" /\ g[i].turn = s => CallsAnswered(g, i)
  <2>1. Len(g) \in Nat /\ g[Len(g)].role = "final"
    BY <1>1, <1>2, <1>8
  <2> QED BY <1>6, <2>1 DEF AllAnswered
<1>11. Good(g, Ok \cup {s})
  BY <1>1, <1>5, <1>9, <1>10, GoodFinish
<1> QED BY <1>3, <1>11 DEF g

\* ShapeInv is kept by every step of a send.
LEMMA ShapeSendStep ==
  ASSUME IInv, HeldTurns, ShapeInv, NEW s \in Sends, Arrive(s) \/ SendStep(s)
  PROVE  ShapeInv'
<1> DEFINE w == work[s]
<1>1. /\ TypeOK /\ PointInv /\ TurnInv /\ GoodHold(s) /\ CallsInv(s) /\ HoldInv(s)
      /\ Good(session.history, Ok)
      /\ w \in Work /\ w.history \in Seq(Message) /\ w.before \in Nat /\ w.ses \in 0..MaxSessions
  BY DEF IInv, TypeOK, Work, TurnInv, ShapeInv
<1>2. NoSend \notin Ok /\ NoSend \notin Ok'
  BY SendsAssumption DEF Ok
<1>3. \A x \in Sends : x # s => GoodHold(x)' /\ CallsInv(x)'
  <2> SUFFICES ASSUME NEW x \in Sends, x # s PROVE GoodHold(x)' /\ CallsInv(x)'
    OBVIOUS
  <2>1. pc'[x] = pc[x] /\ outcome'[x] = outcome[x] /\ work'[x] = work[x]
    BY <1>1, SendFrame
  <2>2. GoodHold(x) /\ CallsInv(x) /\ HoldInv(x)
    BY <1>1 DEF ShapeInv, TurnInv
  <2>3. CallsInv(x)'
    BY <2>1, <2>2 DEF CallsInv, AllAnswered, OpenCalls
  <2>4. ASSUME pc[x] \in Holding PROVE Good(work[x].history, Ok')
    BY <1>1, <2>2, <2>4, OthersTurns, GoodStays DEF GoodHold, HoldInv
  <2>5. ASSUME pc[x] \in Holding, outcome[x] # "ok"
        PROVE  Good(Take(work[x].history, work[x].before), Ok')
    BY <1>1, <2>2, <2>5, OthersTurns, GoodStays DEF GoodHold, HoldInv
  <2> QED BY <2>1, <2>3, <2>4, <2>5 DEF GoodHold
<1>4. Good(session.history, Ok')
  BY <1>1, OthersTurns, GoodStays DEF TurnInv
<1>5. /\ ~StreamDone(s) => \A q : Good(q, Ok) => Good(q, Ok')
      /\ StreamDone(s) => Ok' = Ok \cup {s}
  BY <1>1, OkStep, GoodFor
<1> SUFFICES Good(session'.history, Ok') /\ GoodHold(s)' /\ CallsInv(s)'
  BY <1>3 DEF ShapeInv
<1>6. ASSUME NEW q, WriteBack(s, q), Good(q, Ok') PROVE Good(session'.history, Ok')
  BY <1>1, <1>4, <1>6 DEF WriteBack, TypeOK, Session
<1>7. pc'[s] \notin Holding => GoodHold(s)' /\ CallsInv(s)'
  BY DEF GoodHold, CallsInv, Holding, Guarded, LoopPoints
<1> USE DEF Goto, Return
<1>8. CASE StreamDone(s)
  <2>1. pc'[s] = "compacting" /\ outcome'[s] = "ok"
    BY <1>1, <1>8 DEF StreamDone, LeaveLoop, TypeOK
  <2>2. session' = session /\ Good(work'[s].history, Ok')
    BY <1>1, <1>5, <1>8, AnswerKeepsShape
  <2> QED BY <1>4, <2>1, <2>2 DEF GoodHold, CallsInv
<1>9. CASE /\ SendStep(s) /\ pc[s] \in Guarded /\ pc'[s] \in Holding /\ ~StreamDone(s)
  BY <1>1, <1>4, <1>5, <1>9, LoopKeepsShape DEF GoodHold
<1>10. CASE \/ Arrive(s) \/ InstallToken(s) \/ SendWithoutSession(s) \/ PanicAfterTake(s)
            \/ ClearToken(s)
  <2>1. pc'[s] \notin Holding /\ session' = session
    BY <1>1, <1>10 DEF Arrive, SendEnter, SendRejected, InstallToken, SendWithoutSession,
       PanicAfterTake, ClearToken, Holding, Guarded, LoopPoints, TypeOK
  <2> QED BY <1>4, <1>7, <2>1
<1>11. CASE TakeState(s)
  <2>1. /\ session'.history = <<>> /\ pc'[s] = "taken"
        /\ work'[s].history = session.history
        /\ work'[s].before = Len(session.history)
    BY <1>1, <1>11 DEF TakeState, Session, NoWork, TypeOK
  <2>2. Take(session.history, Len(session.history)) = session.history
    <3>1. session.history \in Seq(Message) /\ Len(session.history) \in Nat
      BY <1>1, LenProperties DEF TypeOK, Session
    <3> QED BY <3>1, SubSeqFull DEF Take
  <2>3. Good(<<>>, Ok')
    BY <1>2, GoodNew
  <2> QED BY <1>4, <2>1, <2>2, <2>3 DEF GoodHold, CallsInv
<1>12. CASE RuntimeUnavailable(s) \/ PanicUnwind(s)
  <2>1. pc[s] \in Holding /\ pc'[s] = "done" /\ WriteBack(s, w.history) /\ ~StreamDone(s)
    BY <1>1, <1>12 DEF RuntimeUnavailable, PanicUnwind, RestoreByDrop, Holding, Guarded, TypeOK,
       StreamDone, LeaveLoop
  <2>2. Good(w.history, Ok')
    BY <1>1, <1>5, <2>1 DEF GoodHold
  <2> QED BY <1>6, <1>7, <2>1, <2>2 DEF Holding, Guarded, LoopPoints
<1>13. CASE CompactHistory(s)
  <2>1. /\ pc[s] = "compacting" /\ pc'[s] = "ending" /\ outcome'[s] = "ok" /\ session' = session
        /\ ~StreamDone(s)
    BY <1>1, <1>13 DEF CompactHistory, PointInv, TypeOK, StreamDone
  <2>2. work'[s].history = w.history \/ work'[s].history = Compact(w.history, w.ses)
    BY <1>1, <1>13 DEF CompactHistory, Work, TypeOK
  <2>3. Good(w.history, Ok')
    BY <1>1, <1>5, <2>1 DEF GoodHold, Holding
  <2>4. Good(Compact(w.history, w.ses), Ok')
    BY <1>1, <1>2, <2>3, GoodCompact
  <2> QED BY <1>4, <2>1, <2>2, <2>3, <2>4 DEF GoodHold, CallsInv
<1>14. CASE PutBack(s)
  <2> DEFINE back == IF outcome[s] = "error" THEN Take(w.history, w.before) ELSE w.history
  <2>1. pc[s] = "ending" /\ pc'[s] = "clearing" /\ WriteBack(s, back) /\ ~StreamDone(s)
    BY <1>1, <1>14 DEF PutBack, TypeOK, StreamDone
  <2>2. Good(back, Ok')
    BY <1>1, <1>5, <2>1 DEF GoodHold, Holding
  <2> HIDE DEF back
  <2> QED BY <1>6, <1>7, <2>1, <2>2 DEF Holding, Guarded, LoopPoints
<1>15. CASE \/ BeginTurn(s) \/ ProviderUnavailable(s) \/ ProviderCallsTools(s)
            \/ ToolResult(s) \/ ToolsDone(s)
            \/ BeginRound(s) \/ RoundsExhausted(s) \/ LoopCancelled(s) \/ ProviderFails(s)
            \/ ProviderAnswers(s) \/ StartTool(s)
  <2>1. pc[s] \in Guarded /\ pc'[s] \in Holding
    BY <1>1, <1>15 DEF BeginTurn, ProviderUnavailable, ProviderCallsTools, ToolResult, ToolsDone,
       BeginRound, RoundsExhausted, LoopCancelled, ProviderFails, ProviderAnswers, StartTool,
       CancelPoint, LeaveLoop, Holding, Guarded, LoopPoints, TypeOK
  <2>2. SendStep(s)
    BY <1>15 DEF SendStep, LocalStep, AwaitedStep
  <2> QED BY <1>8, <1>9, <2>1, <2>2
<1> QED BY <1>8, <1>10, <1>11, <1>12, <1>13, <1>14, <1>15
        DEF SendStep, LocalStep, AwaitedStep, FaultStep

\* ShapeInv is kept by every step: prompts and seeds belong to no turn.
LEMMA ShapeStep ==
  ASSUME IInv, HeldTurns, ShapeInv, [Next]_vars
  PROVE  ShapeInv'
<1>1. ASSUME NEW s \in Sends, Arrive(s) \/ SendStep(s) PROVE ShapeInv'
  BY <1>1, ShapeSendStep
<1>2. TypeOK /\ Good(session.history, Ok) /\ NoSend \notin Ok
  BY SendsAssumption DEF IInv, ShapeInv, Ok
<1>3. ASSUME UNCHANGED <<pc, work, outcome>>, Good(session'.history, Ok)
      PROVE  ShapeInv'
  <2>1. Ok' = Ok
    BY <1>3 DEF Ok
  <2> QED BY <1>3, <2>1 DEF ShapeInv, GoodHold, CallsInv, AllAnswered, OpenCalls
<1>4. CASE SessionCancel \/ DestroyCancel \/ UNCHANGED vars
  BY <1>2, <1>3, <1>4 DEF SessionCancel, DestroyCancel, vars
<1>5. ASSUME NEW ses \in 0..MaxSessions, NEW role \in Roles
      PROVE  /\ Msg(role, ses, NoSend) \in Message /\ Msg(role, ses, NoSend).turn = NoSend
             /\ Good(<<Msg(role, ses, NoSend)>>, Ok)
  <2>1. Msg(role, ses, NoSend) \in Message /\ Msg(role, ses, NoSend).turn = NoSend
    BY MsgType DEF Msg
  <2> QED BY <1>2, <2>1, GoodNew
<1>6. CASE SessionStart
  <2>1. session'.history = <<Msg("system", opened + 1, NoSend)>>
    BY <1>6 DEF SessionStart
  <2>2. opened + 1 \in 0..MaxSessions
    BY <1>2, <1>6, Bounds DEF SessionStart, TypeOK
  <2>3. Good(session'.history, Ok)
    BY <1>5, <2>1, <2>2 DEF Roles
  <2> QED BY <1>3, <1>6, <2>3 DEF SessionStart
<1>7. CASE SessionClear
  <2>1. session'.history = <<Msg("system", session.id, NoSend)>>
    BY <1>2, <1>7 DEF SessionClear, TypeOK, Session
  <2>2. session.id \in 0..MaxSessions
    BY <1>2 DEF TypeOK, Session
  <2>3. Good(session'.history, Ok)
    BY <1>5, <2>1, <2>2 DEF Roles
  <2> QED BY <1>3, <1>7, <2>3 DEF SessionClear
<1>8. CASE SessionSeed
  <2> DEFINE m == Msg("seed", session.id, NoSend)
  <2>1. PICK n \in 1..MaxSeed :
          session' = [session EXCEPT !.history = @ \o [i \in 1..n |-> m]]
    BY <1>8 DEF SessionSeed
  <2> DEFINE q == [i \in 1..n |-> m]
  <2>2. session.history \in Seq(Message) /\ session.id \in 0..MaxSessions
    BY <1>2 DEF TypeOK, Session
  <2>3. m \in Message /\ m.turn = NoSend
    BY <1>5, <2>2 DEF Roles
  <2> HIDE DEF m
  <2>4. n \in Nat
    BY BoundsAssumption
  <2>5. q \in Seq(Message) /\ Len(q) = n /\ \A i \in 1..n : q[i] = m
    BY <2>3, <2>4
  <2> HIDE DEF q
  <2>6. Good(session.history \o q, Ok)
    BY <1>2, <2>2, <2>3, <2>5, GoodConcat
  <2>7. session'.history = session.history \o q
    BY <1>2, <2>1 DEF TypeOK, Session, q
  <2> QED BY <1>3, <1>8, <2>6, <2>7 DEF SessionSeed
<1>9. CASE DestroyTake
  <2>1. session'.history = <<>>
    BY <1>9 DEF DestroyTake, NoSession
  <2>2. Good(<<>>, Ok)
    BY <1>2, GoodNew
  <2> QED BY <1>3, <1>9, <2>1, <2>2 DEF DestroyTake
<1> QED BY <1>1, <1>4, <1>6, <1>7, <1>8, <1>9 DEF Next

\* The invariant of the session: IInv, the turns that are held, the shape of every history.
SessionInv == IInv /\ HeldTurns /\ ShapeInv

\* An idle state satisfies it.
LEMMA IdleSession == Idle => SessionInv
<1> SUFFICES ASSUME Idle PROVE HeldTurns /\ ShapeInv
  BY IdleInv DEF SessionInv
<1>1. HeldTurns /\ \A s \in Sends : GoodHold(s) /\ CallsInv(s)
  BY DEF Idle, HeldTurns, GoodHold, CallsInv, Holding, Guarded, LoopPoints
<1>2. Good(session.history, Ok)
  BY SendsAssumption, GoodNew DEF Idle, NoSession, Ok
<1> QED BY <1>1, <1>2 DEF ShapeInv

\* Every step keeps it.
LEMMA SessionStep == SessionInv /\ [Next]_vars => SessionInv'
BY IInvStep, HeldTurnsStep, ShapeStep DEF SessionInv

\* However calls overlap, every history has its shape.
THEOREM ShapeInvariance == Spec => []SessionInv
BY InitIdle, IdleSession, SessionStep, PTL DEF Spec

\* What the shape says of the turns in the conversation.
LEMMA WholeInv == SessionInv => WholeTurns
<1> SUFFICES ASSUME IInv, ShapeInv, NEW i \in TurnMessages(Committed)
             PROVE  /\ Starts(Committed, i) =>
                         \/ Committed[i].role = "user"
                         \/ i > 1 /\ Committed[i-1].role = "summary"
                    /\ Ends(Committed, i) /\ outcome[Committed[i].turn] = "ok" =>
                         Committed[i].role = "final"
  BY DEF WholeTurns, SessionInv
<1>1. /\ Committed \in Seq(Message) /\ Len(Committed) \in Nat
      /\ i \in 1..Len(Committed) /\ Committed[i].turn # NoSend
  BY LenProperties DEF IInv, TypeOK, Session, Committed, TurnMessages
<1>2. Committed[i].turn \in Sends
  <2>1. Committed[i] \in Message
    BY <1>1, ElementOfSeq
  <2> QED BY <1>1, <2>1 DEF Message
<1>3. Good(Committed, Ok)
  BY DEF ShapeInv, Committed
<1>4. Starts(Committed, i) =>
        \/ Committed[i].role = "user"
        \/ i > 1 /\ Committed[i-1].role = "summary"
  BY <1>1, <1>3 DEF Good, StartsWell, Starts
<1>5. Ends(Committed, i) /\ outcome[Committed[i].turn] = "ok" => Committed[i].role = "final"
  BY <1>1, <1>2, <1>3 DEF Good, EndsWell, Ends, Ok
<1> QED BY <1>4, <1>5

\* However sends, seeds, clears, destroys and starts interleave, the messages of a turn stay
\* together in the conversation, from its user message (or a summary) to its answer.
THEOREM TurnsAreWhole == Spec => []WholeTurns
BY WholeInv, ShapeInvariance, PTL

\* What the shape and the rollback say of the calls and the results in the conversation.
LEMMA PairedInv == SessionInv => ResultsPaired
<1> SUFFICES ASSUME IInv, ShapeInv, NEW i \in TurnMessages(Committed)
             PROVE  /\ Committed[i].role = "calls" =>
                         \/ CallsAnswered(Committed, i)
                         \/ /\ outcome[Committed[i].turn] \in {"cancelled", "panicked"}
                            /\ CutShort(Committed, i)
                    /\ Committed[i].role \in {"tool", "results"} => HasItsCalls(Committed, i)
  BY DEF ResultsPaired, SessionInv
<1>1. /\ Committed \in Seq(Message) /\ Len(Committed) \in Nat
      /\ i \in 1..Len(Committed) /\ Committed[i].turn # NoSend
  BY LenProperties DEF IInv, TypeOK, Session, Committed, TurnMessages
<1>2. Committed[i].turn \in Sends
  <2>1. Committed[i] \in Message
    BY <1>1, ElementOfSeq
  <2> QED BY <1>1, <2>1 DEF Message
<1>3. Good(Committed, Ok)
  BY DEF ShapeInv, Committed
<1>4. Committed[i].role \in {"tool", "results"} => HasItsCalls(Committed, i)
  BY <1>1, <1>3 DEF Good, HaveCalls
<1>5. ASSUME Committed[i].role = "calls", ~CallsAnswered(Committed, i)
      PROVE  /\ outcome[Committed[i].turn] \in {"cancelled", "panicked"}
             /\ CutShort(Committed, i)
  <2>1. CutShort(Committed, i)
    BY <1>1, <1>3, <1>5 DEF Good, CutPaired
  <2>2. outcome[Committed[i].turn] # "ok"
    BY <1>1, <1>2, <1>3, <1>5 DEF Good, CallsPaired, Ok
  <2>3. outcome[Committed[i].turn] \in {"ok", "cancelled", "panicked"}
    BY RollbackInv DEF OnlyCommittedTurns
  <2> QED BY <2>1, <2>2, <2>3
<1> QED BY <1>4, <1>5

\* And tool calls and tool results match, whatever interleaves: every result has its calls,
\* unless compaction cut them off, and calls without all their results are only at the end
\* of a turn that was cancelled or panicked.
THEOREM ResultsArePaired == Spec => []ResultsPaired
BY PairedInv, ShapeInvariance, PTL
=============================================================================
