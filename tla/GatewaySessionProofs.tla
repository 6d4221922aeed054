------------------------- MODULE GatewaySessionProofs -------------------------
(***************************************************************************)
(* Safety of GatewaySession for any finite or infinite sets of sockets and *)
(* posts and any number of turns.                                          *)
(*                                                                         *)
(* The key is AloneInv: two turns that are active at the same time are     *)
(* both exposed, since the queue admits one and whoever came around it     *)
(* exposes all.  A turn that is not exposed therefore owns the token, the  *)
(* state and the end of the transcript until it ends, as far as the store  *)
(* does what it is asked: lost and unmarked are the turns for which a call *)
(* of the store has failed.                                                *)
(***************************************************************************)
EXTENDS GatewaySessionExchanges, SequenceTheorems, FiniteSetTheorems, TLAPS

\* Numbers are given once, and only active sockets have one.
NumberInv ==
  /\ \A c \in Sockets : pc[c] = "none" => turn[c] = 0
  /\ \A c \in Active : turn[c] \in 1..turns
  /\ \A c, d \in Active : turn[c] = turn[d] => c = d
  /\ exposed \subseteq 1..turns
  /\ \A c \in first : pc[c] = "none" /\ c \notin waiting \cup inside

\* A turn that has joined has a result.
ResultInv ==
  \A c \in Active : pc[c] \in {"joined", "removed", "written", "settled"}
                     => result[turn[c]] \in {"answer", "failed", "interrupted"}

AloneInv ==
  /\ \A c, d \in inside : c = d
  /\ \A c \in Active : Outside(c) => turn[c] \in exposed
  /\ \A c, d \in Active : c # d => turn[c] \in exposed

StateInv ==
  /\ ~exists => state = Idle
  /\ \A c \in Active : turn[c] \notin exposed \cup unmarked => exists
  /\ \A c \in Active : pc[c] = "settled" /\ turn[c] \notin unmarked
                       => ~(state.name = "running" /\ state.by = turn[c])
  /\ state.name = "running" =>
       /\ state.by \in Turns
       /\ InTurn(state.by) \/ result[state.by] = "crashed" \/ state.by \in unmarked
  /\ StateAgrees

Asked(i, t) == store[i].by = t /\ store[i].kind = "user"

\* WholeExchange, of one turn and row by row.
Exchange(t) ==
  /\ \A i, j \in 1..Len(store) : Asked(i, t) /\ Asked(j, t) => i = j
  /\ \A i \in 1..Len(store) : store[i].by = t /\ store[i].kind \in {"partial", "answer", "interrupted"}
                              => i > 1 /\ Asked(i - 1, t)
  /\ result[t] \in {"answer", "interrupted"} /\ ~InTurn(t)
       => \A i \in 1..Len(store) :
            Asked(i, t) => i < Len(store) /\ store[i + 1].by = t /\ store[i + 1].kind = result[t]

\* What the row at the end of the transcript is while the turn of c runs alone and
\* its calls have not failed.
LastKind(c) ==
  IF pc[c] \in {"written", "settled"} /\ result[turn[c]] # "failed" THEN result[turn[c]]
  ELSE IF partial[c] THEN "partial" ELSE "user"

\* The row a turn that has saved overwrites next is its own, or that of a spoiled
\* turn, or a notice put in while it was exposed.
OverwritesOwn(c) ==
  partial[c] /\ store # <<>> =>
    \/ store[Len(store)].by \in Spoiled \cup {turn[c]}
    \/ store[Len(store)].kind = "notice" /\ turn[c] \in exposed

StoreInv ==
  /\ \A i \in 1..Len(store) : store[i].by \in 1..turns
  /\ \A c \in Sockets : pc[c] \in {"none", "stored", "marked"} => ~partial[c]
  /\ \A c \in Active : turn[c] \notin Spoiled =>
       store # <<>> /\ store[Len(store)].by = turn[c] /\ store[Len(store)].kind = LastKind(c)
  /\ \A c \in Active : OverwritesOwn(c)
  /\ \A t \in Turns \ Spoiled : Exchange(t)

IInv == /\ TypeOK /\ NumberInv /\ ResultInv /\ AloneInv
        /\ TokenFollowsTurn /\ StateInv /\ StoreInv

\* The steps of a turn between its first row and its end.
InnerStep(c) ==
  \/ MarkRunning(c) \/ InstallToken(c) \/ SavePartial(c) \/ ClientGone(c)
  \/ Joined(c) \/ RemoveToken(c) \/ StoreAnswer(c) \/ Settle(c)

\* The steps that touch no turn's number or place.
Outsider ==
  \/ QueueStep \/ AbortLooksUp \/ AbortCancels
  \/ \E c \in Sockets : Connect(c) \/ Reconnect(c) \/ AskTurn(c)
  \/ \E p \in Posts : AskPost(p) \/ Notify(p) \/ EndPost(p)
  \/ UNCHANGED vars

StoredRow == [by : Turns, kind : {"user", "partial", "answer", "interrupted", "notice"}]

-----------------------------------------------------------------------------
(* Facts used for several parts of the invariant.                          *)

\* Sockets and posts are different callers.
LEMMA Kinds == /\ Sockets \subseteq Callers /\ Posts \subseteq Callers
               /\ \A p \in Posts : p \notin Sockets
               /\ MaxTurns \in Nat
BY SessionAssumption DEF Callers

\* Every step is one of a turn, of the outside, a DELETE or the end of the process.
LEMMA StepKinds ==
  ASSUME [Next]_vars
  PROVE  \/ \E c \in Sockets : StoreUser(c) \/ FirstMessage(c) \/ InnerStep(c) \/ EndTurn(c)
         \/ Outsider \/ DeleteCancels \/ DeleteRows \/ Crash
BY DEF Next, TurnStep, InnerStep, Outsider

\* A turn begins in a socket that is not in one.
LEMMA Begins ==
  ASSUME NumberInv, NEW c \in Sockets, StoreUser(c) \/ FirstMessage(c)
  PROVE  BeginTurn(c) /\ pc[c] = "none" /\ turn[c] = 0
BY DEF StoreUser, FirstMessage, NumberInv

\* An inner step moves its own socket and stays in the turn.
LEMMA InnerFrame ==
  ASSUME TypeOK, NEW c \in Sockets, InnerStep(c)
  PROVE  /\ c \in Active /\ Active' = Active /\ pc'[c] # "none"
         /\ \A d \in Sockets \ {c} : pc'[d] = pc[d] /\ partial'[d] = partial[d]
         /\ UNCHANGED <<queueVars, first, turn, turns, exposed, asks>>
         /\ lost \subseteq lost' /\ unmarked \subseteq unmarked' /\ Spoiled \subseteq Spoiled'
<1> USE DEF TypeOK, turnVars, stored, history, faults, Spoiled
<1>1. CASE MarkRunning(c) \/ InstallToken(c) \/ RemoveToken(c) \/ Settle(c)
  BY <1>1 DEF MarkRunning, InstallToken, RemoveToken, Settle, Say, Active
<1>2. CASE SavePartial(c) \/ ClientGone(c)
  BY <1>2 DEF SavePartial, ClientGone, Active
<1>3. CASE Joined(c) \/ StoreAnswer(c)
  BY <1>3 DEF Joined, StoreAnswer, Active
<1> QED
  BY <1>1, <1>2, <1>3 DEF InnerStep

\* What the outside does leaves turns, token and state alone.
LEMMA OutsiderFrame ==
  ASSUME TypeOK, NumberInv, Outsider
  PROVE  /\ UNCHANGED <<pc, partial, token, exposed, lost, unmarked, result, state>>
         /\ \A c \in Sockets : turn'[c] = turn[c]
         /\ turns' \in {turns, turns + 1} /\ (exists => exists')
         /\ \A c \in first' : pc[c] = "none" /\ c \notin waiting' \cup inside'
<1> USE Kinds DEF turnVars, stored, history, faults, queueVars, asks
<1>1. CASE QueueStep \/ AbortLooksUp \/ AbortCancels \/ UNCHANGED vars
  BY <1>1 DEF QueueStep, Queue!GiveUp, Queue!TakeLock, AbortLooksUp, AbortCancels, vars, NumberInv
<1>2. ASSUME NEW c \in Sockets, Connect(c) \/ Reconnect(c) \/ AskTurn(c)
      PROVE  /\ UNCHANGED <<pc, turn, partial, token, exposed, lost, unmarked, result, state, turns,
                          exists>>
             /\ \A d \in first' : pc[d] = "none" /\ d \notin waiting' \cup inside'
  BY <1>2 DEF Connect, Reconnect, AskTurn, Queue!AskLock, NumberInv
<1>3. ASSUME NEW p \in Posts, AskPost(p) \/ Notify(p) \/ EndPost(p)
      PROVE  /\ UNCHANGED <<first, pc, partial, token, exposed, lost, unmarked, result, state>>
             /\ turns' \in {turns, turns + 1} /\ (exists => exists')
             /\ \A d \in Callers \ {p} : turn'[d] = turn[d]
             /\ waiting' \cup inside' \subseteq waiting \cup inside \cup {p}
  BY <1>3 DEF AskPost, Notify, EndPost, AppendRow, TypeOK, Queue!AskLock, Queue!LeaveLock
<1>4. first \subseteq Sockets
  BY DEF TypeOK
<1> QED
  BY <1>1, <1>2, <1>3, <1>4 DEF Outsider, NumberInv

-----------------------------------------------------------------------------
(* The types.                                                              *)

\* The calls of the store keep the types of its rows and columns.
LEMMA StoreType ==
  ASSUME TypeOK, NEW r \in StoredRow
  PROVE  /\ AppendRow(r) => store' \in Seq(StoredRow) /\ exists' \in BOOLEAN /\ state' = state
         /\ UpdateLast(r) => store' \in Seq(StoredRow) /\ exists' = exists /\ state' = state
<1> USE DEF TypeOK, StoredRow
<1>1. ASSUME AppendRow(r)
      PROVE  store' \in Seq(StoredRow) /\ exists' \in BOOLEAN /\ state' = state
  <2>1. Append(store, r) \in Seq(StoredRow)
    BY AppendProperties
  <2>2. exists' \in {TRUE, exists}
    BY <1>1 DEF AppendRow
  <2> QED
    BY <1>1, <2>1, <2>2 DEF AppendRow
<1>2. ASSUME UpdateLast(r)
      PROVE  store' \in Seq(StoredRow) /\ exists' = exists /\ state' = state
  <2>1. store # <<>> => Len(store) \in 1..Len(store)
    BY EmptySeq, LenProperties
  <2>2. store # <<>> => [store EXCEPT ![Len(store)] = r] \in Seq(StoredRow)
    BY <2>1, ExceptSeq
  <2> QED
    BY <1>2, <2>2 DEF UpdateLast
<1> QED
  BY <1>1, <1>2

\* A write of the state column keeps the types.
LEMMA SayType ==
  ASSUME TypeOK, NEW t \in Turns, NEW by \in 0..MaxTurns, NEW name \in {"idle", "running", "error"},
         Say(name, by, t)
  PROVE  /\ UNCHANGED <<store, exists, lost>> /\ unmarked' \subseteq Turns
         /\ state' \in [name : {"idle", "running", "error"}, by : 0..MaxTurns]
<1>1. CASE SetState(name, by) /\ UNCHANGED faults
  BY <1>1 DEF SetState, faults, TypeOK
<1>2. CASE UNCHANGED <<stored, lost>> /\ unmarked' = unmarked \cup {t}
  BY <1>2 DEF stored, TypeOK
<1> QED
  BY <1>1, <1>2 DEF Say

\* The newest row is that of a turn.
LEMMA NewestTypes == TypeOK => Newest \subseteq Turns
<1> SUFFICES ASSUME TypeOK, store # <<>> PROVE store[Len(store)] \in StoredRow
  BY DEF Newest, StoredRow
<1>1. store \in Seq(StoredRow)
  BY DEF TypeOK, StoredRow
<1>2. Len(store) \in 1..Len(store)
  BY <1>1, EmptySeq, LenProperties
<1> QED
  BY <1>1, <1>2, ElementOfSeq

\* Every step keeps the types.
LEMMA TypeStep == TypeOK /\ NumberInv /\ ResultInv /\ [Next]_vars => TypeOK'
<1> SUFFICES ASSUME TypeOK, NumberInv, ResultInv, [Next]_vars PROVE TypeOK'
  OBVIOUS
<1> USE Kinds DEF TypeOK, Turns, turnVars, stored, history, faults, queueVars, asks, StoredRow
<1>1. ASSUME NEW c \in Sockets, BeginTurn(c), first' \subseteq first PROVE TypeOK'
  <2>1. turns + 1 \in Turns /\ Row(turns + 1, "user") \in StoredRow
    BY <1>1 DEF BeginTurn, Row
  <2>2. store' \in Seq(StoredRow) /\ exists' \in BOOLEAN /\ state' = state
    <3>1. AppendRow(Row(turns + 1, "user")) \/ UNCHANGED stored
      BY <1>1 DEF BeginTurn
    <3>2. TypeOK
      OBVIOUS
    <3> QED
      BY <2>1, <3>1, <3>2, StoreType
  <2>3. exposed' \subseteq Turns
    <3>1. {turn[d] : d \in Active} \subseteq Turns
      BY DEF NumberInv
    <3>2. exposed' \subseteq exposed \cup {turns + 1} \cup {turn[d] : d \in Active}
      BY <1>1 DEF BeginTurn
    <3> QED
      BY <2>1, <3>1, <3>2
  <2>4. lost' \subseteq Turns /\ unmarked' \subseteq Turns
    <3>1. lost' \subseteq lost \cup {turns + 1} /\ unmarked' \subseteq unmarked \cup {turns + 1}
      BY <1>1 DEF BeginTurn
    <3> QED
      BY <2>1, <3>1
  <2>5. /\ turns' = turns + 1 /\ turn' = [turn EXCEPT ![c] = turns + 1]
        /\ pc' = [pc EXCEPT ![c] = "stored"]
        /\ UNCHANGED <<queueVars, partial, token, cancelled, asks, result>>
    BY <1>1 DEF BeginTurn
  <2> QED
    BY ONLY TypeOK, <1>1, <2>1, <2>2, <2>3, <2>4, <2>5, Kinds
       DEF TypeOK, queueVars, asks, StoredRow, Turns
<1>2. ASSUME NEW c \in Sockets, StoreUser(c) \/ FirstMessage(c) PROVE TypeOK'
  BY <1>1, <1>2 DEF StoreUser, FirstMessage
<1>3. ASSUME NEW c \in Sockets, InnerStep(c) PROVE TypeOK'
  <2>1. turn[c] \in Turns /\ c \in Callers
    BY <1>3, InnerFrame DEF NumberInv
  <2>2. CASE MarkRunning(c)
    <3>1. turn[c] \in 0..MaxTurns /\ Say("running", turn[c], turn[c])
      BY <2>1, <2>2 DEF MarkRunning
    <3>2. /\ UNCHANGED <<store, exists, lost>> /\ unmarked' \subseteq Turns
          /\ state' \in [name : {"idle", "running", "error"}, by : 0..MaxTurns]
      BY <2>1, <3>1, SayType
    <3> QED
      BY <2>2, <3>2 DEF MarkRunning
  <2>3. CASE InstallToken(c)
    BY <2>1, <2>3 DEF InstallToken
  <2>4. CASE SavePartial(c)
    <3>1. Row(turn[c], "partial") \in StoredRow
      BY <2>1 DEF Row
    <3>2. store' \in Seq(StoredRow) /\ exists' \in BOOLEAN /\ state' = state
      BY <2>4, <3>1, StoreType DEF SavePartial, Put
    <3>3. Newest \subseteq Turns
      BY NewestTypes
    <3>4. lost' \subseteq Turns
      BY <2>1, <2>4, <3>3 DEF SavePartial
    <3> QED
      BY <2>4, <3>2, <3>4 DEF SavePartial
  <2>5. CASE ClientGone(c)
    BY <2>1, <2>5 DEF ClientGone
  <2>6. CASE Joined(c)
    BY <2>1, <2>6 DEF Joined
  <2>7. CASE RemoveToken(c)
    BY <2>7 DEF RemoveToken
  <2>8. CASE StoreAnswer(c)
    <3>1. result[turn[c]] \in {"answer", "interrupted"} => Row(turn[c], result[turn[c]]) \in StoredRow
      BY <2>1 DEF Row
    <3>2. CASE result[turn[c]] = "failed"
      BY <2>8, <3>2 DEF StoreAnswer
    <3>3. CASE result[turn[c]] \in {"answer", "interrupted"}
      <4>1. store' \in Seq(StoredRow) /\ exists' \in BOOLEAN /\ state' = state
        BY <2>8, <3>1, <3>3, StoreType DEF StoreAnswer, Put
      <4>2. lost' \subseteq Turns
        BY <2>1, <2>8 DEF StoreAnswer
      <4> QED
        BY <2>8, <4>1, <4>2 DEF StoreAnswer
    <3>4. result[turn[c]] \in {"failed", "answer", "interrupted"}
      BY <2>8 DEF StoreAnswer, ResultInv, Active
    <3> QED
      BY <3>2, <3>3, <3>4
  <2>9. CASE Settle(c)
    <3>1. /\ turn[c] \in 0..MaxTurns /\ 0 \in 0..MaxTurns
          /\ Say("error", turn[c], turn[c]) \/ Say("idle", 0, turn[c])
      BY <2>1, <2>9 DEF Settle
    <3>2. /\ UNCHANGED <<store, exists, lost>> /\ unmarked' \subseteq Turns
          /\ state' \in [name : {"idle", "running", "error"}, by : 0..MaxTurns]
      BY <2>1, <3>1, SayType
    <3> QED
      BY <2>9, <3>2 DEF Settle
  <2> QED
    BY ONLY <1>3, <2>2, <2>3, <2>4, <2>5, <2>6, <2>7, <2>8, <2>9 DEF InnerStep
<1>4. ASSUME NEW c \in Sockets, EndTurn(c) PROVE TypeOK'
  <2>1. waiting' \subseteq Callers /\ inside' \subseteq Callers
    BY <1>4 DEF EndTurn, Queue!LeaveLock
  <2>2. cancelled' = cancelled \ {turn[c]} /\ turn' = [turn EXCEPT ![c] = 0]
    BY <1>4 DEF EndTurn
  <2>3. cancelled' \subseteq Turns
    BY ONLY TypeOK, <2>2 DEF TypeOK
  <2>4. 0 \in 0..MaxTurns
    OBVIOUS
  <2>5. turn' \in [Callers -> 0..MaxTurns]
    BY ONLY TypeOK, <2>2, <2>4 DEF TypeOK
  <2> QED
    BY <1>4, <2>1, <2>3, <2>5 DEF EndTurn
<1>5. CASE Outsider
  <2>1. CASE QueueStep
    <3>1. waiting' \subseteq Callers /\ inside' \subseteq Callers
      BY <2>1 DEF QueueStep, Queue!GiveUp, Queue!TakeLock
    <3> QED
      BY <2>1, <3>1 DEF QueueStep
  <2>2. CASE AbortLooksUp
    BY <2>2 DEF AbortLooksUp
  <2>3. CASE AbortCancels
    <3>1. {turn[c] : c \in Active} \subseteq Turns
      BY DEF NumberInv
    <3>2. cancelled' \subseteq cancelled \cup {turn[c] : c \in Active}
      BY <2>3 DEF AbortCancels
    <3>3. cancelled' \subseteq Turns
      BY <3>1, <3>2
    <3> QED
      BY <2>3, <3>3 DEF AbortCancels
  <2>4. ASSUME NEW c \in Sockets, Connect(c) \/ Reconnect(c) PROVE TypeOK'
    BY <2>4 DEF Connect, Reconnect
  <2>5. ASSUME NEW c \in Sockets, AskTurn(c) PROVE TypeOK'
    BY <2>5 DEF AskTurn, Queue!AskLock
  <2>6. ASSUME NEW q \in Posts, AskPost(q) PROVE TypeOK'
    BY <2>6 DEF AskPost, Queue!AskLock
  <2>7. ASSUME NEW q \in Posts, Notify(q) PROVE TypeOK'
    <3>1. turns + 1 \in Turns /\ Row(turns + 1, "notice") \in StoredRow
      BY <2>7 DEF Notify, Row
    <3>2. store' \in Seq(StoredRow) /\ exists' \in BOOLEAN /\ state' = state
      BY <2>7, <3>1, StoreType DEF Notify
    <3> QED
      BY <2>7, <3>1, <3>2 DEF Notify
  <2>8. ASSUME NEW q \in Posts, EndPost(q) PROVE TypeOK'
    BY <2>8 DEF EndPost, Queue!LeaveLock
  <2>9. CASE UNCHANGED vars
    BY <2>9 DEF vars
  <2> QED
    BY <1>5, <2>1, <2>2, <2>3, <2>4, <2>5, <2>6, <2>7, <2>8, <2>9 DEF Outsider
<1>6. CASE DeleteCancels \/ DeleteRows
  <2>1. exposed' \subseteq Turns
    <3>1. {turn[c] : c \in Active} \subseteq Turns
      BY DEF NumberInv
    <3> QED
      BY <1>6, <3>1 DEF DeleteCancels, DeleteRows, Expose
  <2>2. CASE DeleteCancels
    BY <2>1, <2>2 DEF DeleteCancels
  <2>3. CASE DeleteRows
    <3>1. <<>> \in Seq(StoredRow) /\ Idle \in [name : {"idle", "running", "error"}, by : 0..MaxTurns]
      BY EmptySeq DEF Idle
    <3> QED
      BY <2>1, <2>3, <3>1 DEF DeleteRows
  <2> QED
    BY <1>6, <2>2, <2>3
<1>7. CASE Crash
  <2>1. turn' \in [Callers -> 0..MaxTurns]
    BY <1>7 DEF Crash
  <2>2. result' \in [Turns -> {"none", "answer", "failed", "interrupted", "crashed"}]
    BY <1>7 DEF Crash
  <2>3. /\ pc' = [c \in Sockets |-> "none"] /\ partial' = [c \in Sockets |-> FALSE]
        /\ waiting' = {} /\ inside' = {} /\ first' = Sockets /\ token' = 0 /\ cancelled' = {}
        /\ aborting' = 0 /\ deleting' = FALSE
        /\ UNCHANGED <<store, exists, state, turns, exposed, lost, unmarked>>
    BY <1>7 DEF Crash
  <2>4. 0 \in 0..MaxTurns
    OBVIOUS
  <2> QED
    BY ONLY TypeOK, <2>1, <2>2, <2>3, <2>4 DEF TypeOK
<1> QED
  BY <1>2, <1>3, <1>4, <1>5, <1>6, <1>7, StepKinds

-----------------------------------------------------------------------------
(* The numbers of turns.                                                   *)

\* Every turn gets a number no turn had.
LEMMA NumberStep == TypeOK /\ NumberInv /\ [Next]_vars => NumberInv'
<1> SUFFICES ASSUME TypeOK, NumberInv, [Next]_vars PROVE NumberInv'
  OBVIOUS
<1> USE Kinds
<1>0. turns \in Nat /\ 1..turns \subseteq 1..(turns + 1) /\ turns + 1 \in 1..(turns + 1)
      /\ turns + 1 \notin 1..turns
  BY DEF TypeOK
<1>1. ASSUME NEW c \in Sockets, StoreUser(c) \/ FirstMessage(c) PROVE NumberInv'
  <2>1. /\ turns' = turns + 1 /\ turn' = [turn EXCEPT ![c] = turns + 1]
        /\ pc' = [pc EXCEPT ![c] = "stored"] /\ UNCHANGED <<waiting, inside>>
        /\ exposed' \subseteq exposed \cup {turns + 1} \cup {turn[d] : d \in Active}
    BY <1>1, Begins DEF BeginTurn, queueVars
  <2>2. first' \subseteq first /\ c \notin first'
    BY <1>1 DEF StoreUser, FirstMessage, NumberInv
  <2>3. Active' = Active \cup {c} /\ c \notin Active
    BY <1>1, <2>1, Begins DEF Active, TypeOK
  <2>4. {turn[d] : d \in Active} \subseteq 1..turns
    BY DEF NumberInv
  <2>5. \A d \in Sockets : turn'[d] = (IF d = c THEN turns + 1 ELSE turn[d])
                        /\ pc'[d] = (IF d = c THEN "stored" ELSE pc[d])
    BY <2>1 DEF TypeOK
  <2>6. \A d \in Active' : turn'[d] \in 1..turns' /\ d \in Sockets
    BY <1>0, <2>1, <2>3, <2>5 DEF NumberInv, Active
  <2>7. \A d, e \in Active' : turn'[d] = turn'[e] => d = e
    BY <1>0, <2>3, <2>5 DEF NumberInv, Active
  <2>8. exposed' \subseteq 1..turns'
    BY <1>0, <2>1, <2>4 DEF NumberInv
  <2>9. first \subseteq Sockets
    BY DEF TypeOK
  <2> QED
    BY <2>1, <2>2, <2>5, <2>6, <2>7, <2>8, <2>9 DEF NumberInv
<1>2. ASSUME NEW c \in Sockets, InnerStep(c) PROVE NumberInv'
  <2>1. /\ Active' = Active /\ UNCHANGED <<waiting, inside, first, turn, turns, exposed>>
        /\ \A d \in Sockets : pc'[d] = "none" <=> pc[d] = "none"
    BY <1>2, InnerFrame DEF Active, queueVars
  <2>2. first \subseteq Sockets
    BY DEF TypeOK
  <2> QED
    BY <2>1, <2>2 DEF NumberInv
<1>3. ASSUME NEW c \in Sockets, EndTurn(c) PROVE NumberInv'
  <2>1. /\ pc' = [pc EXCEPT ![c] = "none"] /\ turn' = [turn EXCEPT ![c] = 0]
        /\ UNCHANGED <<turns, exposed, first>> /\ waiting' \cup inside' \subseteq waiting \cup inside
    BY <1>3 DEF EndTurn, history, queueVars, Queue!LeaveLock
  <2>2. Active' = Active \ {c}
    BY <2>1 DEF Active, TypeOK
  <2> QED
    BY <2>1, <2>2 DEF NumberInv, TypeOK
<1>4. CASE Outsider
  <2>1. Active' = Active
    BY <1>4, OutsiderFrame DEF Active
  <2> QED
    BY <1>0, <1>4, <2>1, OutsiderFrame DEF NumberInv, Active
<1>5. CASE DeleteCancels \/ DeleteRows
  <2>1. /\ UNCHANGED <<pc, turn, turns, first, waiting, inside>>
        /\ exposed' = exposed \cup {turn[c] : c \in Active}
    BY <1>5 DEF DeleteCancels, DeleteRows, Expose, turnVars, queueVars
  <2>2. Active' = Active
    BY <2>1 DEF Active
  <2>3. exposed' \subseteq 1..turns'
    BY <2>1 DEF NumberInv
  <2> QED
    BY <2>1, <2>2, <2>3 DEF NumberInv
<1>6. CASE Crash
  <2>1. /\ \A c \in Sockets : pc'[c] = "none" /\ turn'[c] = 0
        /\ first' = Sockets /\ waiting' = {} /\ inside' = {} /\ UNCHANGED <<turns, exposed>>
    BY <1>6 DEF Crash
  <2>2. Active' = {}
    BY <2>1 DEF Active
  <2> QED
    BY <2>1, <2>2 DEF NumberInv
<1> QED
  BY <1>1, <1>2, <1>3, <1>4, <1>5, <1>6, StepKinds

\* The result of a turn is set once, when it joins.
LEMMA ResultStep == TypeOK /\ NumberInv /\ ResultInv /\ [Next]_vars => ResultInv'
<1> SUFFICES ASSUME TypeOK, NumberInv, ResultInv, [Next]_vars PROVE ResultInv'
  OBVIOUS
<1> USE Kinds
<1>1. ASSUME NEW c \in Sockets, StoreUser(c) \/ FirstMessage(c) PROVE ResultInv'
  <2>1. /\ turn' = [turn EXCEPT ![c] = turns + 1]
        /\ pc' = [pc EXCEPT ![c] = "stored"] /\ result' = result
    BY <1>1, Begins DEF BeginTurn
  <2> QED
    BY <2>1 DEF ResultInv, Active, TypeOK
<1>2. ASSUME NEW c \in Sockets, InnerStep(c) PROVE ResultInv'
  <2>1. CASE Joined(c)
    <3>1. PICK r \in {"answer", "failed", "interrupted"} : result' = [result EXCEPT ![turn[c]] = r]
      BY <2>1 DEF Joined
    <3>2. pc' = [pc EXCEPT ![c] = "joined"] /\ turn' = turn /\ c \in Active
      BY <2>1 DEF Joined, Active
    <3>3. \A d \in Active : turn[d] \in Turns /\ (d # c => turn[d] # turn[c])
      BY <3>2 DEF NumberInv, TypeOK, Turns
    <3> QED
      BY <3>1, <3>2, <3>3 DEF ResultInv, Active, TypeOK
  <2>2. CASE ~Joined(c)
    <3>1. /\ result' = result /\ turn' = turn
          /\ \A d \in Sockets : pc'[d] \in {"joined", "removed", "written", "settled"}
                                => pc[d] \in {"joined", "removed", "written", "settled"}
      BY <1>2, <2>2 DEF InnerStep, MarkRunning, InstallToken, SavePartial, ClientGone,
           RemoveToken, StoreAnswer, Settle, turnVars, history, TypeOK
    <3> QED
      BY <3>1 DEF ResultInv, Active
  <2> QED
    BY <2>1, <2>2
<1>3. ASSUME NEW c \in Sockets, EndTurn(c) PROVE ResultInv'
  <2>1. /\ pc' = [pc EXCEPT ![c] = "none"] /\ turn' = [turn EXCEPT ![c] = 0]
        /\ UNCHANGED result
    BY <1>3 DEF EndTurn, history
  <2> QED
    BY <2>1 DEF ResultInv, Active, TypeOK
<1>4. CASE Outsider
  BY <1>4, OutsiderFrame DEF ResultInv, Active
<1>5. CASE DeleteCancels \/ DeleteRows
  BY <1>5 DEF DeleteCancels, DeleteRows, ResultInv, Active, turnVars
<1>6. CASE Crash
  BY <1>6 DEF Crash, ResultInv, Active
<1> QED
  BY <1>1, <1>2, <1>3, <1>4, <1>5, <1>6, StepKinds

-----------------------------------------------------------------------------
(* Who is alone.                                                           *)

\* The queue admits one; who comes around it, or meets one who did, exposes both.
LEMMA AloneStep == TypeOK /\ NumberInv /\ AloneInv /\ [Next]_vars => AloneInv'
<1> SUFFICES ASSUME TypeOK, NumberInv, AloneInv, [Next]_vars PROVE AloneInv'
  OBVIOUS
<1> USE Kinds
<1>1. ASSUME NEW c \in Sockets, StoreUser(c) \/ FirstMessage(c) PROVE AloneInv'
  <2>1. /\ turn' = [turn EXCEPT ![c] = turns + 1]
        /\ pc' = [pc EXCEPT ![c] = "stored"] /\ inside' = inside
        /\ exposed \subseteq exposed'
        /\ Outside(c) \/ (\E d \in Active : Outside(d))
             => turns + 1 \in exposed' /\ \A d \in Active : turn[d] \in exposed'
    BY <1>1, Begins DEF BeginTurn, queueVars
  <2>2. Active' = Active \cup {c} /\ c \notin Active
    BY <1>1, <2>1, Begins DEF Active, TypeOK
  <2>3. ~Outside(c) => \A d \in Active : Outside(d)
    BY <2>2 DEF AloneInv, Outside
  <2> QED
    BY <2>1, <2>2, <2>3 DEF AloneInv, Outside, TypeOK
<1>2. ASSUME NEW c \in Sockets, InnerStep(c) PROVE AloneInv'
  BY <1>2, InnerFrame DEF AloneInv, Outside, queueVars
<1>3. ASSUME NEW c \in Sockets, EndTurn(c) PROVE AloneInv'
  <2>1. /\ pc' = [pc EXCEPT ![c] = "none"] /\ turn' = [turn EXCEPT ![c] = 0]
        /\ UNCHANGED exposed /\ inside' \in {inside, inside \ {c}}
    BY <1>3 DEF EndTurn, history, queueVars, Queue!LeaveLock
  <2>2. Active' = Active \ {c}
    BY <2>1 DEF Active, TypeOK
  <2> QED
    BY <2>1, <2>2 DEF AloneInv, Outside, TypeOK
<1>4. CASE Outsider
  <2>1. UNCHANGED <<pc, exposed>> /\ \A c \in Sockets : turn'[c] = turn[c]
    BY <1>4, OutsiderFrame
  <2> DEFINE Kept == /\ \A c, d \in inside' : c = d
                     /\ \A c \in Active : Outside(c)' => Outside(c)
  <2>2. Kept
    <3>1. CASE inside' = inside
      BY <3>1 DEF AloneInv, Outside
    <3>2. ASSUME NEW c \in Callers, inside = {} /\ inside' = {c}
          PROVE  Kept
      BY <3>2 DEF Outside
    <3>3. ASSUME NEW q \in Posts, inside' = inside \ {q} PROVE Kept
      BY <3>3 DEF AloneInv, Outside, Active
    <3> QED
      BY <1>4, <3>1, <3>2, <3>3 DEF Outsider, QueueStep, Queue!GiveUp, Queue!TakeLock,
           AbortLooksUp, AbortCancels, Connect, Reconnect, AskTurn, Queue!AskLock, AskPost,
           Notify, EndPost, Queue!LeaveLock, vars, queueVars
  <2> QED
    BY <2>1, <2>2 DEF AloneInv, Active, Outside
<1>5. CASE DeleteCancels \/ DeleteRows
  <2>1. UNCHANGED <<pc, turn, inside>> /\ exposed \subseteq exposed'
    BY <1>5 DEF DeleteCancels, DeleteRows, Expose, turnVars, queueVars
  <2> QED
    BY <2>1 DEF AloneInv, Active, Outside
<1>6. CASE Crash
  BY <1>6 DEF Crash, AloneInv, Active
<1> QED
  BY <1>1, <1>2, <1>3, <1>4, <1>5, <1>6, StepKinds

-----------------------------------------------------------------------------
(* The token and the state of the session.                                 *)

\* A turn that is not exposed has the table to itself from its token's insert to
\* its removal.
LEMMA TokenStep ==
  TypeOK /\ NumberInv /\ AloneInv /\ AloneInv' /\ TokenFollowsTurn /\ [Next]_vars
    => TokenFollowsTurn'
<1> SUFFICES ASSUME TypeOK, NumberInv, AloneInv, AloneInv', TokenFollowsTurn, [Next]_vars
             PROVE  TokenFollowsTurn'
  OBVIOUS
<1> USE Kinds
<1>1. ASSUME NEW c \in Sockets, StoreUser(c) \/ FirstMessage(c) PROVE TokenFollowsTurn'
  <2>1. /\ turn' = [turn EXCEPT ![c] = turns + 1] /\ pc' = [pc EXCEPT ![c] = "stored"]
        /\ token' = token /\ exposed \subseteq exposed' /\ pc[c] = "none"
    BY <1>1, Begins DEF BeginTurn
  <2> QED
    BY <2>1 DEF TokenFollowsTurn, Active, TypeOK
<1>2. ASSUME NEW c \in Sockets, InnerStep(c) PROVE TokenFollowsTurn'
  <2>1. /\ c \in Active /\ Active' = Active /\ UNCHANGED <<turn, exposed>>
        /\ \A d \in Active \ {c} : pc'[d] = pc[d] /\ turn[d] \in exposed
    BY <1>2, InnerFrame DEF AloneInv, Active
  <2>2. CASE InstallToken(c)
    BY <2>1, <2>2 DEF InstallToken, TokenFollowsTurn, TypeOK
  <2>3. CASE RemoveToken(c)
    BY <2>1, <2>3 DEF RemoveToken, TokenFollowsTurn, TypeOK, Active
  <2>4. CASE ~InstallToken(c) /\ ~RemoveToken(c)
    <3>1. token' = token /\ (pc'[c] \in {"running", "joined"} <=> pc[c] \in {"running", "joined"})
      BY <1>2, <2>4 DEF InnerStep, MarkRunning, SavePartial, ClientGone, Joined, StoreAnswer,
                        Settle, turnVars, TypeOK
    <3> QED
      BY <2>1, <3>1 DEF TokenFollowsTurn, Active
  <2> QED
    BY <2>2, <2>3, <2>4
<1>3. ASSUME NEW c \in Sockets, EndTurn(c) PROVE TokenFollowsTurn'
  <2>1. /\ pc[c] = "settled" /\ pc' = [pc EXCEPT ![c] = "none"]
        /\ turn' = [turn EXCEPT ![c] = 0] /\ UNCHANGED <<token, exposed>>
    BY <1>3 DEF EndTurn, history
  <2> QED
    BY <2>1 DEF TokenFollowsTurn, Active, TypeOK
<1>4. CASE Outsider
  BY <1>4, OutsiderFrame DEF TokenFollowsTurn, Active
<1>5. CASE DeleteCancels \/ DeleteRows
  <2>1. UNCHANGED <<pc, turn>> /\ token' \in {0, token}
        /\ \A c \in Active : turn[c] \in exposed'
    BY <1>5 DEF DeleteCancels, DeleteRows, Expose, turnVars
  <2> QED
    BY <2>1 DEF TokenFollowsTurn, Active
<1>6. CASE Crash
  BY <1>6 DEF Crash, TokenFollowsTurn, Active
<1> QED
  BY <1>1, <1>2, <1>3, <1>4, <1>5, <1>6, StepKinds

\* The state is set by turns only, and of two turns that set it both are exposed.
LEMMA StateStep ==
  TypeOK /\ NumberInv /\ AloneInv /\ StateInv /\ [Next]_vars => StateInv'
<1> SUFFICES ASSUME TypeOK, NumberInv, AloneInv, StateInv, [Next]_vars PROVE StateInv'
  OBVIOUS
<1> USE Kinds
<1>1. ASSUME NEW c \in Sockets, StoreUser(c) \/ FirstMessage(c) PROVE StateInv'
  <2>1. /\ turn' = [turn EXCEPT ![c] = turns + 1] /\ pc' = [pc EXCEPT ![c] = "stored"]
        /\ UNCHANGED <<state, result>> /\ (exists => exists') /\ pc[c] = "none"
        /\ exposed \subseteq exposed' /\ unmarked \subseteq unmarked'
        /\ exists' \/ turns + 1 \in unmarked'
    BY <1>1, Begins DEF BeginTurn, AppendRow, stored
  <2>2. InTurn(state.by) => InTurn(state.by)'
    BY <2>1 DEF InTurn, Active, TypeOK
  <2> QED
    BY <2>1, <2>2 DEF StateInv, StateAgrees, Active, TypeOK
<1>2. ASSUME NEW c \in Sockets, InnerStep(c) PROVE StateInv'
  <2>1. /\ c \in Active /\ Active' = Active /\ UNCHANGED <<turn, exposed>>
        /\ unmarked \subseteq unmarked'
        /\ \A d \in Active \ {c} : pc'[d] = pc[d] /\ turn[d] \in exposed /\ turn[d] # turn[c]
    BY <1>2, InnerFrame DEF AloneInv, Active, NumberInv
  <2>2. \A t : InTurn(t)' <=> InTurn(t)
    BY <2>1 DEF InTurn
  <2>f. ASSUME UNCHANGED <<exists, state, result>>, turn[c] \in unmarked' PROVE StateInv'
    BY <2>1, <2>2, <2>f DEF StateInv, StateAgrees, Active
  <2>3. CASE MarkRunning(c)
    <3>1. result' = result /\ pc'[c] = "marked"
      BY <2>3 DEF MarkRunning, TypeOK
    <3>2. InTurn(turn[c]) /\ turn[c] \in Turns
      BY <2>1 DEF InTurn, NumberInv, TypeOK, Turns
    <3>3. CASE SetState("running", turn[c])
      <4>1. /\ state' = IF exists THEN [name |-> "running", by |-> turn[c]] ELSE state
            /\ exists' = exists
        BY <3>3 DEF SetState
      <4> QED
        BY <2>1, <2>2, <3>1, <3>2, <4>1 DEF StateInv, StateAgrees, Idle, Active
    <3>4. CASE UNCHANGED stored /\ turn[c] \in unmarked'
      BY <2>f, <3>1, <3>4 DEF stored
    <3> QED
      BY <2>3, <3>3, <3>4 DEF MarkRunning, Say
  <2>4. CASE Settle(c)
    <3>1. result' = result /\ pc'[c] = "settled"
      BY <2>4 DEF Settle, TypeOK
    <3>2. CASE SetState("error", turn[c]) \/ SetState("idle", 0)
      <4>1. /\ exists' = exists
            /\ exists => state' \in {[name |-> "error", by |-> turn[c]], [name |-> "idle", by |-> 0]}
            /\ ~exists => state' = state
        BY <3>2 DEF SetState
      <4>2. state'.name # "running" /\ (~exists' => state' = Idle)
        BY <4>1 DEF StateInv, Idle
      <4> QED
        BY <2>1, <3>1, <4>1, <4>2 DEF StateInv, StateAgrees, Active
    <3>3. CASE UNCHANGED stored /\ turn[c] \in unmarked'
      BY <2>f, <3>1, <3>3 DEF stored
    <3> QED
      BY <2>4, <3>2, <3>3 DEF Settle, Say
  <2>5. CASE Joined(c)
    <3>1. /\ UNCHANGED <<exists, state>> /\ pc[c] = "running" /\ pc'[c] = "joined"
          /\ \A t \in Turns \ {turn[c]} : result'[t] = result[t]
      BY <2>5 DEF Joined, stored, TypeOK
    <3>2. state.by # turn[c] => (result[state.by] = "crashed" => result'[state.by] = "crashed")
      BY <2>5, <3>1 DEF Joined, TypeOK, Turns
    <3>3. state.by = turn[c] => InTurn(state.by)
      BY <2>1 DEF InTurn
    <3> QED
      BY <2>1, <2>2, <3>1, <3>2, <3>3 DEF StateInv, StateAgrees, Active
  <2>6. CASE \/ InstallToken(c) \/ SavePartial(c) \/ ClientGone(c) \/ RemoveToken(c)
             \/ StoreAnswer(c)
    <3>1. /\ UNCHANGED <<state, result>> /\ (exists => exists') /\ pc[c] \notin {"stored", "settled"}
          /\ pc'[c] # "settled"
      BY <2>6 DEF InstallToken, SavePartial, ClientGone, RemoveToken, StoreAnswer, Put, AppendRow,
                  UpdateLast, stored, history, turnVars, TypeOK
    <3> QED
      BY <2>1, <2>2, <3>1 DEF StateInv, StateAgrees, Active
  <2> QED
    BY <1>2, <2>3, <2>4, <2>5, <2>6 DEF InnerStep
<1>3. ASSUME NEW c \in Sockets, EndTurn(c) PROVE StateInv'
  <2>1. /\ pc[c] = "settled" /\ pc' = [pc EXCEPT ![c] = "none"]
        /\ turn' = [turn EXCEPT ![c] = 0] /\ UNCHANGED <<exists, state, result, exposed, unmarked>>
    BY <1>3 DEF EndTurn, history, faults, stored
  <2>2. state.name = "running" /\ InTurn(state.by) => InTurn(state.by)' \/ state.by \in unmarked
    BY <2>1 DEF InTurn, Active, TypeOK, StateInv
  <2> QED
    BY <2>1, <2>2 DEF StateInv, StateAgrees, Active, TypeOK
<1>4. CASE Outsider
  <2>1. \A t : InTurn(t)' <=> InTurn(t)
    BY <1>4, OutsiderFrame DEF InTurn, Active
  <2> QED
    BY <1>4, <2>1, OutsiderFrame DEF StateInv, StateAgrees, Active, TypeOK
<1>5. CASE DeleteCancels
  <2>1. UNCHANGED <<pc, turn, exists, state, result, unmarked>> /\ exposed \subseteq exposed'
    BY <1>5 DEF DeleteCancels, Expose, turnVars, stored, faults
  <2>2. \A t : InTurn(t)' <=> InTurn(t)
    BY <2>1 DEF InTurn, Active
  <2> QED
    BY <2>1, <2>2 DEF StateInv, StateAgrees, Active
<1>6. CASE DeleteRows
  <2>1. /\ UNCHANGED <<pc, turn, result, unmarked>> /\ \A c \in Active : turn[c] \in exposed'
        /\ UNCHANGED <<exists, state>> \/ (state' = Idle /\ ~exists')
    BY <1>6 DEF DeleteRows, Expose, turnVars, stored, faults
  <2>2. \A t : InTurn(t)' <=> InTurn(t)
    BY <2>1 DEF InTurn, Active
  <2> QED
    BY <2>1, <2>2 DEF StateInv, StateAgrees, Active, Idle
<1>7. CASE Crash
  <2>1. /\ Active' = {} /\ UNCHANGED <<exists, state, unmarked>>
        /\ \A t \in Turns : result'[t] = IF InTurn(t) THEN "crashed" ELSE result[t]
    BY <1>7 DEF Crash, Active, InTurn, stored, faults
  <2>2. state.name = "running" => result'[state.by] = "crashed" \/ state.by \in unmarked
    <3>1. state.name = "running" => /\ state.by \in Turns
                                    /\ \/ InTurn(state.by) \/ result[state.by] = "crashed"
                                       \/ state.by \in unmarked
      BY DEF StateInv
    <3> QED
      BY <2>1, <3>1
  <2> QED
    BY <2>1, <2>2 DEF StateInv, StateAgrees
<1> QED
  BY <1>1, <1>2, <1>3, <1>4, <1>5, <1>6, <1>7, StepKinds

-----------------------------------------------------------------------------
(* The stored transcript.                                                  *)

\* What the two writes do to the rows.
LEMMA StoreRows ==
  ASSUME TypeOK, NEW r \in StoredRow
  PROVE  /\ Len(store) \in Nat /\ (store # <<>> <=> Len(store) > 0)
         /\ \A i \in 1..Len(store) : store[i] \in StoredRow
         /\ AppendRow(r) => /\ Len(store') = Len(store) + 1 /\ store' # <<>>
                            /\ \A i \in 1..Len(store) : store'[i] = store[i]
                            /\ store'[Len(store) + 1] = r
         /\ UpdateLast(r) => /\ Len(store') = Len(store) /\ (store' # <<>> <=> store # <<>>)
                             /\ \A i \in 1..Len(store) :
                                  store'[i] = IF i = Len(store) THEN r ELSE store[i]
<1>1. store \in Seq(StoredRow)
  BY DEF TypeOK, StoredRow
<1>2. Len(store) \in Nat /\ (store # <<>> <=> Len(store) > 0)
  BY <1>1, EmptySeq, LenProperties
<1>3. \A i \in 1..Len(store) : store[i] \in StoredRow
  BY <1>1, ElementOfSeq
<1>4. AppendRow(r) => /\ Len(store') = Len(store) + 1 /\ store' # <<>>
                      /\ \A i \in 1..Len(store) : store'[i] = store[i]
                      /\ store'[Len(store) + 1] = r
  BY <1>1, AppendProperties DEF AppendRow
<1>5. ASSUME UpdateLast(r)
      PROVE  /\ Len(store') = Len(store) /\ (store' # <<>> <=> store # <<>>)
             /\ \A i \in 1..Len(store) : store'[i] = IF i = Len(store) THEN r ELSE store[i]
  <2>1. CASE store = <<>>
    BY <1>2, <1>5, <2>1 DEF UpdateLast
  <2>2. CASE store # <<>>
    <3>1. Len(store) \in 1..Len(store) /\ store' = [store EXCEPT ![Len(store)] = r]
      BY <1>2, <1>5, <2>2 DEF UpdateLast
    <3>2. /\ store' \in Seq(StoredRow) /\ Len(store') = Len(store)
          /\ \A i \in 1..Len(store) : store'[i] = IF i = Len(store) THEN r ELSE store[i]
      BY <1>1, <3>1, ExceptSeq
    <3> QED
      BY <1>2, <2>2, <3>2, EmptySeq
  <2> QED
    BY <2>1, <2>2
<1> QED
  BY <1>2, <1>3, <1>4, <1>5

\* A row appended keeps the exchanges if it is a notice, a question of a new turn,
\* or comes right behind its own question.
LEMMA AppendKeeps ==
  ASSUME TypeOK, StoreInv, NEW t \in Turns \ Spoiled, NEW r \in StoredRow, AppendRow(r),
         result'[t] = result[t], InTurn(t) => InTurn(t)',
         r.by = t => \/ r.kind = "notice"
                     \/ r.kind = "user" /\ t \notin 1..turns /\ InTurn(t)'
                     \/ r.kind # "user" /\ store # <<>> /\ Asked(Len(store), t)
  PROVE  Exchange(t)'
<1> DEFINE n == Len(store)
<1>1. /\ n \in Nat /\ (store # <<>> <=> n > 0) /\ Len(store') = n + 1
      /\ \A i \in 1..n : store'[i] = store[i]
      /\ store'[n + 1] = r
  BY StoreRows
<1>2. Exchange(t)
  BY DEF StoreInv
<1>3. \A i \in 1..n : store[i].by \in 1..turns
  BY DEF StoreInv
<1>4. ASSUME NEW i \in 1..(n + 1), Asked(i, t)'
      PROVE  (i \in 1..n /\ Asked(i, t)) \/ (i = n + 1 /\ r.by = t /\ r.kind = "user")
  <2>1. i \in 1..n \/ i = n + 1
    BY <1>1
  <2> QED
    BY <1>1, <1>4, <2>1 DEF Asked
<1>5. \A i \in 1..n : Asked(i, t) => Asked(i, t)'
  BY <1>1 DEF Asked
<1> HIDE DEF n
<1>6. \A i, j \in 1..(n + 1) : Asked(i, t)' /\ Asked(j, t)' => i = j
  <2>1. r.by = t /\ r.kind = "user" => \A i \in 1..n : ~Asked(i, t)
    BY <1>3 DEF Asked
  <2>2. \A i, j \in 1..n : Asked(i, t) /\ Asked(j, t) => i = j
    BY <1>2 DEF Exchange, n
  <2> QED
    BY <1>4, <2>1, <2>2
<1>7. \A i \in 1..(n + 1) : store'[i].by = t /\ store'[i].kind \in {"partial", "answer", "interrupted"}
                              => i > 1 /\ Asked(i - 1, t)'
  <2> SUFFICES ASSUME NEW i \in 1..(n + 1), store'[i].by = t,
                      store'[i].kind \in {"partial", "answer", "interrupted"}
               PROVE  i > 1 /\ Asked(i - 1, t)'
    OBVIOUS
  <2>1. CASE i \in 1..n
    <3>1. i > 1 /\ Asked(i - 1, t)
      BY <1>1, <1>2, <2>1 DEF Exchange, n
    <3>2. i - 1 \in 1..n
      BY <1>1, <2>1, <3>1
    <3> QED
      BY <1>5, <3>1, <3>2
  <2>2. CASE i = n + 1
    <3>1. n > 0 /\ Asked(n, t)
      BY <1>1, <2>2 DEF n
    <3> QED
      BY <1>1, <1>5, <2>2, <3>1
  <2> QED
    BY <1>1, <2>1, <2>2
<1>8. ASSUME result'[t] \in {"answer", "interrupted"}, ~InTurn(t)', NEW i \in 1..(n + 1),
             Asked(i, t)'
      PROVE  i < n + 1 /\ store'[i + 1].by = t /\ store'[i + 1].kind = result'[t]
  <2>1. i \in 1..n /\ Asked(i, t)
    BY <1>4, <1>8
  <2>2. i < n /\ store[i + 1].by = t /\ store[i + 1].kind = result[t]
    BY <1>2, <1>8, <2>1 DEF Exchange, n
  <2> QED
    BY <1>1, <2>1, <2>2
<1> QED
  BY <1>1, <1>6, <1>7, <1>8 DEF Exchange

\* A row that is overwritten by an active turn is its own, or nobody's any more.
LEMMA UpdateKeeps ==
  ASSUME TypeOK, StoreInv, NEW t \in Turns \ Spoiled, NEW c \in Active, partial[c],
         NEW r \in StoredRow, UpdateLast(r), r.by = turn[c], r.kind # "user",
         LastKind(c) = "partial", UNCHANGED result, InTurn(t) => InTurn(t)'
  PROVE  Exchange(t)'
<1> DEFINE n == Len(store)
<1>1. /\ n \in Nat /\ Len(store') = n /\ (store # <<>> <=> n > 0)
      /\ \A i \in 1..n : store'[i] = IF i = n THEN r ELSE store[i]
  BY StoreRows
<1>2. Exchange(t)
  BY DEF StoreInv
<1>3. CASE n = 0
  BY <1>1, <1>3 DEF Exchange
<1>4. CASE n > 0
  <2>1. \/ store[n].by # t \/ store[n].kind = "notice"
        \/ t = turn[c] /\ store[n].kind = "partial"
    <3>1. store[n].by \in Spoiled \cup {turn[c]} \/ store[n].kind = "notice"
      BY <1>1, <1>4 DEF StoreInv, OverwritesOwn
    <3>2. turn[c] = t => store[n].kind = "partial"
      BY DEF StoreInv
    <3> QED
      BY <3>1, <3>2
  <2>2. r.by = t => store[n].by = t /\ store[n].kind = "partial"
    BY DEF StoreInv
  <2>3. n \in 1..n
    BY <1>1, <1>4
  <2> HIDE DEF n
  <2>4. \A i \in 1..n : Asked(i, t)' <=> Asked(i, t)
    BY <1>1, <2>1, <2>2 DEF Asked
  <2>5. \A i, j \in 1..n : Asked(i, t)' /\ Asked(j, t)' => i = j
    BY <1>2, <2>4 DEF Exchange, n
  <2>6. ASSUME NEW i \in 1..n, store'[i].by = t,
               store'[i].kind \in {"partial", "answer", "interrupted"}
        PROVE  i > 1 /\ Asked(i - 1, t)'
    <3>1. store[i].by = t /\ store[i].kind \in {"partial", "answer", "interrupted"}
      BY <1>1, <2>2, <2>6
    <3>2. i > 1 /\ Asked(i - 1, t)
      BY <1>2, <3>1 DEF Exchange, n
    <3>3. i - 1 \in 1..n
      BY <1>1, <3>2
    <3> QED
      BY <2>4, <3>2, <3>3
  <2>7. ASSUME result'[t] \in {"answer", "interrupted"}, ~InTurn(t)', NEW i \in 1..n, Asked(i, t)'
        PROVE  i < n /\ store'[i + 1].by = t /\ store'[i + 1].kind = result'[t]
    <3>1. Asked(i, t) /\ ~InTurn(t)
      BY <2>4, <2>7
    <3>2. i < n /\ store[i + 1].by = t /\ store[i + 1].kind = result[t]
      BY <1>2, <2>7, <3>1 DEF Exchange, n
    <3>3. i + 1 \in 1..n
      BY <1>1, <3>2
    <3>4. i + 1 # n
      BY <2>1, <2>7, <3>1, <3>2 DEF InTurn
    <3> QED
      BY <1>1, <3>2, <3>3, <3>4
  <2> QED
    BY <1>1, <2>5, <2>6, <2>7 DEF Exchange
<1> QED
  BY <1>1, <1>3, <1>4

\* A step that writes nothing keeps the exchange of a turn whose result stays and
\* that does not end.
LEMMA SameRows ==
  ASSUME NEW t, Exchange(t), UNCHANGED store, result'[t] = result[t], InTurn(t) => InTurn(t)'
  PROVE  Exchange(t)'
BY DEF Exchange, Asked

\* Every row is written by its own turn, behind what that turn wrote before, as long
\* as its calls do not fail.
LEMMA StoreStep ==
  TypeOK /\ NumberInv /\ NumberInv' /\ ResultInv /\ AloneInv /\ AloneInv' /\ StoreInv /\ [Next]_vars
    => StoreInv'
<1> SUFFICES ASSUME TypeOK, NumberInv, NumberInv', ResultInv, AloneInv, AloneInv', StoreInv,
                    [Next]_vars
             PROVE  StoreInv'
  OBVIOUS
<1> USE Kinds
<1> DEFINE n == Len(store)
<1>0. turns \in Nat /\ 1..turns \subseteq 1..(turns + 1) /\ turns + 1 \in 1..(turns + 1)
      /\ turns + 1 \notin 1..turns
  BY DEF TypeOK
<1>1. ASSUME NEW c \in Sockets, StoreUser(c) \/ FirstMessage(c) PROVE StoreInv'
  <2> DEFINE r == Row(turns + 1, "user")
  <2>1. /\ turns' = turns + 1 /\ turn' = [turn EXCEPT ![c] = turns + 1]
        /\ pc' = [pc EXCEPT ![c] = "stored"] /\ UNCHANGED <<result, partial>>
        /\ exposed \subseteq exposed' /\ pc[c] = "none" /\ turns < MaxTurns
        /\ \/ AppendRow(r) /\ lost' = lost
           \/ store' = store /\ lost' = lost \cup {turns + 1}
    BY <1>1, Begins DEF BeginTurn, stored
  <2>2. r \in StoredRow /\ r.by = turns + 1 /\ r.kind = "user"
    BY <1>0, <2>1 DEF StoredRow, Turns, Row
  <2>4. Active' = Active \cup {c} /\ c \notin Active
    BY <2>1 DEF Active, TypeOK
  <2>5. turn'[c] = turns + 1 /\ \A d \in Active : turn'[d] = turn[d]
    BY <2>1, <2>4, Begins DEF TypeOK, Active
  <2>6. /\ \E d \in Active' : turn'[d] = turns + 1
        /\ \A t : InTurn(t) => InTurn(t)'
    BY <2>4, <2>5 DEF InTurn
  <2>7. Spoiled \subseteq Spoiled' /\ \A d \in Active : turn'[d] \in Spoiled' /\ turns + 1 \in Spoiled'
    BY <2>1, <2>4, <2>5 DEF Spoiled, AloneInv
  <2>8. \A d \in Sockets : pc'[d] \in {"none", "stored", "marked"} => ~partial'[d]
    BY <2>1 DEF StoreInv, TypeOK
  <2>9. ~partial'[c] /\ LastKind(c)' = "user" /\ \A d \in Active : partial'[d] = partial[d]
    BY <2>1 DEF StoreInv, TypeOK, LastKind
  <2> HIDE DEF r, n
  <2>a. CASE AppendRow(r) /\ lost' = lost
    <3>1. /\ n \in Nat /\ Len(store') = n + 1 /\ store' # <<>>
          /\ \A i \in 1..n : store'[i] = store[i]
          /\ store'[n + 1] = r
      BY <2>2, <2>a, StoreRows DEF n
    <3>2. \A i \in 1..(n + 1) : store'[i].by \in 1..turns'
      <4> SUFFICES ASSUME NEW i \in 1..(n + 1) PROVE store'[i].by \in 1..turns'
        OBVIOUS
      <4>1. i \in 1..n \/ i = n + 1
        BY <3>1
      <4> QED
        BY <1>0, <2>1, <2>2, <3>1, <4>1 DEF StoreInv, n
    <3>3. \A d \in Active' : turn'[d] \notin Spoiled' =>
            store' # <<>> /\ store'[Len(store')].by = turn'[d] /\ store'[Len(store')].kind = LastKind(d)'
      BY <2>2, <2>4, <2>5, <2>7, <2>9, <3>1
    <3>4. \A d \in Active' : OverwritesOwn(d)'
      BY <2>2, <2>4, <2>7, <2>9, <3>1 DEF OverwritesOwn
    <3>5. ASSUME NEW t \in Turns \ Spoiled' PROVE Exchange(t)'
      <4>1. r.by = t => t \notin 1..turns /\ InTurn(t)'
        BY <1>0, <2>2, <2>6 DEF InTurn
      <4> QED
        BY <2>1, <2>2, <2>6, <2>7, <2>a, <4>1, AppendKeeps
    <3> QED
      BY <2>8, <3>1, <3>2, <3>3, <3>4, <3>5 DEF StoreInv
  <2>b. CASE store' = store /\ lost' = lost \cup {turns + 1}
    <3>1. turns + 1 \in Spoiled'
      BY <2>b DEF Spoiled
    <3>2. \A i \in 1..Len(store') : store'[i].by \in 1..turns'
      BY <1>0, <2>1, <2>b DEF StoreInv
    <3>3. \A d \in Active' : turn'[d] \in Spoiled'
      BY <2>4, <2>5, <2>7, <3>1
    <3>4. \A d \in Active' : OverwritesOwn(d)'
      BY <2>1, <2>4, <2>5, <2>7, <2>9, <2>b DEF OverwritesOwn, StoreInv
    <3>5. ASSUME NEW t \in Turns \ Spoiled' PROVE Exchange(t)'
      BY <2>1, <2>6, <2>7, <2>b, SameRows DEF StoreInv
    <3> QED
      BY <2>8, <3>2, <3>3, <3>4, <3>5 DEF StoreInv
  <2> QED
    BY <2>1, <2>a, <2>b
<1>2. ASSUME NEW c \in Sockets, InnerStep(c) PROVE StoreInv'
  <2>1. /\ c \in Active /\ Active' = Active /\ UNCHANGED <<turn, turns, exposed>>
        /\ \A d \in Sockets \ {c} : pc'[d] = pc[d] /\ partial'[d] = partial[d]
        /\ \A d \in Active \ {c} : turn[d] \in exposed /\ turn[c] \in exposed
        /\ Spoiled \subseteq Spoiled' /\ exposed \subseteq Spoiled
    BY <1>2, InnerFrame DEF AloneInv, Spoiled
  <2>2. (\A t : InTurn(t)' <=> InTurn(t)) /\ InTurn(turn[c]) /\ turn[c] \in 1..turns
        /\ turn[c] \in Turns
    BY <2>1 DEF InTurn, NumberInv, TypeOK, Turns
  <2>s. ASSUME UNCHANGED <<store, lost>>, partial'[c] = partial[c], LastKind(c)' = LastKind(c),
               \A t \in Turns \ {turn[c]} : result'[t] = result[t],
               pc'[c] \in {"none", "stored", "marked"} => pc[c] \in {"none", "stored", "marked"}
        PROVE  StoreInv'
    <3>1. Spoiled' = Spoiled
      BY <2>1, <2>s DEF Spoiled
    <3>2. ASSUME NEW t \in Turns \ Spoiled PROVE Exchange(t)'
      <4>1. Exchange(t)
        BY DEF StoreInv
      <4>2. CASE t = turn[c]
        BY <2>2, <2>s, <4>1, <4>2 DEF Exchange, Asked
      <4>3. CASE t # turn[c]
        BY <2>2, <2>s, <4>1, <4>3, SameRows
      <4> QED
        BY <4>2, <4>3
    <3>3. \A d \in Active' : OverwritesOwn(d)'
      BY <2>1, <2>s, <3>1 DEF OverwritesOwn, StoreInv, Active
    <3>4. \A d \in Active' : turn'[d] \notin Spoiled' =>
            store' # <<>> /\ store'[Len(store')].by = turn'[d] /\ store'[Len(store')].kind = LastKind(d)'
      <4>1. \A d \in Active' : turn'[d] \notin Spoiled' => d = c
        BY <2>1, <3>1
      <4> QED
        BY <2>1, <2>s, <3>1, <4>1 DEF StoreInv
    <3> QED
      BY <2>1, <2>s, <3>1, <3>2, <3>3, <3>4 DEF StoreInv
  <2>f. ASSUME UNCHANGED <<store, result>>, turn[c] \in lost',
               partial'[c] # partial[c] => Newest \subseteq lost',
               pc'[c] \notin {"none", "stored", "marked"}
        PROVE  StoreInv'
    <3>1. ASSUME NEW t \in Turns \ Spoiled' PROVE Exchange(t)'
      BY <2>1, <2>2, <2>f, SameRows DEF StoreInv
    <3>2. \A d \in Active' \ {c} : OverwritesOwn(d)'
      BY <2>1, <2>f DEF OverwritesOwn, StoreInv, Active
    <3>3. OverwritesOwn(c)'
      BY <2>1, <2>f DEF OverwritesOwn, StoreInv, Newest, Spoiled
    <3>4. \A d \in Active' : turn'[d] \in Spoiled'
      BY <2>1, <2>f DEF Spoiled
    <3> QED
      BY <2>1, <2>f, <3>1, <3>2, <3>3, <3>4 DEF StoreInv
  <2>3. CASE MarkRunning(c) \/ InstallToken(c) \/ ClientGone(c) \/ RemoveToken(c) \/ Settle(c)
             \/ Joined(c)
    <3>1. /\ UNCHANGED <<store, lost, partial>>
          /\ \A t \in Turns \ {turn[c]} : result'[t] = result[t]
          /\ pc'[c] \in {"none", "stored", "marked"} => pc[c] \in {"none", "stored", "marked"}
          /\ LastKind(c)' = LastKind(c)
      BY <2>2, <2>3 DEF MarkRunning, InstallToken, ClientGone, RemoveToken, Settle, Joined,
           Say, SetState, LastKind, turnVars, stored, history, faults, TypeOK
    <3> QED
      BY <2>s, <3>1
  <2>4. ASSUME NEW kind \in {"partial", "answer", "interrupted"},
               NEW r \in StoredRow, r.by = turn[c], r.kind = kind,
               LastKind(c) \in {"user", "partial"}, UNCHANGED <<lost, result>>, Put(c, r),
               LastKind(c) = IF partial[c] THEN "partial" ELSE "user",
               LastKind(c)' = kind, pc'[c] \notin {"none", "stored", "marked"}
        PROVE  StoreInv'
    <3>0. Spoiled' = Spoiled /\ IF partial[c] THEN UpdateLast(r) ELSE AppendRow(r)
      BY <2>1, <2>4 DEF Spoiled, Put
    <3>1. /\ n \in Nat /\ (store # <<>> <=> n > 0)
          /\ AppendRow(r) => /\ Len(store') = n + 1 /\ store' # <<>>
                             /\ \A i \in 1..n : store'[i] = store[i]
                             /\ store'[n + 1] = r
          /\ UpdateLast(r) => /\ Len(store') = n /\ (store' # <<>> <=> store # <<>>)
                              /\ \A i \in 1..n : store'[i] = IF i = n THEN r ELSE store[i]
      BY StoreRows
    <3>2. /\ store' # <<>> => Len(store') \in 1..Len(store') /\ store'[Len(store')] = r
          /\ store # <<>> => store' # <<>>
          /\ AppendRow(r) => store' # <<>>
      BY <3>0, <3>1
    <3>3. \A i \in 1..Len(store') : store'[i] = r \/ (i \in 1..n /\ store'[i] = store[i])
      BY <3>0, <3>1
    <3>4. turn[c] \notin Spoiled => store # <<>>
      BY <2>1 DEF StoreInv
    <3>5. \A i \in 1..Len(store') : store'[i].by \in 1..turns'
      BY <2>1, <2>2, <2>4, <3>3 DEF StoreInv
    <3>6. \A d \in Sockets : pc'[d] \in {"none", "stored", "marked"} => ~partial'[d]
      BY <2>1, <2>4 DEF StoreInv
    <3>7. \A d \in Active' : turn'[d] \notin Spoiled' =>
            store' # <<>> /\ store'[Len(store')].by = turn'[d] /\ store'[Len(store')].kind = LastKind(d)'
      BY <2>1, <2>4, <3>0, <3>2, <3>4
    <3>8. \A d \in Active' : OverwritesOwn(d)'
      BY <2>1, <2>4, <3>0, <3>2 DEF OverwritesOwn
    <3>9. ASSUME NEW t \in Turns \ Spoiled PROVE Exchange(t)'
      <4>1. CASE partial[c]
        BY <2>1, <2>2, <2>4, <3>0, <4>1, UpdateKeeps
      <4>2. CASE ~partial[c]
        <5>1. r.by = t => store # <<>> /\ Asked(n, t)
          BY <2>1, <2>4, <3>4, <4>2 DEF StoreInv, Asked
        <5> QED
          BY <2>1, <2>2, <2>4, <3>0, <4>2, <5>1, AppendKeeps
      <4> QED
        BY <4>1, <4>2
    <3> QED
      BY <2>1, <3>0, <3>5, <3>6, <3>7, <3>8, <3>9 DEF StoreInv
  <2>5. CASE SavePartial(c)
    <3> DEFINE r == Row(turn[c], "partial")
    <3>1. r \in StoredRow /\ r.by = turn[c] /\ r.kind = "partial"
      BY <2>2 DEF StoredRow, Row
    <3>2. /\ UNCHANGED <<pc, result>> /\ pc[c] = "running" /\ partial'[c] = TRUE
          /\ \/ Put(c, r) /\ lost' = lost
             \/ /\ store' = store
                /\ lost' = IF partial[c] THEN lost ELSE lost \cup {turn[c]} \cup Newest
      BY <2>5 DEF SavePartial, stored, history, TypeOK
    <3>3. LastKind(c) = (IF partial[c] THEN "partial" ELSE "user") /\ LastKind(c)' = "partial"
      BY <3>2 DEF LastKind
    <3> HIDE DEF r
    <3>4. CASE Put(c, r) /\ lost' = lost
      BY <2>4, <3>1, <3>2, <3>3, <3>4
    <3>5. CASE store' = store /\ lost' = lost /\ partial[c]
      BY <2>s, <3>2, <3>3, <3>5 DEF StoreInv, TypeOK
    <3>6. CASE store' = store /\ lost' = lost \cup {turn[c]} \cup Newest
      BY <2>f, <3>2, <3>6
    <3> QED
      BY <3>2, <3>4, <3>5, <3>6
  <2>6. CASE StoreAnswer(c)
    <3> DEFINE r == Row(turn[c], result[turn[c]])
    <3>1. /\ UNCHANGED <<result, turn, partial>> /\ pc[c] = "removed" /\ pc'[c] = "written"
          /\ \/ result[turn[c]] = "failed" /\ UNCHANGED <<store, lost>>
             \/ result[turn[c]] # "failed" /\ Put(c, r) /\ lost' = lost
             \/ store' = store /\ lost' = lost \cup {turn[c]}
      BY <2>6 DEF StoreAnswer, stored, history, turnVars, TypeOK
    <3>2. result[turn[c]] \in {"answer", "failed", "interrupted"}
      BY <2>1, <3>1 DEF ResultInv
    <3>3. result[turn[c]] # "failed" => r \in StoredRow /\ r.by = turn[c] /\ r.kind = result[turn[c]]
      BY <2>2, <3>2 DEF StoredRow, Row
    <3>4. LastKind(c) = (IF partial[c] THEN "partial" ELSE "user")
          /\ LastKind(c)' = IF result[turn[c]] # "failed" THEN result[turn[c]] ELSE LastKind(c)
      BY <3>1, <3>2 DEF LastKind
    <3> HIDE DEF r
    <3>5. CASE result[turn[c]] = "failed" /\ UNCHANGED <<store, lost>>
      BY <2>s, <3>1, <3>4, <3>5
    <3>6. CASE result[turn[c]] # "failed" /\ Put(c, r) /\ lost' = lost
      BY <2>4, <3>1, <3>2, <3>3, <3>4, <3>6
    <3>7. CASE store' = store /\ lost' = lost \cup {turn[c]}
      BY <2>f, <3>1, <3>7
    <3> QED
      BY <3>1, <3>5, <3>6, <3>7
  <2> QED
    BY <1>2, <2>3, <2>5, <2>6 DEF InnerStep
<1>3. ASSUME NEW c \in Sockets, EndTurn(c) PROVE StoreInv'
  <2>1. /\ pc[c] = "settled" /\ pc' = [pc EXCEPT ![c] = "none"]
        /\ turn' = [turn EXCEPT ![c] = 0] /\ partial' = [partial EXCEPT ![c] = FALSE]
        /\ UNCHANGED <<store, result, exposed, lost, turns>> /\ Spoiled' = Spoiled
    BY <1>3 DEF EndTurn, history, faults, stored, Spoiled
  <2>2. c \in Active /\ Active' = Active \ {c} /\ \A d \in Active' : turn'[d] = turn[d]
    BY <2>1 DEF Active, TypeOK
  <2>3. \A t \in Turns : t # turn[c] => (InTurn(t) => InTurn(t)')
    BY <2>2 DEF InTurn
  <2>4. ASSUME NEW t \in Turns \ Spoiled PROVE Exchange(t)'
    <3>1. Exchange(t)
      BY DEF StoreInv
    <3>2. CASE t # turn[c]
      BY <2>1, <2>3, <3>1, <3>2, SameRows
    <3>3. CASE t = turn[c]
      <4>1. n \in Nat /\ n > 0 /\ store[n].by = t /\ store[n].kind = LastKind(c)
        BY <2>2, <3>3, LenProperties, EmptySeq DEF StoreInv, TypeOK
      <4>2. ASSUME result[t] \in {"answer", "interrupted"}, NEW i \in 1..n, Asked(i, t)
            PROVE  i < n /\ store[i + 1].by = t /\ store[i + 1].kind = result[t]
        <5>1. store[n].kind = result[t] /\ n \in 1..n
          BY <2>1, <3>3, <4>1, <4>2 DEF LastKind
        <5>2. n > 1 /\ Asked(n - 1, t) /\ n - 1 \in 1..n
          BY <3>1, <4>1, <4>2, <5>1 DEF Exchange
        <5>3. i = n - 1
          BY <3>1, <4>2, <5>2 DEF Exchange
        <5> QED
          BY <4>1, <5>1, <5>2, <5>3
      <4> QED
        BY <2>1, <3>1, <4>2 DEF Exchange, Asked
    <3> QED
      BY <3>2, <3>3
  <2>5. \A d \in Active' : OverwritesOwn(d)'
    BY <2>1, <2>2 DEF OverwritesOwn, StoreInv, Active, TypeOK
  <2>6. \A d \in Active' : LastKind(d)' = LastKind(d)
    BY <2>1, <2>2 DEF LastKind, Active, TypeOK
  <2>7. \A d \in Sockets : pc'[d] \in {"none", "stored", "marked"} => ~partial'[d]
    BY <2>1 DEF StoreInv, TypeOK
  <2> QED
    BY <2>1, <2>2, <2>4, <2>5, <2>6, <2>7 DEF StoreInv
<1>4. CASE Outsider
  <2>1. /\ UNCHANGED <<pc, partial, exposed, result>> /\ \A c \in Sockets : turn'[c] = turn[c]
        /\ turns' \in {turns, turns + 1} /\ Spoiled' = Spoiled
    BY <1>4, OutsiderFrame DEF Spoiled
  <2>2. /\ \A t : InTurn(t)' <=> InTurn(t)
        /\ Active' = Active /\ \A c \in Active : LastKind(c)' = LastKind(c)
    BY <2>1 DEF InTurn, Active, LastKind
  <2>3. CASE UNCHANGED store
    <3>1. \A t \in Turns \ Spoiled : Exchange(t)'
      BY <2>1, <2>2, <2>3, SameRows DEF StoreInv
    <3>2. 1..turns \subseteq 1..turns'
      BY <1>0, <2>1
    <3>3. \A c \in Active : OverwritesOwn(c)'
      BY <2>1, <2>3 DEF StoreInv, OverwritesOwn, Active
    <3> QED
      BY <2>1, <2>2, <2>3, <3>1, <3>2, <3>3 DEF StoreInv, Active
  <2>4. ASSUME NEW p \in Posts, Notify(p), AppendRow(Row(turns + 1, "notice")) PROVE StoreInv'
    <3> DEFINE r == Row(turns + 1, "notice")
    <3>1. p \in inside /\ turns' = turns + 1 /\ turns < MaxTurns /\ AppendRow(r)
      BY <2>4 DEF Notify
    <3>2. r \in StoredRow /\ r.by = turns + 1 /\ r.kind = "notice"
      BY <1>0, <3>1 DEF StoredRow, Turns, Row
    <3>3. /\ n \in Nat /\ Len(store') = n + 1 /\ store' # <<>>
          /\ \A i \in 1..n : store'[i] = store[i]
          /\ store'[n + 1] = r
      BY <3>1, <3>2, StoreRows
    <3>4. \A c \in Active : turn[c] \in exposed /\ turn[c] \in Spoiled
      BY <3>1 DEF AloneInv, Outside, Active, Spoiled
    <3> HIDE DEF r, n
    <3>5. \A i \in 1..(n + 1) : store'[i].by \in 1..turns'
      <4> SUFFICES ASSUME NEW i \in 1..(n + 1) PROVE store'[i].by \in 1..turns'
        OBVIOUS
      <4>1. i \in 1..n \/ i = n + 1
        BY <3>3
      <4> QED
        BY <1>0, <3>1, <3>2, <3>3, <4>1 DEF StoreInv, n
    <3>6. \A c \in Active : OverwritesOwn(c)'
      BY <2>1, <3>2, <3>3, <3>4 DEF OverwritesOwn, Active
    <3>7. \A t \in Turns \ Spoiled : Exchange(t)'
      BY <2>1, <2>2, <3>1, <3>2, AppendKeeps
    <3> QED
      BY <2>1, <2>2, <3>3, <3>4, <3>5, <3>6, <3>7 DEF StoreInv, Active
  <2> QED
    BY <1>4, <2>3, <2>4 DEF Outsider, QueueStep, AbortLooksUp, AbortCancels, Connect, Reconnect,
       AskTurn, AskPost, EndPost, Notify, stored, vars
<1>5. CASE DeleteCancels \/ DeleteRows
  <2>1. /\ UNCHANGED <<pc, turn, partial, result, turns>> /\ store' \in {store, <<>>}
        /\ Spoiled \subseteq Spoiled' /\ \A c \in Active : turn[c] \in exposed'
    BY <1>5 DEF DeleteCancels, DeleteRows, Expose, turnVars, stored, faults, Spoiled
  <2>2. Active' = Active /\ \A t : InTurn(t)' <=> InTurn(t)
    BY <2>1 DEF Active, InTurn
  <2>3. \A c \in Active : turn[c] \in Spoiled'
    BY <2>1 DEF Spoiled
  <2>4. CASE store' = store
    <3>1. \A t \in Turns \ Spoiled' : Exchange(t)'
      BY <2>1, <2>2, <2>4, SameRows DEF StoreInv
    <3>2. \A c \in Active : OverwritesOwn(c)'
      BY <2>1, <2>4 DEF StoreInv, OverwritesOwn, Spoiled
    <3> QED
      BY <2>1, <2>2, <2>3, <2>4, <3>1, <3>2 DEF StoreInv
  <2>5. CASE store' = <<>>
    <3>1. \A i \in 1..Len(store') : FALSE
      BY <2>5
    <3> QED
      BY <2>1, <2>2, <2>3, <2>5, <3>1 DEF StoreInv, OverwritesOwn, Exchange
  <2> QED
    BY <2>1, <2>4, <2>5
<1>6. CASE Crash
  <2>1. /\ Active' = {} /\ UNCHANGED <<store, turns>> /\ Spoiled' = Spoiled
        /\ \A c \in Sockets : ~partial'[c]
        /\ \A t \in Turns : result'[t] = IF InTurn(t) THEN "crashed" ELSE result[t]
    BY <1>6 DEF Crash, Active, InTurn, stored, faults, Spoiled
  <2>2. ASSUME NEW t \in Turns \ Spoiled PROVE Exchange(t)'
    <3>1. Exchange(t)
      BY DEF StoreInv
    <3> QED
      BY <2>1, <3>1 DEF Exchange, Asked
  <2> QED
    BY <2>1, <2>2 DEF StoreInv
<1> QED
  BY <1>1, <1>2, <1>3, <1>4, <1>5, <1>6, StepKinds

\* A transcript whose exchanges are whole row by row is whole.
LEMMA Whole ==
  ASSUME TypeOK, StoreInv
  PROVE  WholeExchange
<1> SUFFICES ASSUME NEW t \in Turns \ Spoiled
             PROVE  /\ Cardinality(Rows(t, {"user"})) <= 1
                    /\ \A i \in Rows(t, {"partial", "answer", "interrupted"}) :
                         i > 1 /\ store[i - 1] = Row(t, "user")
                    /\ \A i \in Rows(t, {"user"}) :
                         result[t] \in {"answer", "interrupted"} /\ ~InTurn(t)
                         => i < Len(store) /\ store[i + 1] = Row(t, result[t])
  BY DEF WholeExchange
<1>1. /\ Exchange(t) /\ Len(store) \in Nat /\ DOMAIN store = 1..Len(store)
      /\ \A i \in 1..Len(store) : store[i] \in StoredRow
  BY LenProperties, ElementOfSeq DEF StoreInv, TypeOK, StoredRow
<1>2. \A r \in StoredRow : r = Row(r.by, r.kind)
  BY DEF StoredRow, Row
<1>3. Cardinality(Rows(t, {"user"})) <= 1
  <2>1. CASE Rows(t, {"user"}) = {}
    BY <2>1, FS_EmptySet
  <2>2. CASE Rows(t, {"user"}) # {}
    <3>1. PICK i \in Rows(t, {"user"}) : TRUE
      BY <2>2
    <3>2. Rows(t, {"user"}) = {i}
      BY <1>1, <3>1 DEF Exchange, Asked, Rows
    <3> QED
      BY <3>2, FS_Singleton
  <2> QED
    BY <2>1, <2>2
<1>4. ASSUME NEW i \in Rows(t, {"partial", "answer", "interrupted"})
      PROVE  i > 1 /\ store[i - 1] = Row(t, "user")
  <2>1. i \in 1..Len(store) /\ i > 1 /\ Asked(i - 1, t)
    BY <1>1 DEF Exchange, Rows
  <2>2. i - 1 \in 1..Len(store)
    BY <1>1, <2>1
  <2> QED
    BY <1>1, <1>2, <2>1, <2>2 DEF Asked
<1>5. ASSUME NEW i \in Rows(t, {"user"}), result[t] \in {"answer", "interrupted"}, ~InTurn(t)
      PROVE  i < Len(store) /\ store[i + 1] = Row(t, result[t])
  <2>1. /\ i \in 1..Len(store) /\ i < Len(store)
        /\ store[i + 1].by = t /\ store[i + 1].kind = result[t]
    BY <1>1, <1>5 DEF Exchange, Rows, Asked
  <2>2. i + 1 \in 1..Len(store)
    BY <1>1, <2>1
  <2> QED
    BY <1>1, <1>2, <2>1, <2>2
<1> QED
  BY <1>3, <1>4, <1>5

-----------------------------------------------------------------------------
(* The invariant and what follows from it.                                 *)

\* A session that nobody has used has no turns and no rows.
LEMMA InitInv == Init => IInv
<1> SUFFICES ASSUME Init PROVE IInv
  OBVIOUS
<1> USE Kinds
<1>1. Active = {} /\ Len(<<>>) = 0 /\ 0 \in 0..MaxTurns
  BY DEF Init, Active
<1>2. TypeOK
  <2>1. <<>> \in Seq([by : Turns, kind : {"user", "partial", "answer", "interrupted", "notice"}])
    BY EmptySeq
  <2>2. /\ turn \in [Callers -> 0..MaxTurns] /\ partial \in [Sockets -> BOOLEAN]
        /\ result \in [Turns -> {"none", "answer", "failed", "interrupted", "crashed"}]
    BY <1>1 DEF Init
  <2> QED
    BY <1>1, <2>1, <2>2 DEF Init, TypeOK, Idle, Queue!LockInit
<1>3. NumberInv /\ ResultInv /\ AloneInv /\ TokenFollowsTurn
  BY <1>1 DEF Init, NumberInv, ResultInv, AloneInv, TokenFollowsTurn, Queue!LockInit
<1>4. StateInv
  BY <1>1 DEF Init, StateInv, StateAgrees, Idle
<1>5. StoreInv
  BY <1>1 DEF Init, StoreInv, Exchange, OverwritesOwn
<1> QED
  BY <1>2, <1>3, <1>4, <1>5 DEF IInv

\* The invariant holds in every reachable state.
THEOREM Safety == Spec => []IInv
<1>1. IInv /\ [Next]_vars => IInv'
  <2> SUFFICES ASSUME IInv, [Next]_vars PROVE IInv'
    OBVIOUS
  <2>1. TypeOK' /\ NumberInv' /\ ResultInv' /\ AloneInv'
    BY TypeStep, NumberStep, ResultStep, AloneStep DEF IInv
  <2> QED
    BY <2>1, TokenStep, StateStep, StoreStep DEF IInv
<1> QED
  BY InitInv, <1>1, PTL DEF Spec

\* The tables of the gateway and the rows of the session store keep their types.
THEOREM TypeCorrect == Spec => []TypeOK
<1>1. IInv => TypeOK
  BY DEF IInv
<1> QED
  BY <1>1, Safety, PTL

\* An abort finds the token of the turn that runs in the queue, and only of a turn
\* that runs.
THEOREM AbortFindsTurn == Spec => []TokenFollowsTurn
<1>1. IInv => TokenFollowsTurn
  BY DEF IInv
<1> QED
  BY <1>1, Safety, PTL

\* The state column names the turn that runs, and after a crash the one that did,
\* but where a write of it failed.
THEOREM StateIsTrue == Spec => []StateAgrees
<1>1. IInv => StateAgrees
  BY DEF IInv, StateInv
<1> QED
  BY <1>1, Safety, PTL

\* Question and answer of a turn stay together in the transcript, whatever partial
\* saves, posts, crashes, reconnects and failed calls of other turns come between,
\* unless a DELETE or a turn outside the queue overlapped it or a failed call of the
\* store has cost it a row: its own, or a later turn's that overwrote its last one.
THEOREM ExchangesAreWhole == Spec => []WholeExchange
<1>1. IInv => WholeExchange
  BY Whole DEF IInv
<1> QED
  BY <1>1, Safety, PTL

-----------------------------------------------------------------------------
(* The rows of a turn that is over.                                        *)

\* The row belongs to a turn that is over and is not spoiled, or is a notice that
\* no exposed turn runs beside.
Over(i) ==
  /\ store[i].by \notin Spoiled /\ ~InTurn(store[i].by)
  /\ store[i].kind = "notice" => \A c \in Active : turn[c] \notin exposed

\* Outside of a DELETE, what one turn has stored no other turn, notice, abort or
\* crash changes, though update_last takes whatever row is the newest.  The one row
\* it takes from another turn is the newest when a first draft's append failed, if
\* the question's had failed before: lost names its turn from then on.
RowsOfOthersKept ==
  ~deleting => \A i \in 1..Len(store) : Over(i) => i <= Len(store') /\ store'[i] = store[i]

\* The newest row is not over when a turn updates it.
LEMMA UpdatesItsOwn ==
  ASSUME StoreInv, NEW c \in Active, partial[c], store # <<>>
  PROVE  ~Over(Len(store))
BY DEF StoreInv, OverwritesOwn, Over, InTurn

\* The stored transcript only grows, but for the row of a turn that runs and the rows
\* of spoiled ones.
THEOREM TranscriptIsKept == Spec => [][RowsOfOthersKept]_vars
<1>1. IInv /\ [Next]_vars => RowsOfOthersKept
  <2> SUFFICES ASSUME IInv, [Next]_vars, ~deleting, NEW i \in 1..Len(store), Over(i)
               PROVE  i <= Len(store') /\ store'[i] = store[i]
    BY DEF RowsOfOthersKept
  <2>t. TypeOK /\ NumberInv /\ ResultInv /\ StoreInv /\ Len(store) \in Nat
    BY LenProperties DEF IInv, TypeOK
  <2>a. ASSUME NEW r \in StoredRow, AppendRow(r) PROVE i <= Len(store') /\ store'[i] = store[i]
    BY <2>t, <2>a, StoreRows
  <2>u. ASSUME NEW r \in StoredRow, UpdateLast(r), NEW c \in Active, partial[c]
        PROVE  i <= Len(store') /\ store'[i] = store[i]
    <3>1. store # <<>> => i # Len(store)
      BY <2>t, <2>u, UpdatesItsOwn
    <3> QED BY <2>t, <2>u, <3>1, StoreRows
  <2>s. store' = store => i <= Len(store') /\ store'[i] = store[i]
    BY <2>t
  <2> USE Kinds
  <2>1. ASSUME NEW c \in Sockets, StoreUser(c) \/ FirstMessage(c)
        PROVE  i <= Len(store') /\ store'[i] = store[i]
    <3>1. (AppendRow(Row(turns + 1, "user")) \/ store' = store) /\ turns < MaxTurns
      BY <2>t, <2>1, Begins DEF BeginTurn, stored
    <3>2. Row(turns + 1, "user") \in StoredRow
      BY <2>t, <3>1 DEF TypeOK, Turns, StoredRow, Row
    <3> QED BY <2>a, <2>s, <3>1, <3>2
  <2>2. ASSUME NEW c \in Sockets, InnerStep(c)
        PROVE  i <= Len(store') /\ store'[i] = store[i]
    <3>0. c \in Active
      BY <2>t, <2>2, InnerFrame
    <3>1. turn[c] \in Turns
      BY <2>t, <3>0 DEF NumberInv, TypeOK, Turns
    <3>2. CASE SavePartial(c)
      <4>1. Row(turn[c], "partial") \in StoredRow
        BY <3>1 DEF StoredRow, Row
      <4> QED BY <2>a, <2>u, <2>s, <3>0, <3>2, <4>1 DEF SavePartial, Put, stored
    <3>3. CASE StoreAnswer(c)
      <4>1. result[turn[c]] \in {"answer", "failed", "interrupted"}
        BY <2>t, <3>0, <3>3 DEF ResultInv, StoreAnswer
      <4>2. result[turn[c]] # "failed" => Row(turn[c], result[turn[c]]) \in StoredRow
        BY <3>1, <4>1 DEF StoredRow, Row
      <4> QED BY <2>a, <2>u, <2>s, <3>0, <3>3, <4>2 DEF StoreAnswer, Put, stored
    <3>4. CASE \/ MarkRunning(c) \/ InstallToken(c) \/ ClientGone(c) \/ Joined(c)
               \/ RemoveToken(c) \/ Settle(c)
      BY <2>s, <3>4 DEF MarkRunning, InstallToken, ClientGone, Joined, RemoveToken, Settle,
                        Say, SetState, stored
    <3> QED BY <2>2, <3>2, <3>3, <3>4 DEF InnerStep
  <2>3. ASSUME NEW c \in Sockets, EndTurn(c) PROVE i <= Len(store') /\ store'[i] = store[i]
    BY <2>s, <2>3 DEF EndTurn, stored
  <2>4. CASE Outsider
    <3>1. CASE QueueStep \/ AbortLooksUp \/ AbortCancels \/ UNCHANGED vars
      BY <2>s, <3>1 DEF QueueStep, AbortLooksUp, AbortCancels, vars, stored
    <3>2. ASSUME NEW c \in Sockets, Connect(c) \/ Reconnect(c) \/ AskTurn(c)
          PROVE  i <= Len(store') /\ store'[i] = store[i]
      BY <2>s, <3>2 DEF Connect, Reconnect, AskTurn, stored
    <3>3. ASSUME NEW p \in Posts, AskPost(p) \/ EndPost(p)
          PROVE  i <= Len(store') /\ store'[i] = store[i]
      BY <2>s, <3>3 DEF AskPost, EndPost, stored
    <3>4. ASSUME NEW p \in Posts, Notify(p) PROVE i <= Len(store') /\ store'[i] = store[i]
      <4>1. Row(turns + 1, "notice") \in StoredRow
        BY <2>t, <3>4 DEF Notify, TypeOK, Turns, StoredRow, Row
      <4> QED BY <2>a, <2>s, <3>4, <4>1 DEF Notify, stored
    <3> QED BY <2>4, <3>1, <3>2, <3>3, <3>4 DEF Outsider
  <2>5. CASE DeleteCancels \/ DeleteRows \/ Crash
    BY <2>s, <2>5 DEF DeleteCancels, DeleteRows, Crash, stored
  <2> QED BY <2>1, <2>2, <2>3, <2>4, <2>5, StepKinds
<1> QED BY <1>1, Safety, PTL DEF Spec

-----------------------------------------------------------------------------
(* The stored session implements Exchanges.                                *)

\* A turn that is not spoiled is the only active one, and the one that is open.
OneIsOpen ==
  /\ Disturbed => OpenTurn = 0
  /\ Active = {} => OpenTurn = 0 /\ ~Disturbed
  /\ \A c \in Active : turn[c] \notin Spoiled =>
       /\ ~Disturbed /\ c \in inside /\ Active = {c}
       /\ OpenTurn = IF pc[c] \in {"written", "settled"} THEN 0 ELSE turn[c]

LEMMA WhoIsOpen == TypeOK /\ AloneInv => OneIsOpen
<1> SUFFICES ASSUME TypeOK, AloneInv PROVE OneIsOpen
  OBVIOUS
<1>1. Disturbed => Writers = {}
  BY DEF Disturbed, Writers, AloneInv, Spoiled
<1>2. Active = {} => Writers = {} /\ ~Disturbed
  BY DEF Disturbed, Writers
<1>3. ASSUME NEW c \in Active, turn[c] \notin Spoiled
      PROVE  /\ ~Disturbed /\ c \in inside /\ Active = {c}
             /\ OpenTurn = IF pc[c] \in {"written", "settled"} THEN 0 ELSE turn[c]
  <2>1. c \in inside /\ Active = {c}
    BY <1>3 DEF AloneInv, Outside, Spoiled
  <2>2. Writers = IF pc[c] \in {"written", "settled"} THEN {} ELSE {c}
    BY <1>3, <2>1 DEF Writers
  <2> QED BY <1>3, <2>1, <2>2 DEF Disturbed, OpenTurn
<1> QED BY <1>1, <1>2, <1>3 DEF OpenTurn, OneIsOpen

LEMMA WhoIsOpenNext == TypeOK' /\ AloneInv' => OneIsOpen'
BY WhoIsOpen, PTL

\* What a write may do to the rows while a turn is disturbed.
LEMMA DisturbedWrite ==
  ASSUME TypeOK, NEW r \in StoredRow, AppendRow(r) \/ UpdateLast(r)
  PROVE  Len(store') \in {Len(store), Len(store) + 1}
         /\ \A i \in 1..Len(store) - 1 : store'[i] = store[i]
BY StoreRows

\* A turn begins behind whatever is stored, or disturbs.
LEMMA BeginTells ==
  ASSUME IInv, OneIsOpen, OneIsOpen', NEW c \in Sockets, StoreUser(c) \/ FirstMessage(c)
  PROVE  Story!StoryNext
<1>t. TypeOK /\ NumberInv /\ AloneInv /\ StoreInv
  BY DEF IInv
<1>1. BeginTurn(c) /\ pc[c] = "none" /\ turn[c] = 0
  BY <1>t, Begins
<1>2. /\ turns + 1 \in Turns /\ turns' = turns + 1 /\ turn'[c] = turns + 1
      /\ pc'[c] = "stored" /\ c \in Active'
      /\ \/ AppendRow(Row(turns + 1, "user"))
         \/ store' = store /\ turns + 1 \in Spoiled'
  BY <1>t, <1>1, Kinds DEF BeginTurn, TypeOK, Turns, Active, Spoiled, stored
<1>3. Row(turns + 1, "user") \in StoredRow
  BY <1>2 DEF StoredRow, Row
<1>4. CASE turns + 1 \in Spoiled'
  <2>1. Disturbed' /\ OpenTurn' = 0
    BY <1>2, <1>4 DEF Disturbed, OneIsOpen
  <2> QED BY <1>t, <1>2, <1>3, <2>1, DisturbedWrite DEF Story!StoryNext, Story!Disturbance
<1>5. CASE turns + 1 \notin Spoiled'
  <2>1. c \in inside /\ \A d \in Active : ~Outside(d)
    BY <1>1, <1>5 DEF BeginTurn, Outside, Spoiled
  <2>2. Active = {}
    BY <1>t, <1>1, <2>1 DEF Active, AloneInv, Outside
  <2>3. OpenTurn = 0 /\ ~Disturbed /\ OpenTurn' = turns + 1 /\ ~Disturbed'
    BY <1>2, <1>5, <2>2 DEF OneIsOpen
  <2>4. \A i \in 1..Len(store) : store[i].by # turns + 1
    <3>1. turns \in Nat /\ \A i \in 1..Len(store) : store[i].by \in 1..turns
      BY <1>t DEF StoreInv, TypeOK
    <3> QED BY <3>1
  <2>5. store' = Append(store, Row(turns + 1, "user"))
    BY <1>2, <1>5 DEF AppendRow
  <2> QED BY <1>2, <2>3, <2>4, <2>5 DEF Story!StoryNext, Story!Question, Story!Calm, Story!New,
                                         Story!Line, Row
<1> QED BY <1>4, <1>5

\* Inside a turn: a draft, the answer, a failure, or nothing a reader sees.
LEMMA InnerTells ==
  ASSUME IInv, OneIsOpen, OneIsOpen', NEW c \in Sockets, InnerStep(c)
  PROVE  Story!StoryNext \/ UNCHANGED Story!storyVars
<1>t. TypeOK /\ ResultInv /\ StoreInv
  BY DEF IInv
<1>1. /\ c \in Active /\ Active' = Active /\ turn' = turn
      /\ Spoiled \subseteq Spoiled' /\ (Disturbed => Disturbed')
      /\ lost' = lost => Spoiled' = Spoiled /\ Disturbed' = Disturbed
      /\ \A d \in Active \ {c} : turn[c] \in Spoiled
  BY <1>t, InnerFrame DEF Disturbed, Spoiled, IInv, AloneInv
<1>2. turn[c] \in Turns /\ turn[c] # 0
  BY <1>t, <1>1, Kinds DEF IInv, NumberInv, TypeOK, Turns
<1>s. ASSUME store' = store, lost' = lost,
             pc'[c] \in {"written", "settled"} <=> pc[c] \in {"written", "settled"}
      PROVE  UNCHANGED Story!storyVars
  <2>1. OpenTurn' = OpenTurn
    BY <1>1, <1>s DEF OneIsOpen, Disturbed
  <2> QED BY <1>1, <1>s, <2>1 DEF Story!storyVars
<1>f. ASSUME store' = store, turn[c] \in lost' PROVE Story!StoryNext
  <2>1. Disturbed' /\ OpenTurn' = 0
    BY <1>1, <1>f DEF OneIsOpen, Disturbed, Spoiled
  <2> QED BY <1>f, <2>1 DEF Story!StoryNext, Story!Disturbance
<1>3. CASE \/ MarkRunning(c) \/ InstallToken(c) \/ ClientGone(c) \/ Joined(c)
           \/ RemoveToken(c) \/ Settle(c)
  <2>1. store' = store /\ lost' = lost
    BY <1>3 DEF MarkRunning, InstallToken, ClientGone, Joined, RemoveToken, Settle, Say, SetState,
                stored, history, faults
  <2>2. pc'[c] \in {"written", "settled"} <=> pc[c] \in {"written", "settled"}
    BY <1>t, <1>1, <1>3 DEF MarkRunning, InstallToken, ClientGone, Joined, RemoveToken, Settle,
                       turnVars, TypeOK
  <2> QED BY <1>s, <2>1, <2>2
<1>d. Disturbed' => OpenTurn' = 0
  BY DEF OneIsOpen
<1>4. ASSUME Disturbed, NEW r \in StoredRow, AppendRow(r) \/ UpdateLast(r)
      PROVE  Story!StoryNext
  <2>1. Disturbed' /\ OpenTurn' = 0
    BY <1>1, <1>d, <1>4
  <2> QED BY <1>t, <1>4, <2>1, DisturbedWrite DEF Story!StoryNext, Story!Disturbance
<1>5. ASSUME ~Disturbed, lost' = lost, pc[c] \in {"running", "removed"}, NEW kind,
             \/ ~partial[c] /\ AppendRow(Row(turn[c], kind))
             \/ partial[c] /\ UpdateLast(Row(turn[c], kind))
      PROVE  Story!Calm /\ Story!Put(kind) /\ OpenTurn = turn[c]
  <2>1. turn[c] \notin Spoiled
    BY <1>1, <1>5 DEF Disturbed
  <2>2. OpenTurn = turn[c] /\ ~Disturbed'
    BY <1>1, <1>5, <2>1 DEF OneIsOpen
  <2>3. /\ store # <<>> /\ store[Len(store)].by = turn[c]
        /\ store[Len(store)].kind = IF partial[c] THEN "partial" ELSE "user"
    BY <1>t, <1>1, <1>5, <2>1 DEF StoreInv, LastKind
  <2> QED BY <1>2, <1>5, <2>2, <2>3 DEF Story!Calm, Story!Put, Story!LastLine, Story!Line, Row,
                                         AppendRow, UpdateLast
<1>6. CASE SavePartial(c)
  <2>1. /\ pc[c] = "running" /\ pc'[c] = "running"
        /\ \/ /\ lost' = lost
              /\ \/ ~partial[c] /\ AppendRow(Row(turn[c], "partial"))
                 \/ partial[c] /\ UpdateLast(Row(turn[c], "partial"))
           \/ store' = store /\ (lost' = lost \/ turn[c] \in lost')
    BY <1>6 DEF SavePartial, Put, stored
  <2>2. CASE store' = store /\ (lost' = lost \/ turn[c] \in lost')
    BY <1>s, <1>f, <2>1, <2>2
  <2>3. CASE Disturbed
    <3>1. Row(turn[c], "partial") \in StoredRow
      BY <1>2 DEF StoredRow, Row
    <3> QED BY <1>4, <2>1, <2>2, <2>3, <3>1
  <2>4. ASSUME ~Disturbed, lost' = lost,
               \/ ~partial[c] /\ AppendRow(Row(turn[c], "partial"))
               \/ partial[c] /\ UpdateLast(Row(turn[c], "partial"))
        PROVE  Story!StoryNext
    <3>1. Story!Calm /\ Story!Put("partial") /\ OpenTurn = turn[c]
      BY <1>5, <2>1, <2>4
    <3>2. OpenTurn' = turn[c]
      BY <1>1, <2>1, <2>4 DEF OneIsOpen, Disturbed
    <3> QED BY <3>1, <3>2 DEF Story!StoryNext, Story!Draft
  <2> QED BY <2>1, <2>2, <2>3, <2>4
<1>7. CASE StoreAnswer(c)
  <2> DEFINE r == result[turn[c]]
  <2>1. pc[c] = "removed" /\ pc'[c] = "written" /\ r \in {"answer", "failed", "interrupted"}
    BY <1>t, <1>1, <1>7 DEF StoreAnswer, ResultInv, TypeOK
  <2>2. OpenTurn' = 0
    BY <1>1, <2>1 DEF OneIsOpen, Disturbed
  <2>3. CASE r = "failed" /\ UNCHANGED <<stored, lost>>
    <3>1. store' = store /\ Disturbed' = Disturbed
      BY <1>1, <2>3 DEF stored
    <3>2. ~Disturbed => OpenTurn # 0
      BY <1>1, <1>2, <2>1 DEF OneIsOpen, Disturbed
    <3> QED BY <1>1, <2>2, <3>1, <3>2 DEF Story!StoryNext, Story!Abandon, Story!Disturbance,
                                         Story!Calm
  <2>4. CASE r # "failed" /\ Put(c, Row(turn[c], r)) /\ lost' = lost
    <3>1. \/ ~partial[c] /\ AppendRow(Row(turn[c], r))
          \/ partial[c] /\ UpdateLast(Row(turn[c], r))
      BY <2>4 DEF Put
    <3>2. CASE Disturbed
      <4>1. Row(turn[c], r) \in StoredRow
        BY <1>2, <2>1, <2>4 DEF StoredRow, Row
      <4> QED BY <1>4, <3>1, <3>2, <4>1
    <3>3. CASE ~Disturbed
      <4>1. Story!Calm /\ Story!Put(r) /\ r \in {"answer", "interrupted"}
        BY <1>5, <2>1, <2>4, <3>1, <3>3
      <4> QED BY <2>2, <4>1 DEF Story!StoryNext, Story!Conclude
    <3> QED BY <3>2, <3>3
  <2>5. CASE store' = store /\ turn[c] \in lost'
    BY <1>f, <2>5
  <2> QED BY <1>7, <2>3, <2>4, <2>5 DEF StoreAnswer, stored
<1> QED BY <1>3, <1>6, <1>7 DEF InnerStep

\* Outside of turns: a notice between two exchanges, or nothing a reader sees.
LEMMA OutsiderTells ==
  ASSUME IInv, OneIsOpen, OneIsOpen', Outsider
  PROVE  Story!StoryNext \/ UNCHANGED Story!storyVars
<1>t. TypeOK /\ NumberInv /\ AloneInv /\ StoreInv
  BY DEF IInv
<1>1. Active' = Active /\ pc' = pc /\ Spoiled' = Spoiled /\ \A c \in Sockets : turn'[c] = turn[c]
  BY <1>t, OutsiderFrame DEF Active, Spoiled
<1>2. Disturbed' = Disturbed /\ OpenTurn' = OpenTurn
  <2>1. Disturbed' = Disturbed /\ Active \subseteq Sockets
    BY <1>1 DEF Disturbed, Active
  <2>2. CASE Disturbed \/ Active = {}
    BY <1>1, <2>1, <2>2 DEF OneIsOpen
  <2>3. CASE ~Disturbed /\ Active # {}
    BY <1>1, <2>1, <2>3 DEF OneIsOpen, Disturbed
  <2> QED BY <2>1, <2>2, <2>3
<1>3. store' = store => UNCHANGED Story!storyVars
  BY <1>2 DEF Story!storyVars
<1>4. CASE QueueStep \/ AbortLooksUp \/ AbortCancels \/ UNCHANGED vars
  BY <1>3, <1>4 DEF QueueStep, AbortLooksUp, AbortCancels, vars, stored
<1>5. ASSUME NEW c \in Sockets, Connect(c) \/ Reconnect(c) \/ AskTurn(c)
      PROVE  UNCHANGED Story!storyVars
  BY <1>3, <1>5 DEF Connect, Reconnect, AskTurn, stored
<1>6. ASSUME NEW p \in Posts, AskPost(p) \/ EndPost(p)
      PROVE  UNCHANGED Story!storyVars
  BY <1>3, <1>6 DEF AskPost, EndPost, stored
<1>7. ASSUME NEW p \in Posts, Notify(p), AppendRow(Row(turns + 1, "notice"))
      PROVE  Story!StoryNext
  <2>1. AppendRow(Row(turns + 1, "notice")) /\ p \in inside /\ turns + 1 \in Turns
    BY <1>t, <1>7, Kinds DEF Notify, TypeOK, Turns
  <2>2. Row(turns + 1, "notice") \in StoredRow
    BY <2>1 DEF StoredRow, Row
  <2>3. CASE Disturbed
    <3>1. Disturbed' /\ OpenTurn' = 0
      BY <1>2, <2>3 DEF OneIsOpen
    <3> QED BY <1>t, <2>1, <2>2, <3>1, DisturbedWrite DEF Story!StoryNext, Story!Disturbance
  <2>4. CASE ~Disturbed
    <3>1. Active = {}
      BY <1>t, <2>1, <2>4, Kinds DEF Disturbed, AloneInv, Outside, Active, Spoiled
    <3>2. OpenTurn = 0
      BY <3>1 DEF OneIsOpen
    <3>3. \A i \in 1..Len(store) : store[i].by # turns + 1
      BY <1>t DEF StoreInv, TypeOK
    <3> QED BY <1>2, <2>1, <2>4, <3>2, <3>3 DEF Story!StoryNext, Story!Notice, Story!Calm,
                                       Story!New, Story!Line, Row, AppendRow
  <2> QED BY <2>3, <2>4
<1>8. ASSUME NEW p \in Posts, Notify(p)
      PROVE  Story!StoryNext \/ UNCHANGED Story!storyVars
  BY <1>3, <1>7, <1>8 DEF Notify, stored
<1> QED BY <1>4, <1>5, <1>6, <1>8 DEF Outsider

\* The end of a turn, a DELETE and the death of the process.
LEMMA EndTells ==
  ASSUME IInv, OneIsOpen, OneIsOpen',
         (\E c \in Sockets : EndTurn(c)) \/ DeleteCancels \/ DeleteRows \/ Crash
  PROVE  Story!StoryNext \/ UNCHANGED Story!storyVars
<1>t. TypeOK /\ AloneInv
  BY DEF IInv
<1>d. Disturbed' => OpenTurn' = 0
  BY DEF OneIsOpen
<1>a. ASSUME store' = store \/ store' = <<>>, Disturbed \/ Disturbed', OpenTurn' = 0
      PROVE  Story!StoryNext
  BY <1>a DEF Story!StoryNext, Story!Disturbance
<1>b. ASSUME store' = store, OpenTurn' = 0, ~Disturbed, ~Disturbed'
      PROVE  Story!StoryNext \/ UNCHANGED Story!storyVars
  <2>1. Disturbed' = Disturbed
    BY <1>b DEF Disturbed
  <2>2. CASE OpenTurn = 0
    BY <1>b, <2>1, <2>2 DEF Story!storyVars
  <2>3. CASE OpenTurn # 0
    BY <1>b, <2>3 DEF Story!StoryNext, Story!Abandon, Story!Calm
  <2> QED BY <2>2, <2>3
<1>1. ASSUME NEW c \in Sockets, EndTurn(c)
      PROVE  Story!StoryNext \/ UNCHANGED Story!storyVars
  <2>1. /\ store' = store /\ Spoiled' = Spoiled /\ pc[c] = "settled" /\ c \in Active
        /\ Active' = Active \ {c} /\ \A d \in Active' : turn'[d] = turn[d]
    BY <1>t, <1>1 DEF EndTurn, stored, history, faults, Spoiled, Active, TypeOK
  <2>2. CASE Disturbed
    <3>1. ~Disturbed' => Active' = {}
      BY <1>t, <2>1, <2>2 DEF Disturbed, AloneInv, Spoiled
    <3>2. OpenTurn' = 0
      BY <1>d, <3>1 DEF OneIsOpen
    <3> QED BY <1>a, <2>1, <2>2, <3>2
  <2>3. CASE ~Disturbed
    <3>1. turn[c] \notin Spoiled
      BY <2>1, <2>3 DEF Disturbed
    <3>2. Active = {c} /\ OpenTurn = 0
      BY <2>1, <3>1 DEF OneIsOpen
    <3>3. Active' = {}
      BY <2>1, <3>2
    <3>4. OpenTurn' = 0 /\ ~Disturbed'
      BY <3>3 DEF OneIsOpen
    <3> QED BY <1>b, <2>1, <2>3, <3>4
  <2> QED BY <2>2, <2>3
<1>2. CASE DeleteCancels \/ DeleteRows
  <2>1. /\ store' \in {store, <<>>} /\ Active' = Active /\ turn' = turn
        /\ exposed' = exposed \cup {turn[c] : c \in Active}
    BY <1>2 DEF DeleteCancels, DeleteRows, stored, turnVars, Expose, Active
  <2>2. CASE Active = {}
    <3>1. OpenTurn = 0 /\ ~Disturbed
      BY <2>2 DEF OneIsOpen
    <3>2. OpenTurn' = 0 /\ ~Disturbed'
      BY <2>1, <2>2 DEF OneIsOpen
    <3>3. CASE store' = store
      BY <1>b, <3>1, <3>2, <3>3
    <3>4. CASE store' = <<>>
      BY <3>1, <3>2, <3>4 DEF Story!StoryNext, Story!Wipe, Story!Calm
    <3> QED BY <2>1, <3>3, <3>4
  <2>3. CASE Active # {}
    <3>1. Disturbed'
      BY <2>1, <2>3 DEF Disturbed, Spoiled
    <3> QED BY <1>a, <1>d, <2>1, <3>1
  <2> QED BY <2>2, <2>3
<1>3. CASE Crash
  <2>1. store' = store /\ Active' = {}
    BY <1>3 DEF Crash, stored, Active
  <2>2. OpenTurn' = 0 /\ ~Disturbed'
    BY <2>1 DEF OneIsOpen
  <2> QED BY <1>a, <1>b, <2>1, <2>2
<1> QED BY <1>1, <1>2, <1>3

\* Sockets, posts, partial saves, aborts, crashes, DELETEs and failed calls of the store,
\* however they interleave, leave a transcript that was written exchange by exchange,
\* disturbed while a turn runs that a DELETE, a turn around the queue or a lost row of
\* its own has spoiled.
THEOREM TranscriptIsExchanges == Spec => KeepsExchanges
<1>1. Init => Story!StoryInit
  <2> SUFFICES ASSUME Init PROVE store = <<>> /\ OpenTurn = 0 /\ ~Disturbed
    BY DEF Story!StoryInit
  <2>1. store = <<>> /\ Active = {}
    BY DEF Init, Active
  <2> QED BY <2>1 DEF OpenTurn, Writers, Disturbed
<1>2. IInv /\ OneIsOpen /\ OneIsOpen' /\ [Next]_vars => [Story!StoryNext]_(Story!storyVars)
  BY BeginTells, InnerTells, OutsiderTells, EndTells, StepKinds
<1>3. IInv => TypeOK /\ AloneInv
  BY DEF IInv
<1> QED BY <1>1, <1>2, <1>3, Safety, WhoIsOpen, PTL DEF Spec, KeepsExchanges, Story!StorySpec

=============================================================================
