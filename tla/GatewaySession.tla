---------------------------- MODULE GatewaySession ----------------------------
(***************************************************************************)
(* One stored session of the gateway and everything that works on it: the  *)
(* turns of its WebSockets (zeroclaw/crates/zeroclaw-gateway/src/ws.rs),   *)
(* notifications posted over HTTP, aborts and DELETE (api.rs), the table   *)
(* of cancel tokens, the stored transcript and session state               *)
(* (zeroclaw-infra/src/session_sqlite.rs), and the session queue they take *)
(* turns through, as module TurnLock promises it.                          *)
(*                                                                         *)
(* A turn or a post is a number, given when it writes its first row; what  *)
(* happens between agent and client inside a turn is module SocketTurn.    *)
(***************************************************************************)
EXTENDS Integers, Sequences, FiniteSets

CONSTANTS Sockets, Posts,
          MaxTurns,       \* bound: turns and posts
          FailsFrom,      \* bound: the first turn in which calls of the store may fail
          MaxSpoiled      \* bound: they fail while no more turns than these are spoiled

ASSUME SessionAssumption == Sockets \cap Posts = {} /\ MaxTurns \in Nat
                            /\ FailsFrom \in Nat /\ MaxSpoiled \in Nat

Callers == Sockets \cup Posts

VARIABLES waiting, inside,    \* the session queue
          first,      \* sockets whose first frame has not come
          pc,         \* where each socket is in its turn
          turn,       \* the number of that turn, or of a post that has written
          partial,    \* partial_saved
          token,      \* the entry of cancel_tokens: a turn, or 0
          cancelled,  \* turns whose token is cancelled
          aborting,   \* the token an abort has cloned, or 0
          deleting,   \* a DELETE between its token and its rows
          store,      \* rows of the sessions table
          exists,     \* the session_metadata row is there
          state,      \* its state and turn_id columns
          turns,      \* bound: numbers given
          exposed,    \* history: turns a DELETE or a turn outside the queue overlapped
          lost,       \* history: turns a row of which a failed call has cost
          unmarked,   \* history: turns whose state a failed call kept from the store
          result      \* history: how each turn ended

Queue == INSTANCE TurnLock

queueVars == <<waiting, inside>>
turnVars == <<first, pc, turn, partial>>
stored == <<store, exists, state>>
asks == <<aborting, deleting>>
faults == <<lost, unmarked>>
history == <<turns, exposed, faults, result>>
vars == <<queueVars, turnVars, token, cancelled, asks, stored, history>>

Turns == 1..MaxTurns
Idle == [name |-> "idle", by |-> 0]

Init ==
  /\ Queue!LockInit
  /\ first = Sockets
  /\ pc = [c \in Sockets |-> "none"]
  /\ turn = [c \in Callers |-> 0]
  /\ partial = [c \in Sockets |-> FALSE]
  /\ token = 0 /\ cancelled = {} /\ aborting = 0 /\ deleting = FALSE
  /\ store = <<>> /\ exists = FALSE /\ state = Idle
  /\ turns = 0 /\ exposed = {} /\ lost = {} /\ unmarked = {}
  /\ result = [t \in Turns |-> "none"]

Active == {c \in Sockets : pc[c] # "none"}
Outside(c) == c \notin inside     \* for an active socket: it skipped the queue

-----------------------------------------------------------------------------
(* The stored session.  The connection's mutex lets one call in at a time, *)
(* but its statements are committed one by one, and each may fail.         *)

MayFail(t) == t >= FailsFrom /\ Cardinality(exposed \cup lost \cup unmarked) <= MaxSpoiled

Row(t, kind) == [by |-> t, kind |-> kind]

\* INSERT of the row, then the upsert of the metadata row, which may fail by itself.
AppendRow(r) ==
  /\ store' = Append(store, r)
  /\ exists' = TRUE \/ (MayFail(r.by) /\ UNCHANGED exists)
  /\ UNCHANGED state

\* UPDATE of the newest row, whosever it is; nothing if there is none.
UpdateLast(r) ==
  /\ store' = IF store = <<>> THEN store ELSE [store EXCEPT ![Len(store)] = r]
  /\ UNCHANGED <<exists, state>>

\* UPDATE of the metadata row, if there is one.
SetState(name, t) ==
  /\ state' = IF exists THEN [name |-> name, by |-> t] ELSE state
  /\ UNCHANGED <<store, exists>>

\* set_session_state in turn t, whose error is discarded.
Say(name, by, t) ==
  \/ SetState(name, by) /\ UNCHANGED faults
  \/ MayFail(t) /\ UNCHANGED <<stored, lost>> /\ unmarked' = unmarked \cup {t}

\* append the first time, update_last from then on.
Put(c, r) == IF partial[c] THEN UpdateLast(r) ELSE AppendRow(r)

\* Whose row update_last would take.
Newest == IF store = <<>> THEN {} ELSE {store[Len(store)].by}

-----------------------------------------------------------------------------
(* A turn of a WebSocket.                                                  *)

\* The frame is a connect frame.
Connect(c) ==
  /\ c \in first /\ turns < MaxTurns
  /\ first' = first \ {c}
  /\ UNCHANGED <<queueVars, pc, turn, partial, token, cancelled, asks, stored, history>>

\* The socket closes and the client opens another one.
Reconnect(c) ==
  /\ c \notin first /\ pc[c] = "none" /\ c \notin waiting \cup inside /\ turns < MaxTurns
  /\ first' = first \cup {c}
  /\ UNCHANGED <<queueVars, pc, turn, partial, token, cancelled, asks, stored, history>>

\* A later frame: the session queue.
AskTurn(c) ==
  /\ c \notin first /\ pc[c] = "none"
  /\ turns < MaxTurns
  /\ Queue!AskLock(c)
  /\ UNCHANGED <<turnVars, token, cancelled, asks, stored, history>>

\* The user's message is stored, or the error discarded, and the turn begins.
BeginTurn(c) ==
  LET t == turns + 1 IN
  /\ turns < MaxTurns
  /\ turns' = t
  /\ turn' = [turn EXCEPT ![c] = t]
  /\ pc' = [pc EXCEPT ![c] = "stored"]
  /\ \/ AppendRow(Row(t, "user")) /\ UNCHANGED lost
     \/ MayFail(t) /\ UNCHANGED stored /\ lost' = lost \cup {t}
  /\ unmarked' = IF exists' THEN unmarked ELSE unmarked \cup {t}
  /\ exposed' = IF Outside(c) \/ \E d \in Active : Outside(d)
                THEN exposed \cup {t} \cup {turn[d] : d \in Active}
                ELSE exposed
  /\ UNCHANGED <<queueVars, partial, token, cancelled, asks, result>>

StoreUser(c) ==
  /\ pc[c] = "none" /\ c \in inside
  /\ BeginTurn(c)
  /\ UNCHANGED first

\* A first frame that is a message is processed without the queue.
FirstMessage(c) ==
  /\ c \in first
  /\ first' = first \ {c}
  /\ BeginTurn(c)

MarkRunning(c) ==
  /\ pc[c] = "stored"
  /\ pc' = [pc EXCEPT ![c] = "marked"]
  /\ Say("running", turn[c], turn[c])
  /\ UNCHANGED <<queueVars, first, turn, partial, token, cancelled, asks, turns, exposed, result>>

InstallToken(c) ==
  /\ pc[c] = "marked"
  /\ pc' = [pc EXCEPT ![c] = "running"]
  /\ token' = turn[c]
  /\ UNCHANGED <<queueVars, first, turn, partial, cancelled, asks, stored, history>>

\* A chunk, half a second after the last save.  An error is discarded: from a failed
\* append on, the turn takes whatever row is the newest for its own.
SavePartial(c) ==
  /\ pc[c] = "running"
  /\ \/ Put(c, Row(turn[c], "partial")) /\ UNCHANGED lost
     \/ /\ MayFail(turn[c]) /\ UNCHANGED stored
        /\ lost' = IF partial[c] THEN lost ELSE lost \cup {turn[c]} \cup Newest
  /\ partial' = [partial EXCEPT ![c] = TRUE]
  /\ UNCHANGED <<queueVars, first, pc, turn, token, cancelled, asks, turns, exposed, unmarked,
                 result>>

\* The client closes its socket: the turn cancels its own token.
ClientGone(c) ==
  /\ pc[c] = "running"
  /\ cancelled' = cancelled \cup {turn[c]}
  /\ UNCHANGED <<queueVars, turnVars, token, asks, stored, history>>

\* The join returns; the turn may have ended before it saw a cancel.
Joined(c) ==
  /\ pc[c] = "running"
  /\ pc' = [pc EXCEPT ![c] = "joined"]
  /\ \E r \in {"answer", "failed", "interrupted"} :
       /\ r = "interrupted" => turn[c] \in cancelled
       /\ result' = [result EXCEPT ![turn[c]] = r]
  /\ UNCHANGED <<queueVars, first, turn, partial, token, cancelled, asks, stored, turns, exposed,
                 faults>>

\* Mutant: the token of a turn that ended stays in the table.
KeepToken(c) ==
  /\ pc[c] = "joined"
  /\ pc' = [pc EXCEPT ![c] = "removed"]
  /\ UNCHANGED <<queueVars, first, turn, partial, token, cancelled, asks, stored, history>>

\* The entry of the session goes, whosever it is by now.
RemoveToken(c) ==
  /\ pc[c] = "joined"
  /\ pc' = [pc EXCEPT ![c] = "removed"]
  /\ token' = 0
  /\ UNCHANGED <<queueVars, first, turn, partial, cancelled, asks, stored, history>>

\* The answer or the mark of the interruption; a failed turn stores nothing.
StoreAnswer(c) ==
  /\ pc[c] = "removed"
  /\ pc' = [pc EXCEPT ![c] = "written"]
  /\ \/ result[turn[c]] = "failed" /\ UNCHANGED <<stored, lost>>
     \/ result[turn[c]] # "failed" /\ Put(c, Row(turn[c], result[turn[c]])) /\ UNCHANGED lost
     \/ /\ result[turn[c]] # "failed" /\ MayFail(turn[c]) /\ UNCHANGED stored
        /\ lost' = lost \cup {turn[c]}
  /\ UNCHANGED <<queueVars, first, turn, partial, token, cancelled, asks, turns, exposed, unmarked,
                 result>>

\* Mutant: a failed turn leaves the session running.
SettleUnlessFailed(c) ==
  /\ pc[c] = "written"
  /\ pc' = [pc EXCEPT ![c] = "settled"]
  /\ IF result[turn[c]] = "failed" THEN UNCHANGED <<stored, faults>> ELSE Say("idle", 0, turn[c])
  /\ UNCHANGED <<queueVars, first, turn, partial, token, cancelled, asks, turns, exposed, result>>

Settle(c) ==
  /\ pc[c] = "written"
  /\ pc' = [pc EXCEPT ![c] = "settled"]
  /\ IF result[turn[c]] = "failed" THEN Say("error", turn[c], turn[c])
                                   ELSE Say("idle", 0, turn[c])
  /\ UNCHANGED <<queueVars, first, turn, partial, token, cancelled, asks, turns, exposed, result>>

\* Back in the receive loop; the guard, if there is one, is dropped.
EndTurn(c) ==
  /\ pc[c] = "settled"
  /\ pc' = [pc EXCEPT ![c] = "none"]
  /\ turn' = [turn EXCEPT ![c] = 0]
  /\ partial' = [partial EXCEPT ![c] = FALSE]
  /\ cancelled' = cancelled \ {turn[c]}
  /\ IF Outside(c) THEN UNCHANGED queueVars ELSE Queue!LeaveLock(c)
  /\ UNCHANGED <<first, token, asks, stored, history>>

-----------------------------------------------------------------------------
(* POST /api/sessions/{id}/messages, abort and DELETE.                     *)

\* The session must exist when it is looked up.
AskPost(p) ==
  /\ exists /\ turns < MaxTurns
  /\ Queue!AskLock(p)
  /\ UNCHANGED <<turnVars, token, cancelled, asks, stored, history>>

\* Mutant: the notification is appended before the queue is entered.
NotifyEarly(p) ==
  /\ p \in waiting \cup inside /\ turn[p] = 0
  /\ turns < MaxTurns
  /\ turns' = turns + 1
  /\ turn' = [turn EXCEPT ![p] = turns + 1]
  /\ AppendRow(Row(turns + 1, "notice"))
  /\ UNCHANGED <<queueVars, first, pc, partial, token, cancelled, asks, exposed, faults, result>>

\* By then it may be gone: append makes it anew, or fails and so does the request.
Notify(p) ==
  /\ p \in inside /\ turn[p] = 0
  /\ turns < MaxTurns
  /\ turns' = turns + 1
  /\ turn' = [turn EXCEPT ![p] = turns + 1]
  /\ AppendRow(Row(turns + 1, "notice")) \/ (MayFail(turns + 1) /\ UNCHANGED stored)
  /\ UNCHANGED <<queueVars, first, pc, partial, token, cancelled, asks, exposed, faults, result>>

EndPost(p) ==
  /\ turn[p] # 0
  /\ turn' = [turn EXCEPT ![p] = 0]
  /\ Queue!LeaveLock(p)
  /\ UNCHANGED <<first, pc, partial, token, cancelled, asks, stored, history>>

\* An abort clones the token under the lock and cancels it after; the token of a turn
\* that is over by then tells nobody anything.
AbortLooksUp ==
  /\ aborting = 0 /\ token # 0
  /\ aborting' = token
  /\ UNCHANGED <<queueVars, turnVars, token, cancelled, deleting, stored, history>>

AbortCancels ==
  /\ aborting # 0
  /\ cancelled' = cancelled \cup ({aborting} \cap {turn[c] : c \in Active})
  /\ aborting' = 0
  /\ UNCHANGED <<queueVars, turnVars, token, deleting, stored, history>>

Expose == exposed' = exposed \cup {turn[c] : c \in Active}

\* Mutant: the entry is cancelled whether there is one or not.
DeleteCancelsAnything ==
  /\ ~deleting
  /\ deleting' = TRUE
  /\ token' = 0
  /\ cancelled' = cancelled \cup {token}
  /\ Expose
  /\ UNCHANGED <<queueVars, turnVars, aborting, stored, turns, faults, result>>

\* DELETE takes the token and cancels it, and then deletes the rows.
DeleteCancels ==
  /\ ~deleting
  /\ deleting' = TRUE
  /\ token' = 0
  /\ cancelled' = IF token = 0 THEN cancelled ELSE cancelled \cup {token}
  /\ Expose
  /\ UNCHANGED <<queueVars, turnVars, aborting, stored, turns, faults, result>>

\* Its rows and then its metadata row, unless one DELETE fails; without a metadata
\* row there is no session to delete.
DeleteRows ==
  /\ deleting
  /\ deleting' = FALSE
  /\ \/ (~exists \/ MayFail(turns)) /\ UNCHANGED stored
     \/ exists /\ MayFail(turns) /\ store' = <<>> /\ UNCHANGED <<exists, state>>
     \/ exists /\ store' = <<>> /\ exists' = FALSE /\ state' = Idle
  /\ Expose
  /\ UNCHANGED <<queueVars, turnVars, token, cancelled, aborting, turns, faults, result>>

\* The daemon's process ends: all but the database is gone.
Crash ==
  /\ waiting' = {} /\ inside' = {}
  /\ first' = Sockets
  /\ pc' = [c \in Sockets |-> "none"]
  /\ turn' = [c \in Callers |-> 0]
  /\ partial' = [c \in Sockets |-> FALSE]
  /\ token' = 0 /\ cancelled' = {} /\ aborting' = 0 /\ deleting' = FALSE
  /\ result' = [t \in Turns |-> IF \E c \in Active : turn[c] = t THEN "crashed" ELSE result[t]]
  /\ UNCHANGED <<stored, turns, exposed, faults>>

-----------------------------------------------------------------------------
QueueStep ==
  /\ \E c \in Callers : Queue!GiveUp(c) \/ Queue!TakeLock(c)
  /\ UNCHANGED <<turnVars, token, cancelled, asks, stored, history>>

TurnStep(c) ==
  \/ StoreUser(c) \/ MarkRunning(c) \/ InstallToken(c) \/ SavePartial(c) \/ ClientGone(c)
  \/ Joined(c) \/ RemoveToken(c) \/ StoreAnswer(c) \/ Settle(c) \/ EndTurn(c)

Next ==
  \/ QueueStep
  \/ \E c \in Sockets : Connect(c) \/ Reconnect(c) \/ AskTurn(c) \/ FirstMessage(c) \/ TurnStep(c)
  \/ \E p \in Posts : AskPost(p) \/ Notify(p) \/ EndPost(p)
  \/ AbortLooksUp \/ AbortCancels \/ DeleteCancels \/ DeleteRows \/ Crash

Spec == Init /\ [][Next]_vars

-----------------------------------------------------------------------------
(* Properties.                                                             *)

TypeOK ==
  /\ waiting \subseteq Callers /\ inside \subseteq Callers
  /\ first \subseteq Sockets
  /\ pc \in [Sockets -> {"none", "stored", "marked", "running", "joined", "removed", "written",
                         "settled"}]
  /\ turn \in [Callers -> 0..MaxTurns]
  /\ partial \in [Sockets -> BOOLEAN]
  /\ token \in 0..MaxTurns /\ aborting \in 0..MaxTurns /\ cancelled \subseteq Turns
  /\ deleting \in BOOLEAN
  /\ store \in Seq([by : Turns, kind : {"user", "partial", "answer", "interrupted", "notice"}])
  /\ exists \in BOOLEAN
  /\ state \in [name : {"idle", "running", "error"}, by : 0..MaxTurns]
  /\ turns \in 0..MaxTurns
  /\ exposed \subseteq Turns /\ lost \subseteq Turns /\ unmarked \subseteq Turns
  /\ result \in [Turns -> {"none", "answer", "failed", "interrupted", "crashed"}]

Rows(t, kinds) == {i \in DOMAIN store : store[i].by = t /\ store[i].kind \in kinds}
InTurn(t) == \E c \in Active : turn[c] = t

\* Turns whose rows nobody answers for.
Spoiled == exposed \cup lost

\* A turn is stored as a whole, its question and right behind it its own answer once
\* there is one, unless a DELETE or a turn outside the queue overlapped it, its own
\* append or last write failed, or its row was the newest when a later turn had to do
\* without its question and its first partial answer.
WholeExchange ==
  \A t \in Turns \ Spoiled :
    /\ Cardinality(Rows(t, {"user"})) <= 1
    /\ \A i \in Rows(t, {"partial", "answer", "interrupted"}) :
         i > 1 /\ store[i - 1] = Row(t, "user")
    /\ \A i \in Rows(t, {"user"}) :
         result[t] \in {"answer", "interrupted"} /\ ~InTurn(t)
         => i < Len(store) /\ store[i + 1] = Row(t, result[t])

\* While a turn in the queue runs, its own token is the one an abort finds; a token
\* in the table is that of a turn that runs.
TokenFollowsTurn ==
  /\ \A c \in Active : turn[c] \notin exposed /\ pc[c] \in {"running", "joined"} => token = turn[c]
  /\ token # 0 => \E c \in Active : turn[c] = token /\ pc[c] \in {"running", "joined"}

\* The session state names the turn that runs, and no turn that is over unless the
\* process died under it or a write of its state failed.
StateAgrees ==
  /\ \A c \in Active :
       turn[c] \notin exposed \cup unmarked /\ pc[c] \notin {"stored", "settled"}
       => exists /\ state = [name |-> "running", by |-> turn[c]]
  /\ exists /\ state.name = "running"
     => InTurn(state.by) \/ result[state.by] = "crashed" \/ state.by \in unmarked
=============================================================================
