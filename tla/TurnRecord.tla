------------------------------ MODULE TurnRecord ------------------------------
(***************************************************************************)
(* What one chat turn on a WebSocket promises the session store: one row   *)
(* behind those it finds, a draft that is overwritten until the turn is    *)
(* over, then the answer, or the mark of an interruption that somebody     *)
(* asked for, or nothing more when the agent failed.  A write may fail and *)
(* nobody hears of it; after the first one the turn has no row, and it     *)
(* overwrites the newest that it found.  Nothing here knows of the model's *)
(* rounds, of tools, channels or approvals.                                *)
(***************************************************************************)
VARIABLES rows,        \* the newest row the turn finds, and its own behind it
          stage,       \* "turn" or "over"
          verdict,     \* what the agent's turn came to, or "none"
          cancelled,   \* somebody has asked the turn to stop
          failures     \* which writes have failed, the "first" and the "final" one

recordVars == <<rows, stage, verdict, cancelled, failures>>

RecordInit == /\ rows = <<"before">> /\ stage = "turn" /\ verdict = "none"
              /\ cancelled = FALSE /\ failures = {}

Running == stage = "turn"

Write(kind) ==
  /\ rows' = IF "first" \in failures THEN <<kind>> ELSE <<"before", kind>>
  /\ UNCHANGED failures

AskToStop ==
  Running /\ ~cancelled /\ cancelled' = TRUE /\ UNCHANGED <<rows, stage, verdict, failures>>

Decide ==
  /\ Running /\ verdict = "none"
  /\ verdict' \in {"answered", "failed"} \cup (IF cancelled THEN {"cancelled"} ELSE {})
  /\ UNCHANGED <<rows, stage, cancelled, failures>>

\* The relay may be behind the agent: drafts come after the verdict too.
Draft ==
  /\ Running
  /\ \/ Write("partial")
     \/ rows = <<"before">> /\ rows' = rows /\ failures' = failures \cup {"first"}
  /\ UNCHANGED <<stage, verdict, cancelled>>

Over == Running /\ stage' = "over" /\ UNCHANGED <<verdict, cancelled>>

LastWrite(kind) ==
  Over /\ (Write(kind) \/ (rows' = rows /\ failures' = failures \cup {"final"}))

Answer == verdict = "answered" /\ LastWrite("answer")
Interrupt == verdict = "cancelled" /\ LastWrite("interrupted")

\* A draft stays a draft.
Leave == verdict = "failed" /\ Over /\ UNCHANGED <<rows, failures>>

RecordNext == AskToStop \/ Decide \/ Draft \/ Answer \/ Interrupt \/ Leave

RecordSpec == RecordInit /\ [][RecordNext]_recordVars
=============================================================================
