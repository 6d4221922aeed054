--------------------------- MODULE SocketTurnRecord ---------------------------
(* SocketTurn implements TurnRecord: rows, failures and token are the same, the *)
(* verdict is what the agent's turn returns, and the turn is over when the join *)
(* of agent and forward loop has returned.                                      *)
EXTENDS SocketTurn

Record == INSTANCE TurnRecord WITH stage <- phase, verdict <- result

\* However agent, forward loop, client and aborts interleave, the store sees a draft,
\* then what the agent came to: its answer, an interruption that was asked for before,
\* or the draft a failure leaves; and it sees them in the turn's own row, unless the
\* first write of it failed.
KeepsRecord == Record!RecordSpec
=============================================================================
