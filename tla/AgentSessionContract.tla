------------------------ MODULE AgentSessionContract ------------------------
(***************************************************************************)
(* AgentSession implements Transcript for serial callers.  While a send    *)
(* holds the conversation the abstract log is the part it started from;    *)
(* the turn takes effect when the send leaves the agent loop (compaction   *)
(* included), before the state is put back.                                *)
(***************************************************************************)
EXTENDS AgentSession

Holders == {s \in Sends : pc[s] \in Holding}

HeldLog(s) ==
  IF pc[s] = "ending" /\ outcome[s] # "error"
  THEN work[s].history
  ELSE Take(work[s].history, work[s].before)

Conversation ==
  IF Holders = {} \/ ~Active
  THEN [id |-> session.id, log |-> session.history, tools |-> session.tools]
  ELSE LET s == CHOOSE h \in Holders : TRUE
       IN  [id |-> session.id, log |-> HeldLog(s), tools |-> work[s].tools]

Contract == INSTANCE Transcript WITH conversation <- Conversation

\* Every step of a serial behaviour is a step of the contract or invisible in it.
KeepsContract == Contract!Spec
=============================================================================
