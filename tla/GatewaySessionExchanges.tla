----------------------- MODULE GatewaySessionExchanges -----------------------
(* GatewaySession implements Exchanges: a turn is open from its question until  *)
(* its answer is written, fails or dies with the process; spoiled turns disturb.*)
EXTENDS GatewaySession

Writers == {c \in Active : turn[c] \notin Spoiled /\ pc[c] \notin {"written", "settled"}}
OpenTurn == IF Writers = {} THEN 0 ELSE turn[CHOOSE c \in Writers : TRUE]
Disturbed == \E c \in Active : turn[c] \in Spoiled

Story == INSTANCE Exchanges WITH log <- store, open <- OpenTurn, disturbed <- Disturbed

\* However sockets, posts, aborts, crashes and partial saves interleave, the rows are
\* written exchange by exchange; a disturbance lasts as long as the turns it met.
KeepsExchanges == Story!StorySpec
=============================================================================
