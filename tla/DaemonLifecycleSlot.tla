------------------------- MODULE DaemonLifecycleSlot -------------------------
(* DaemonLifecycle implements DaemonSlot: a start takes effect when it        *)
(* publishes, a stop when it returns, so a daemon serves until its stop has   *)
(* torn it down; a use is let in when it clones the configuration.            *)
EXTENDS DaemonLifecycle

Serving == IF lock \in Stoppers THEN victim[lock] ELSE daemon

LetIn == {c \in Users : pc[c] = "using" \/ result[c] \in {"ok", "runtime_gone"}}

Slot == INSTANCE DaemonSlot WITH serving <- Serving, admitted <- LetIn, answer <- result

\* However the steps of the calls interleave, their answers are those of one slot
\* on which starts, stops and uses act one at a time.
KeepsSlot == Slot!SlotSpec
=============================================================================
