----------------------------- MODULE Transcript -----------------------------
(***************************************************************************)
(* What the live agent session promises a caller that makes one call at a  *)
(* time: a conversation that is opened with a system prompt, grows by      *)
(* whole turns, is compacted only right after a turn that ended well, and  *)
(* keeps its tools from the day it is opened to the day it is closed.      *)
(* Nothing here knows of locks, tokens, guards or providers.               *)
(***************************************************************************)
EXTENDS Integers, Sequences

CONSTANTS CompactAt, KeepRecent, NoSend

VARIABLE conversation    \* [id, log, tools]; id = 0 when none is open

Closed == [id |-> 0, log |-> <<>>, tools |-> 0]
log == conversation.log

Extends(new, old) == Len(new) > Len(old) /\ SubSeq(new, 1, Len(old)) = old
NewPart(new, old) == (Len(old) + 1)..Len(new)
SystemOnly(l) == Len(l) = 1 /\ l[1].role = "system"

Init == conversation = Closed

Open == /\ conversation.id = 0
        /\ conversation'.id > 0
        /\ SystemOnly(log')

Close == conversation.id # 0 /\ conversation' = Closed

\* Everything but the log stays.
Continue == /\ conversation.id # 0
            /\ conversation' = [conversation EXCEPT !.log = log']

Seed == /\ Continue
        /\ Extends(log', log)
        /\ \A i \in NewPart(log', log) : log'[i].role = "seed"

Clear == Continue /\ SystemOnly(log')

\* A turn, complete or cut short, is one step: a user message and what follows.
Turn == /\ Continue
        /\ Extends(log', log)
        /\ log'[Len(log) + 1].role = "user"
        /\ \A i \in NewPart(log', log) :
             log'[i].turn = log'[Len(log) + 1].turn /\ log'[i].turn # NoSend

\* The same, all but the newest messages replaced by a summary.
CompactedTurn == /\ Continue
                 /\ Len(log') = KeepRecent + 2
                 /\ log'[1] = log[1]
                 /\ log'[2].role = "summary"
                 /\ KeepRecent > 0 => log'[Len(log')].role = "final"

Next == Open \/ Close \/ Seed \/ Clear \/ Turn \/ CompactedTurn

Spec == Init /\ [][Next]_conversation
=============================================================================
