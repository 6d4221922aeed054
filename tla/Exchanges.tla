------------------------------ MODULE Exchanges ------------------------------
(***************************************************************************)
(* What the gateway's stored transcript promises a reader: a list of       *)
(* notices and of exchanges, one at a time, each a question and at most    *)
(* one row behind it that is overwritten until the answer is final.        *)
(* Nothing here knows of sockets, queues, tokens or DELETE's two steps.    *)
(*                                                                         *)
(* A DELETE that meets a turn, or a turn that came around the queue,       *)
(* disturbs this until the turns it met are over, and so does a write of   *)
(* the open turn that failed: the turn may overwrite the last row of the   *)
(* exchange before.  Rows above the last stay as they are even then, or go *)
(* with all the others.                                                    *)
(***************************************************************************)
EXTENDS Integers, Sequences

CONSTANT Turns         \* numbers of turns and posts, none of them 0

VARIABLES log,         \* rows, [by, kind]
          open,        \* the turn whose answer is not final, or 0
          disturbed

storyVars == <<log, open, disturbed>>

Line(t, kind) == [by |-> t, kind |-> kind]
New(t) == \A i \in 1..Len(log) : log[i].by # t
LastLine == log[Len(log)]

\* The one row behind the question of the open turn.
Put(kind) ==
  /\ open # 0 /\ log # <<>> /\ LastLine.by = open
  /\ \/ LastLine.kind = "user" /\ log' = Append(log, Line(open, kind))
     \/ LastLine.kind = "partial" /\ log' = [log EXCEPT ![Len(log)] = Line(open, kind)]

StoryInit == log = <<>> /\ open = 0 /\ ~disturbed

Calm == ~disturbed /\ ~disturbed'

\* A question, by a turn that has not written before, when no other is open.
Question(t) == /\ Calm /\ open = 0 /\ New(t)
               /\ log' = Append(log, Line(t, "user"))
               /\ open' = t

Draft == Calm /\ Put("partial") /\ open' = open

Conclude == /\ Calm /\ \E kind \in {"answer", "interrupted"} : Put(kind)
            /\ open' = 0

\* The turn fails, or the process dies: what is stored of it stays.
Abandon == Calm /\ open # 0 /\ open' = 0 /\ log' = log

Notice(t) == /\ Calm /\ open = 0 /\ New(t)
             /\ log' = Append(log, Line(t, "notice"))
             /\ open' = open

Wipe == Calm /\ open = 0 /\ open' = open /\ log' = <<>>

\* Rows are added, the last one is overwritten, or all are gone; no turn is open.
Disturbance ==
  /\ disturbed \/ disturbed'
  /\ open' = 0
  /\ \/ log' = log \/ log' = <<>>
     \/ Len(log') \in {Len(log), Len(log) + 1} /\ \A i \in 1..Len(log) - 1 : log'[i] = log[i]

StoryNext == (\E t \in Turns : Question(t) \/ Notice(t)) \/ Draft \/ Conclude \/ Abandon
             \/ Wipe \/ Disturbance

StorySpec == StoryInit /\ [][StoryNext]_storyVars
=============================================================================
