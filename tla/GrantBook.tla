------------------------------ MODULE GrantBook ------------------------------
(***************************************************************************)
(* What the gate before dangerous capabilities promises: a book of grants  *)
(* the app has approved, one at a time, that lets a script pass, grows by  *)
(* one grant at a time and outlives the process.  Nothing here knows of    *)
(* requests, events, oneshots, temporary files or renames.                 *)
(*                                                                         *)
(* It may lose grants, but never holds one that was not approved: one who  *)
(* could not read the book begins it anew, and once two records were made  *)
(* at the same time anything approved may be in it.                        *)
(***************************************************************************)
CONSTANTS Scripts, Grants

VARIABLES want,       \* the grant each script needs
          passed,     \* scripts that the gate has let through
          approved,   \* grants the app has approved
          book,       \* grants that let a script pass without asking
          unread,     \* scripts that set out to record and could not read the book
          muddled     \* two records were made at the same time

bookVars == <<want, passed, approved, book, unread, muddled>>

BookInit == /\ want \in [Scripts -> Grants]
            /\ passed = {} /\ approved = {} /\ book = {} /\ unread = {} /\ muddled = FALSE

\* The app approves what one script is waiting for.
Approve(s) == /\ s \notin passed
              /\ approved' = approved \cup {want[s]}
              /\ UNCHANGED <<want, passed, book, unread, muddled>>

LetThrough(s) == s \notin passed /\ passed' = passed \cup {s}

Pass(s) == /\ want[s] \in book
           /\ LetThrough(s)
           /\ UNCHANGED <<want, approved, book, unread, muddled>>

\* A script sets out to record what was approved, perhaps while another does, and reads
\* the book or cannot.
SetOut(s) == /\ want[s] \in approved /\ s \notin passed
             /\ muddled' \in {muddled, TRUE}
             /\ unread' \in {unread, unread \cup {s}}
             /\ UNCHANGED <<want, passed, approved, book>>

\* What was approved is written down, and lets the script through.
Record(s) == /\ want[s] \in approved
             /\ book' = (IF s \in unread THEN {} ELSE book) \cup {want[s]}
             /\ LetThrough(s)
             /\ unread' = unread \ {s}
             /\ UNCHANGED <<want, approved, muddled>>

\* What was approved could not be written down: it lets the script through this once.
PassOnce(s) == /\ want[s] \in approved
               /\ LetThrough(s)
               /\ unread' = unread \ {s}
               /\ UNCHANGED <<want, approved, book, muddled>>

\* The script is done, or was denied; the next one may need another grant.
MoveOn(s) == /\ passed' = passed \ {s}
             /\ \E g \in Grants : want' = [want EXCEPT ![s] = g]
             /\ UNCHANGED <<approved, book, unread, muddled>>

\* The process dies: the book stays, and what was approved was approved.
Restart == passed' = {} /\ unread' = {} /\ UNCHANGED <<want, approved, book, muddled>>

\* A record into a muddled book, or the pen that slips.
Scribble == /\ muddled
            /\ book' \subseteq approved
            /\ \/ UNCHANGED <<passed, unread>>
               \/ \E s \in Scripts : /\ want[s] \in approved /\ LetThrough(s)
                                     /\ unread' = unread \ {s}
            /\ UNCHANGED <<want, approved, muddled>>

BookNext ==
  \/ \E s \in Scripts : Approve(s) \/ Pass(s) \/ SetOut(s) \/ Record(s) \/ PassOnce(s)
                        \/ MoveOn(s)
  \/ Restart \/ Scribble

BookSpec == BookInit /\ [][BookNext]_bookVars
=============================================================================
