--------------------------- MODULE CapabilityGrants ---------------------------
(***************************************************************************)
(* Dangerous capabilities of the scripts that run through FfiScriptHost    *)
(* (zeroclaw-android/zeroclaw-ffi/src/capability_grants.rs and repl.rs):   *)
(* a script that wants one that is not in the grants file asks the app and *)
(* blocks until it is answered; an approval is saved by reading the file,  *)
(* writing a temporary file and renaming it, without a lock.  The scripts  *)
(* of the agent's own eval_script tool do not come this way.               *)
(***************************************************************************)
EXTENDS Integers, FiniteSets

CONSTANTS Scripts,       \* threads that run scripts
          Grants,        \* pairs of a skill and a capability
          MaxRequests,   \* bound: requests of one process
          MaxDeaths,     \* bound: deaths of the process
          Torn           \* a file that does not parse holds this

ASSUME GrantsAssumption ==
  MaxRequests \in Nat /\ MaxDeaths \in Nat /\ Torn \notin Grants

Requests == 1..MaxRequests
NoFile == 0
Inodes == 1..(Cardinality(Scripts) + 2)

VARIABLES pc, want,    \* where each script is, and the grant it needs
          id,          \* its request
          counter,     \* REQUEST_COUNTER, less one
          pending,     \* PENDING_APPROVALS
          reply,       \* the oneshot of each request
          listener,    \* an event listener is registered
          heard,       \* requests whose event reached the app
          cache,       \* the grants a save will write
          misread,     \* scripts whose save could not read the file it will replace
          open,        \* the inode a save writes to
          content,     \* of each inode
          file, tmp,   \* inodes of capability_grants.json and .json.tmp
          deaths,      \* bound
          approved,    \* history: grants the app has approved
          saved,       \* history: grants whose save returned Ok, since a save last
                       \* replaced the file without having read it
          overlapped   \* history: two saves have overlapped

script == <<pc, want, id>>
asking == <<counter, pending, reply, heard>>
disk == <<content, file, tmp>>
saving == <<cache, misread, open>>
past == <<approved, saved, overlapped>>
vars == <<script, asking, listener, saving, disk, deaths, past>>

Init ==
  /\ pc = [s \in Scripts |-> "idle"] /\ want \in [Scripts -> Grants]
  /\ id = [s \in Scripts |-> 0]
  /\ counter = 0 /\ pending = {} /\ reply = [r \in Requests |-> "none"] /\ heard = {}
  /\ listener = FALSE
  /\ cache = [s \in Scripts |-> {}] /\ misread = {}
  /\ open = [s \in Scripts |-> NoFile]
  /\ content = [i \in Inodes |-> {}] /\ file = NoFile /\ tmp = NoFile
  /\ deaths = 0
  /\ approved = {} /\ saved = {} /\ overlapped = FALSE

Goto(s, p) == pc' = [pc EXCEPT ![s] = p]

\* A file that is missing or does not parse has no grants, and an empty one has none.
Unreadable == file = NoFile \/ Torn \in content[file]
Stored == IF Unreadable THEN {} ELSE content[file]

-----------------------------------------------------------------------------
(* require_dangerous_capability_approval.                                  *)

\* A grant that is not there is asked for, and so is one in a file that cannot be read.
CheckGrant(s) ==
  /\ pc[s] = "idle"
  /\ \/ want[s] \in Stored /\ Goto(s, "allowed")
     \/ Goto(s, "asking")
  /\ UNCHANGED <<want, id, asking, listener, saving, disk, deaths, past>>

RequestApproval(s) ==
  /\ pc[s] = "asking" /\ counter < MaxRequests
  /\ counter' = counter + 1
  /\ id' = [id EXCEPT ![s] = counter + 1]
  /\ pending' = pending \cup {counter + 1}
  /\ Goto(s, "emitting")
  /\ UNCHANGED <<want, reply, heard, listener, saving, disk, deaths, past>>

\* With no listener the event stays in the buffer, which nothing in the app reads for it.
EmitEvent(s) ==
  /\ pc[s] = "emitting"
  /\ heard' = IF listener THEN heard \cup {id[s]} ELSE heard
  /\ Goto(s, "waiting")
  /\ UNCHANGED <<want, id, counter, pending, reply, listener, saving, disk, deaths, past>>

\* Mutant: an approval of any request releases this one.
AnsweredByAny(s) ==
  /\ pc[s] = "waiting"
  /\ \E r \in Requests : reply[r] = "yes"
  /\ Goto(s, "reading")
  /\ UNCHANGED <<want, id, asking, listener, saving, disk, deaths, past>>

\* blocking_recv, without a timeout.
Answered(s) ==
  /\ pc[s] = "waiting" /\ reply[id[s]] # "none"
  /\ Goto(s, IF reply[id[s]] = "yes" THEN "reading" ELSE "denied")
  /\ UNCHANGED <<want, id, asking, listener, saving, disk, deaths, past>>

\* The call is made, or refused; the thread runs another script.
Finish(s) ==
  /\ pc[s] \in {"allowed", "denied"}
  /\ Goto(s, "idle")
  /\ \E g \in Grants : want' = [want EXCEPT ![s] = g]
  /\ UNCHANGED <<id, asking, listener, saving, disk, deaths, past>>

-----------------------------------------------------------------------------
(* save_grant.                                                             *)

Saving == {s \in Scripts : pc[s] \in {"opening", "writing", "renaming"}}

\* A file that cannot be read is taken for empty, like one that is missing or torn.
SaveReads(s) ==
  /\ pc[s] = "reading"
  /\ \/ cache' = [cache EXCEPT ![s] = Stored \cup {want[s]}] /\ UNCHANGED misread
     \/ /\ file # NoFile
        /\ cache' = [cache EXCEPT ![s] = {want[s]}] /\ misread' = misread \cup {s}
  /\ overlapped' = (overlapped \/ Saving # {})
  /\ Goto(s, "opening")
  /\ UNCHANGED <<want, id, asking, listener, open, disk, deaths, approved, saved>>

\* Mutant: the temporary file has the name of the grants file.
SaveOpensFile(s) ==
  /\ pc[s] = "opening"
  /\ \E i \in Inodes :
       /\ IF file = NoFile THEN \A t \in Scripts : open[t] # i ELSE i = file
       /\ tmp' = i
       /\ open' = [open EXCEPT ![s] = i]
       /\ content' = [content EXCEPT ![i] = {}]
  /\ Goto(s, "writing")
  /\ UNCHANGED <<want, id, asking, listener, cache, misread, file, deaths, past>>

\* fs::write opens the temporary file, new or cut to nothing, ...
SaveOpens(s) ==
  /\ pc[s] = "opening"
  /\ \E i \in Inodes :
       /\ IF tmp = NoFile THEN i # file /\ \A t \in Scripts : open[t] # i ELSE i = tmp
       /\ tmp' = i
       /\ open' = [open EXCEPT ![s] = i]
       /\ content' = [content EXCEPT ![i] = {}]
  /\ Goto(s, "writing")
  /\ UNCHANGED <<want, id, asking, listener, cache, misread, file, deaths, past>>

\* ... and writes to what it has opened, whatever its name is by then.  Over what
\* another has written meanwhile it leaves the tail of the longer of the two.
SaveWrites(s) ==
  /\ pc[s] = "writing"
  /\ \E c \in {cache[s]} \cup (IF content[open[s]] = {} THEN {} ELSE {{Torn}}) :
       content' = [content EXCEPT ![open[s]] = c]
  /\ open' = [open EXCEPT ![s] = NoFile]
  /\ Goto(s, "renaming")
  /\ UNCHANGED <<want, id, asking, listener, cache, misread, file, tmp, deaths, past>>

\* The script goes on whether the rename found the file or not.
SaveRenames(s) ==
  /\ pc[s] = "renaming"
  /\ Goto(s, "allowed")
  /\ misread' = misread \ {s}
  /\ IF tmp = NoFile THEN UNCHANGED <<file, tmp, saved>>
     ELSE /\ file' = tmp /\ tmp' = NoFile
          /\ saved' = (IF s \in misread THEN {} ELSE saved) \cup {want[s]}
  /\ UNCHANGED <<want, id, asking, listener, cache, open, content, deaths, approved, overlapped>>

\* Opening, writing or renaming fails: the script is warned of, and passes all the same.
\* What it was writing may stay behind cut short.
SaveFails(s) ==
  /\ s \in Saving
  /\ \/ UNCHANGED content
     \/ pc[s] = "writing" /\ content' = [content EXCEPT ![open[s]] = {Torn}]
  /\ open' = [open EXCEPT ![s] = NoFile]
  /\ misread' = misread \ {s}
  /\ Goto(s, "allowed")
  /\ UNCHANGED <<want, id, asking, listener, cache, file, tmp, deaths, past>>

-----------------------------------------------------------------------------
(* The app and the process.                                                *)

\* resolve_capability_request: an unknown request is an error and changes nothing.
Resolve(r) ==
  /\ r \in heard /\ r \in pending
  /\ pending' = pending \ {r}
  /\ \E a \in {"yes", "no"} :
       /\ reply' = [reply EXCEPT ![r] = a]
       /\ approved' = IF a = "yes"
                      THEN approved \cup {want[s] : s \in {t \in Scripts : id[t] = r}}
                      ELSE approved
  /\ UNCHANGED <<script, counter, heard, listener, saving, disk, deaths, saved, overlapped>>

\* The app registers with each start of the daemon and unregisters with each stop; the
\* pending requests stay.
SwitchListener ==
  /\ listener' = ~listener
  /\ UNCHANGED <<script, asking, saving, disk, deaths, past>>

ProcessDies ==
  /\ deaths < MaxDeaths
  /\ deaths' = deaths + 1
  /\ pc' = [s \in Scripts |-> "idle"] /\ id' = [s \in Scripts |-> 0]
  /\ counter' = 0 /\ pending' = {} /\ reply' = [r \in Requests |-> "none"] /\ heard' = {}
  /\ listener' = FALSE
  /\ cache' = [s \in Scripts |-> {}] /\ misread' = {}
  /\ open' = [s \in Scripts |-> NoFile]
  /\ UNCHANGED <<want, disk, past>>

ScriptStep(s) ==
  \/ CheckGrant(s) \/ RequestApproval(s) \/ EmitEvent(s) \/ Answered(s) \/ Finish(s)
  \/ SaveReads(s) \/ SaveOpens(s) \/ SaveWrites(s) \/ SaveRenames(s)
  \/ SaveFails(s)

Next == (\E s \in Scripts : ScriptStep(s)) \/ (\E r \in Requests : Resolve(r))
        \/ SwitchListener \/ ProcessDies

Spec == Init /\ [][Next]_vars

-----------------------------------------------------------------------------
(* Properties.                                                             *)

TypeOK ==
  /\ pc \in [Scripts -> {"idle", "asking", "emitting", "waiting", "reading", "opening",
                         "writing", "renaming", "allowed", "denied"}]
  /\ want \in [Scripts -> Grants] /\ id \in [Scripts -> 0..MaxRequests]
  /\ counter \in 0..MaxRequests
  /\ pending \subseteq Requests /\ heard \subseteq Requests
  /\ reply \in [Requests -> {"none", "yes", "no"}]
  /\ listener \in BOOLEAN /\ overlapped \in BOOLEAN
  /\ cache \in [Scripts -> SUBSET Grants] /\ misread \subseteq Saving
  /\ open \in [Scripts -> Inodes \cup {NoFile}]
  /\ content \in [Inodes -> (SUBSET Grants) \cup {{Torn}}]
  /\ {file, tmp} \subseteq Inodes \cup {NoFile} /\ (file # NoFile => file # tmp)
  /\ deaths \in 0..MaxDeaths
  /\ approved \subseteq Grants /\ saved \subseteq Grants

\* No script passes, and no file says it may, without an approval of that very grant,
\* whatever overlapping saves and deaths leave on the disk.
OnlyApproved ==
  /\ \A s \in Scripts : pc[s] = "allowed" => want[s] \in approved
  /\ Stored \subseteq approved

\* A grant that was saved is in the file that every later check reads, through the
\* death of the process at any step of a later save and the failure of any later save to
\* open, write or rename.  Two things lose it: saves that overlap, and a later save that
\* could not read the file and went on to replace it.
GrantsSurvive == ~overlapped => saved \subseteq Stored
=============================================================================
