------------------------ MODULE CapabilityGrantsProofs ------------------------
(***************************************************************************)
(* OnlyApproved and GrantsSurvive, for any finite set of scripts, any      *)
(* grants and any number of requests and deaths.                           *)
(*                                                                         *)
(* An approval travels from the reply of a request to the script that made *)
(* it, into the set this script saves and the file it writes.  GrantInv    *)
(* says that at every station of the way the grant is an approved one; it  *)
(* needs RequestInv, that a request not yet made has no reply.             *)
(***************************************************************************)
EXTENDS CapabilityGrantsBook, TLAPS

RequestInv ==
  /\ pending \subseteq 1..counter
  /\ \A r \in Requests : r > counter => reply[r] = "none"
  /\ \A s \in Scripts : pc[s] \in {"emitting", "waiting"} => id[s] \in 1..counter

GrantInv ==
  /\ \A s \in Scripts :
       /\ pc[s] \in {"emitting", "waiting"} /\ reply[id[s]] = "yes" => want[s] \in approved
       /\ pc[s] \in {"reading", "opening", "writing", "renaming", "allowed"}
            => want[s] \in approved
       /\ cache[s] \subseteq approved
  /\ \A i \in Inodes : content[i] = {Torn} \/ content[i] \subseteq approved

\* As long as no two saves have overlapped: one script saves, what it writes holds its
\* own grant, and all that was saved before if it could read the file, and it writes to
\* the temporary file, which it has emptied.
SaveInv ==
  ~overlapped =>
    /\ \A s, t \in Saving : s = t
    /\ \A s \in Saving : want[s] \in cache[s] /\ (s \notin misread => saved \subseteq cache[s])
    /\ \A s \in Scripts : pc[s] = "writing" => /\ open[s] = tmp /\ tmp # NoFile
                                              /\ content[tmp] = {}
    /\ \A s \in Scripts : pc[s] = "renaming" /\ tmp # NoFile => content[tmp] = cache[s]
    /\ saved \subseteq Stored

IInv == TypeOK /\ RequestInv /\ GrantInv /\ SaveInv

\* The bounds are numbers.
LEMMA Bounds == MaxRequests \in Nat /\ MaxDeaths \in Nat /\ Torn \notin Grants
BY GrantsAssumption

\* What a reader takes from the file is approved: a torn file has no grants.
LEMMA StoredApproved ==
  ASSUME TypeOK, GrantInv
  PROVE  Stored \subseteq approved /\ Stored \subseteq Grants
<1>1. CASE Unreadable
  BY <1>1 DEF Stored
<1>2. CASE ~Unreadable
  <2>1. file \in Inodes /\ Torn \notin content[file]
    BY <1>2 DEF Unreadable, TypeOK
  <2>2. content[file] \subseteq approved
    BY <2>1 DEF GrantInv
  <2> QED
    BY <1>2, <2>2 DEF Stored, TypeOK
<1> QED
  BY <1>1, <1>2

-----------------------------------------------------------------------------
(* One lemma for each part of the invariant.                               *)

\* Every step keeps the types; the file and its temporary are never one inode.
LEMMA TypeStep == TypeOK /\ RequestInv /\ GrantInv /\ [Next]_vars => TypeOK'
<1> SUFFICES ASSUME TypeOK, RequestInv, GrantInv, [Next]_vars PROVE TypeOK'
  OBVIOUS
<1> USE Bounds DEF TypeOK, Saving, Goto, script, asking, disk, saving, past
<1>1. ASSUME NEW s \in Scripts, ScriptStep(s) PROVE TypeOK'
  <2>1. CASE CheckGrant(s)
    BY <2>1 DEF CheckGrant
  <2>2. CASE RequestApproval(s)
    <3>1. counter + 1 \in Requests /\ counter + 1 \in 0..MaxRequests
      BY <2>2 DEF RequestApproval, Requests
    <3> QED
      BY <2>2, <3>1 DEF RequestApproval
  <2>3. CASE EmitEvent(s)
    <3>1. id[s] \in Requests
      BY <2>3 DEF EmitEvent, RequestInv, Requests
    <3> QED
      BY <2>3, <3>1 DEF EmitEvent
  <2>4. CASE Answered(s)
    BY <2>4 DEF Answered
  <2>5. CASE Finish(s)
    BY <2>5 DEF Finish
  <2>6. CASE SaveReads(s)
    <3>1. Stored \cup {want[s]} \subseteq Grants
      BY StoredApproved
    <3>2. overlapped' \in BOOLEAN /\ cache' \in [Scripts -> SUBSET Grants]
      BY <2>6, <3>1 DEF SaveReads
    <3>3. misread' \subseteq Saving'
      BY <2>6 DEF SaveReads, Saving
    <3> QED
      BY <2>6, <3>2, <3>3 DEF SaveReads
  <2>7. CASE SaveOpens(s)
    <3>1. PICK i \in Inodes :
            /\ IF tmp = NoFile THEN i # file /\ \A t \in Scripts : open[t] # i ELSE i = tmp
            /\ tmp' = i /\ open' = [open EXCEPT ![s] = i]
            /\ content' = [content EXCEPT ![i] = {}]
      BY <2>7 DEF SaveOpens
    <3>2. file' # NoFile => file' # tmp'
      BY <2>7, <3>1 DEF SaveOpens
    <3> QED
      BY <2>7, <3>1, <3>2 DEF SaveOpens
  <2>8. CASE SaveWrites(s)
    <3>1. PICK c \in {cache[s], {Torn}} : content' = [content EXCEPT ![open[s]] = c]
      BY <2>8 DEF SaveWrites
    <3>2. content' \in [Inodes -> (SUBSET Grants) \cup {{Torn}}]
      BY <3>1
    <3> QED
      BY <2>8, <3>2 DEF SaveWrites
  <2>9. CASE SaveRenames(s)
    <3>1. saved' \subseteq Grants /\ misread' \subseteq Saving'
      BY <2>9 DEF SaveRenames
    <3> QED
      BY <2>9, <3>1 DEF SaveRenames
  <2>10. CASE SaveFails(s)
    <3>1. content' \in [Inodes -> (SUBSET Grants) \cup {{Torn}}] /\ misread' \subseteq Saving'
      BY <2>10 DEF SaveFails
    <3> QED
      BY <2>10, <3>1 DEF SaveFails
  <2> QED
    BY <1>1, <2>1, <2>2, <2>3, <2>4, <2>5, <2>6, <2>7, <2>8, <2>9, <2>10 DEF ScriptStep
<1>2. ASSUME NEW r \in Requests, Resolve(r) PROVE TypeOK'
  <2>1. approved' \subseteq Grants
    BY <1>2 DEF Resolve
  <2> QED
    BY <1>2, <2>1 DEF Resolve
<1>3. CASE SwitchListener
  BY <1>3 DEF SwitchListener
<1>4. CASE ProcessDies
  <2>1. deaths' \in 0..MaxDeaths /\ counter' \in 0..MaxRequests
    BY <1>4 DEF ProcessDies
  <2>2. /\ \A s \in Scripts : 0 \in 0..MaxRequests
        /\ pc' = [s \in Scripts |-> "idle"] /\ id' = [s \in Scripts |-> 0]
        /\ cache' = [s \in Scripts |-> {}] /\ open' = [s \in Scripts |-> NoFile]
        /\ reply' = [r \in Requests |-> "none"]
    BY <1>4 DEF ProcessDies
  <2>3. /\ id' \in [Scripts -> 0..MaxRequests]
        /\ open' \in [Scripts -> Inodes \cup {NoFile}]
        /\ cache' \in [Scripts -> SUBSET Grants]
        /\ reply' \in [Requests -> {"none", "yes", "no"}]
    BY <2>2
  <2>4. misread' \subseteq Saving'
    BY <1>4 DEF ProcessDies
  <2>5. /\ pc' \in [Scripts -> {"idle", "asking", "emitting", "waiting", "reading", "opening",
                                "writing", "renaming", "allowed", "denied"}]
        /\ listener' \in BOOLEAN /\ pending' \subseteq Requests /\ heard' \subseteq Requests
        /\ UNCHANGED <<want, overlapped, content, file, tmp, approved, saved>>
    BY <1>4 DEF ProcessDies
  <2> HIDE DEF Saving
  <2> QED
    BY <2>1, <2>3, <2>4, <2>5
<1>5. CASE UNCHANGED vars
  BY <1>5 DEF vars
<1> QED
  BY <1>1, <1>2, <1>3, <1>4, <1>5 DEF Next

\* Requests are numbered in the order they are made.
LEMMA RequestStep == TypeOK /\ RequestInv /\ [Next]_vars => RequestInv'
<1> SUFFICES ASSUME TypeOK, RequestInv, [Next]_vars PROVE RequestInv'
  OBVIOUS
<1> USE Bounds DEF TypeOK, RequestInv, Goto, script, asking, disk, saving, past
<1>1. ASSUME NEW s \in Scripts, ScriptStep(s) PROVE RequestInv'
  <2>1. CASE RequestApproval(s)
    <3>1. counter + 1 \in Nat /\ 1..counter \subseteq 1..counter' /\ counter' \in 1..counter'
      BY <2>1 DEF RequestApproval
    <3> QED
      BY <2>1, <3>1 DEF RequestApproval, Requests
  <2>2. CASE \/ CheckGrant(s) \/ EmitEvent(s) \/ Answered(s) \/ Finish(s)
             \/ SaveReads(s) \/ SaveOpens(s) \/ SaveWrites(s) \/ SaveRenames(s)
             \/ SaveFails(s)
    <3>1. /\ UNCHANGED <<id, counter, pending, reply>>
          /\ \A t \in Scripts : pc'[t] \in {"emitting", "waiting"}
                                  => pc[t] \in {"emitting", "waiting"}
      BY <2>2 DEF CheckGrant, EmitEvent, Answered, Finish, SaveReads, SaveOpens, SaveWrites,
                  SaveRenames, SaveFails, Saving
    <3> QED
      BY <3>1
  <2> QED
    BY <1>1, <2>1, <2>2 DEF ScriptStep
<1>2. ASSUME NEW r \in Requests, Resolve(r) PROVE RequestInv'
  BY <1>2 DEF Resolve, Requests
<1>3. CASE SwitchListener
  BY <1>3 DEF SwitchListener
<1>4. CASE ProcessDies
  BY <1>4 DEF ProcessDies
<1>5. CASE UNCHANGED vars
  BY <1>5 DEF vars
<1> QED
  BY <1>1, <1>2, <1>3, <1>4, <1>5 DEF Next

\* No step takes a grant further than an approval has.
LEMMA GrantStep == TypeOK /\ RequestInv /\ GrantInv /\ [Next]_vars => GrantInv'
<1> SUFFICES ASSUME TypeOK, RequestInv, GrantInv, [Next]_vars PROVE GrantInv'
  OBVIOUS
<1> USE DEF TypeOK, Goto, script, asking, disk, saving, past
<1>1. ASSUME NEW s \in Scripts, ScriptStep(s) PROVE GrantInv'
  <2>1. CASE CheckGrant(s)
    BY <2>1, StoredApproved DEF CheckGrant, GrantInv
  <2>2. CASE RequestApproval(s)
    <3>1. reply[counter + 1] = "none"
      BY <2>2, Bounds DEF RequestApproval, RequestInv, Requests
    <3> QED
      BY <2>2, <3>1 DEF RequestApproval, GrantInv
  <2>3. CASE EmitEvent(s)
    BY <2>3 DEF EmitEvent, GrantInv
  <2>4. CASE Answered(s)
    BY <2>4 DEF Answered, GrantInv
  <2>5. CASE Finish(s)
    BY <2>5 DEF Finish, GrantInv
  <2>6. CASE SaveReads(s)
    <3>1. Stored \cup {want[s]} \subseteq approved
      BY <2>6, StoredApproved DEF SaveReads, GrantInv
    <3> QED
      BY <2>6, <3>1 DEF SaveReads, GrantInv
  <2>7. CASE SaveOpens(s)
    BY <2>7 DEF SaveOpens, GrantInv
  <2>8. CASE SaveWrites(s)
    <3>1. PICK c \in {cache[s], {Torn}} : content' = [content EXCEPT ![open[s]] = c]
      BY <2>8 DEF SaveWrites
    <3> QED
      BY <2>8, <3>1 DEF SaveWrites, GrantInv
  <2>9. CASE SaveRenames(s)
    BY <2>9 DEF SaveRenames, GrantInv
  <2>10. CASE SaveFails(s)
    BY <2>10 DEF SaveFails, Saving, GrantInv
  <2> QED
    BY <1>1, <2>1, <2>2, <2>3, <2>4, <2>5, <2>6, <2>7, <2>8, <2>9, <2>10 DEF ScriptStep
<1>2. ASSUME NEW r \in Requests, Resolve(r) PROVE GrantInv'
  <2>1. PICK a \in {"yes", "no"} :
          /\ reply' = [reply EXCEPT ![r] = a]
          /\ approved' = IF a = "yes"
                         THEN approved \cup {want[s] : s \in {t \in Scripts : id[t] = r}}
                         ELSE approved
    BY <1>2 DEF Resolve
  <2>2. approved \subseteq approved' /\ UNCHANGED <<pc, want, id, cache, content>>
    BY <1>2, <2>1 DEF Resolve
  <2>3. ASSUME NEW s \in Scripts, pc[s] \in {"emitting", "waiting"}, reply'[id[s]] = "yes"
        PROVE  want[s] \in approved'
    <3>1. CASE id[s] = r
      <4>1. a = "yes"
        BY <2>1, <2>3, <3>1
      <4> QED
        BY <2>1, <3>1, <4>1
    <3>2. CASE id[s] # r
      BY <2>1, <2>2, <2>3, <3>2 DEF GrantInv
    <3> QED
      BY <3>1, <3>2
  <2> QED
    BY <2>2, <2>3 DEF GrantInv
<1>3. CASE SwitchListener
  BY <1>3 DEF SwitchListener, GrantInv
<1>4. CASE ProcessDies
  BY <1>4 DEF ProcessDies, GrantInv
<1>5. CASE UNCHANGED vars
  BY <1>5 DEF vars, GrantInv
<1> QED
  BY <1>1, <1>2, <1>3, <1>4, <1>5 DEF Next

\* A save that nothing overlaps fails without a trace in the grants file.
LEMMA FailsElsewhere ==
  ASSUME TypeOK, SaveInv, ~overlapped, NEW s \in Scripts, SaveFails(s)
  PROVE  /\ Saving' = {} /\ file' = file
         /\ file # NoFile => content'[file] = content[file]
         /\ Stored' = Stored
<1>1. s \in Saving /\ Saving' = {} /\ file' = file
  BY DEF TypeOK, SaveFails, SaveInv, Saving, Goto
<1>2. file # NoFile => content'[file] = content[file]
  <2>1. \/ content' = content
        \/ pc[s] = "writing" /\ content' = [content EXCEPT ![open[s]] = {Torn}]
    BY DEF SaveFails
  <2>2. pc[s] = "writing" => open[s] # file
    BY DEF TypeOK, SaveInv
  <2> QED BY <2>1, <2>2 DEF TypeOK
<1> QED BY <1>1, <1>2 DEF Stored, Unreadable

\* A save that has overlapped no other began when no other was under way.
LEMMA ReadsAlone ==
  ASSUME TypeOK, NEW s \in Scripts, SaveReads(s), ~overlapped'
  PROVE  ~overlapped /\ Saving = {} /\ Saving' = {s}
<1>1. ~overlapped /\ Saving = {} /\ pc' = [pc EXCEPT ![s] = "opening"]
  BY DEF SaveReads, Goto
<1>2. /\ pc'[s] = "opening"
      /\ \A x \in Scripts : x # s => pc'[x] = pc[x]
  BY <1>1 DEF TypeOK
<1>3. \A x \in Scripts : pc[x] \notin {"opening", "writing", "renaming"}
  BY <1>1 DEF Saving
<1> QED BY <1>1, <1>2, <1>3 DEF Saving

\* A save that nothing overlaps keeps what was saved before, whenever it is cut short.
LEMMA SaveStep == TypeOK /\ SaveInv /\ [Next]_vars => SaveInv'
<1> SUFFICES ASSUME TypeOK, SaveInv, [Next]_vars, ~overlapped' PROVE SaveInv'
  BY DEF SaveInv
<1> USE DEF TypeOK, Goto, script, asking, disk, saving, past
<1>1. ASSUME NEW s \in Scripts, ScriptStep(s) PROVE SaveInv'
  <2>1. CASE CheckGrant(s)
    BY <2>1 DEF CheckGrant, SaveInv, Saving, Stored, Unreadable
  <2>2. CASE RequestApproval(s)
    BY <2>2 DEF RequestApproval, SaveInv, Saving, Stored, Unreadable
  <2>3. CASE EmitEvent(s)
    BY <2>3 DEF EmitEvent, SaveInv, Saving, Stored, Unreadable
  <2>4. CASE Answered(s)
    BY <2>4 DEF Answered, SaveInv, Saving, Stored, Unreadable
  <2>5. CASE Finish(s)
    BY <2>5 DEF Finish, SaveInv, Saving, Stored, Unreadable
  <2>6. CASE SaveReads(s)
    <3>1. ~overlapped /\ Saving = {} /\ Saving' = {s}
      BY <2>6, ReadsAlone
    <3>2. /\ want[s] \in cache'[s] /\ (s \notin misread' => Stored \subseteq cache'[s])
          /\ Stored' = Stored
      BY <2>6 DEF SaveReads, Stored, Unreadable
    <3> QED
      BY <2>6, <3>1, <3>2 DEF SaveReads, SaveInv, Saving
  <2>7. CASE SaveOpens(s)
    <3>1. ~overlapped /\ Saving' = Saving /\ s \in Saving
      BY <2>7 DEF SaveOpens, Saving
    <3>2. PICK i \in Inodes :
            /\ IF tmp = NoFile THEN i # file /\ \A t \in Scripts : open[t] # i ELSE i = tmp
            /\ tmp' = i
            /\ open' = [open EXCEPT ![s] = i]
            /\ content' = [content EXCEPT ![i] = {}]
      BY <2>7 DEF SaveOpens
    <3>3. i # file /\ i # NoFile
      BY <3>2 DEF NoFile, Inodes
    <3>4. Stored' = Stored
      BY <2>7, <3>2, <3>3 DEF SaveOpens, Stored, Unreadable
    <3>5. \A t \in Scripts : pc'[t] \in {"writing", "renaming"} => t = s
      BY <2>7, <3>1 DEF SaveOpens, SaveInv, Saving
    <3> QED
      BY <2>7, <3>1, <3>2, <3>3, <3>4, <3>5 DEF SaveOpens, SaveInv
  <2>8. CASE SaveWrites(s)
    <3>1. ~overlapped /\ Saving' = Saving /\ s \in Saving
      BY <2>8 DEF SaveWrites, Saving
    <3>2. open[s] = tmp /\ tmp # NoFile /\ content[open[s]] = {}
      BY <2>8, <3>1 DEF SaveWrites, SaveInv
    <3>w. content' = [content EXCEPT ![tmp] = cache[s]] /\ file' = file /\ tmp' = tmp
      BY <2>8, <3>2 DEF SaveWrites
    <3>3. Stored' = Stored
      BY <3>2, <3>w DEF Stored, Unreadable
    <3>4. \A t \in Scripts : pc'[t] \in {"writing", "renaming"} => t = s
      BY <2>8, <3>1 DEF SaveWrites, SaveInv, Saving
    <3>5. content'[tmp'] = cache'[s]
      BY <2>8, <3>2, <3>w DEF SaveWrites
    <3> QED
      BY <2>8, <3>1, <3>3, <3>4, <3>5 DEF SaveWrites, SaveInv
  <2>9. CASE SaveRenames(s)
    <3>1. ~overlapped /\ s \in Saving /\ Saving' = {}
      BY <2>9 DEF SaveRenames, SaveInv, Saving
    <3>2. \A t \in Scripts : pc'[t] \notin {"writing", "renaming"}
      BY <3>1 DEF Saving
    <3>3. CASE tmp = NoFile
      BY <2>9, <3>1, <3>2, <3>3 DEF SaveRenames, SaveInv, Stored, Unreadable
    <3>4. CASE tmp # NoFile
      <4>1. /\ file' = tmp /\ content' = content
            /\ saved' = (IF s \in misread THEN {} ELSE saved) \cup {want[s]}
        BY <2>9, <3>4 DEF SaveRenames
      <4>2. content[tmp] = cache[s] /\ saved' \subseteq cache[s]
        BY <2>9, <3>1, <3>4, <4>1 DEF SaveRenames, SaveInv
      <4>3. Torn \notin cache[s]
        BY Bounds
      <4>4. Stored' = cache[s]
        BY <3>4, <4>1, <4>2, <4>3 DEF Stored, Unreadable
      <4> QED
        BY <3>1, <3>2, <4>1, <4>2, <4>4 DEF SaveInv
    <3> QED
      BY <3>3, <3>4
  <2>10. CASE SaveFails(s)
    <3>1. ~overlapped /\ UNCHANGED <<saved, overlapped>>
      BY <2>10 DEF SaveFails
    <3>2. Saving' = {} /\ Stored' = Stored
      BY <2>10, <3>1, FailsElsewhere
    <3> QED
      BY <3>1, <3>2 DEF SaveInv, Saving
  <2> QED
    BY <1>1, <2>1, <2>2, <2>3, <2>4, <2>5, <2>6, <2>7, <2>8, <2>9, <2>10 DEF ScriptStep
<1>2. ASSUME NEW r \in Requests, Resolve(r) PROVE SaveInv'
  BY <1>2 DEF Resolve, SaveInv, Saving, Stored, Unreadable
<1>3. CASE SwitchListener
  BY <1>3 DEF SwitchListener, SaveInv, Saving, Stored, Unreadable
<1>4. CASE ProcessDies
  <2>1. Saving' = {} /\ Stored' = Stored
    BY <1>4 DEF ProcessDies, Saving, Stored, Unreadable
  <2> QED
    BY <1>4, <2>1 DEF ProcessDies, SaveInv
<1>5. CASE UNCHANGED vars
  BY <1>5 DEF vars, SaveInv, Saving, Stored, Unreadable
<1> QED
  BY <1>1, <1>2, <1>3, <1>4, <1>5 DEF Next

-----------------------------------------------------------------------------
(* The invariant and what follows from it.                                 *)

\* Nothing is asked, approved or stored at first.
LEMMA InitInv == Init => IInv
<1> SUFFICES ASSUME Init PROVE IInv
  OBVIOUS
<1>1. TypeOK
  <2>1. 0 \in 0..MaxRequests /\ 0 \in 0..MaxDeaths
    BY Bounds
  <2>2. /\ id \in [Scripts -> 0..MaxRequests]
        /\ open \in [Scripts -> Inodes \cup {NoFile}]
        /\ cache \in [Scripts -> SUBSET Grants]
        /\ reply \in [Requests -> {"none", "yes", "no"}]
        /\ content \in [Inodes -> (SUBSET Grants) \cup {{Torn}}]
    BY <2>1 DEF Init
  <2> QED
    BY <2>1, <2>2 DEF Init, TypeOK
<1>2. RequestInv
  BY DEF Init, RequestInv
<1>3. GrantInv
  BY DEF Init, GrantInv
<1>4. SaveInv
  BY DEF Init, SaveInv, Saving
<1> QED
  BY <1>1, <1>2, <1>3, <1>4 DEF IInv

\* The invariant holds in every reachable state.
THEOREM Safety == Spec => []IInv
<1>1. IInv /\ [Next]_vars => IInv'
  <2>1. CASE [Next]_vars
    BY <2>1, TypeStep, RequestStep, GrantStep, SaveStep DEF IInv
  <2> QED
    BY <2>1
<1> QED
  BY InitInv, <1>1, PTL DEF Spec

\* The maps, the files and the scripts of capability_grants.rs keep their types.
THEOREM TypeCorrect == Spec => []TypeOK
<1>1. IInv => TypeOK
  BY DEF IInv
<1> QED
  BY <1>1, Safety, PTL

\* On its way to a script and into a file a grant stays an approved one.
LEMMA ApprovedOnly == IInv => OnlyApproved
BY StoredApproved DEF IInv, GrantInv, OnlyApproved

\* No script passes the gate, and no file opens it, without an approval of that grant.
THEOREM ApprovalIsNeeded == Spec => []OnlyApproved
BY ApprovedOnly, Safety, PTL

\* A grant whose save returned is in the file, through deaths at any step of later saves
\* and their failure to open, write or rename, as long as no two saves have overlapped
\* and no later save has replaced the file without being able to read it.
THEOREM SavedGrantsSurvive == Spec => []GrantsSurvive
<1>1. IInv => GrantsSurvive
  BY DEF IInv, SaveInv, GrantsSurvive
<1> QED
  BY <1>1, Safety, PTL

-----------------------------------------------------------------------------
(* A save is atomic.                                                       *)

\* What a save that read the file keeps of it, and one that could not.
Kept(s) == IF s \in misread THEN {} ELSE Stored

\* As long as no two saves have overlapped: what a save will write is what it keeps of
\* the file and its own grant, and the file is never seen half written.
ExactInv ==
  ~overlapped => /\ \A s \in Saving : cache[s] = Kept(s) \cup {want[s]}
                 /\ file # NoFile => Torn \notin content[file]

\* The file a reader finds changes by the rename of one save, and then it gains
\* the one grant that save is for, which the app has approved, and loses nothing
\* unless that save could not read it.
AtomicSave ==
  ~overlapped' =>
    \/ Stored' = Stored
    \/ \E s \in Scripts : /\ pc[s] = "renaming" /\ pc'[s] = "allowed"
                          /\ want[s] \in approved
                          /\ Stored' = Kept(s) \cup {want[s]}

\* Opening and writing the temporary file leaves the grants file alone.
LEMMA WriteElsewhere ==
  ASSUME TypeOK, SaveInv, ~overlapped, NEW s \in Scripts, SaveOpens(s) \/ SaveWrites(s)
  PROVE  /\ file' = file /\ (file # NoFile => content'[file] = content[file])
         /\ Stored' = Stored
<1> USE DEF TypeOK, saving, script, asking
<1>1. CASE SaveOpens(s)
  <2>1. PICK i \in Inodes :
          /\ IF tmp = NoFile THEN i # file /\ \A t \in Scripts : open[t] # i ELSE i = tmp
          /\ content' = [content EXCEPT ![i] = {}]
    BY <1>1 DEF SaveOpens
  <2>2. i # file /\ file' = file
    BY <1>1, <2>1 DEF SaveOpens, NoFile, Inodes
  <2> QED BY <2>1, <2>2 DEF Stored, Unreadable
<1>2. CASE SaveWrites(s)
  <2>1. open[s] # file /\ file' = file /\ \E c : content' = [content EXCEPT ![open[s]] = c]
    BY <1>2 DEF SaveWrites, SaveInv
  <2> QED BY <2>1 DEF Stored, Unreadable
<1> QED BY <1>1, <1>2

\* A rename gives the file the content the save has written.
LEMMA RenameStores ==
  ASSUME TypeOK, SaveInv, ExactInv, ~overlapped, NEW s \in Scripts, SaveRenames(s)
  PROVE  /\ Saving' = {}
         /\ file' # NoFile => Torn \notin content'[file']
         /\ Stored' = Stored \/ Stored' = Kept(s) \cup {want[s]}
<1> USE DEF TypeOK
<1>1. s \in Saving /\ Saving' = {}
  BY DEF SaveRenames, SaveInv, Saving, Goto
<1>2. CASE tmp = NoFile
  BY <1>1, <1>2 DEF SaveRenames, ExactInv, Stored, Unreadable
<1>3. CASE tmp # NoFile
  <2>1. file' = tmp /\ content' = content /\ content[tmp] = cache[s]
    BY <1>3 DEF SaveRenames, SaveInv, disk
  <2>2. Torn \notin cache[s] /\ cache[s] = Kept(s) \cup {want[s]}
    BY <1>1, Bounds DEF ExactInv
  <2>3. Stored' = cache[s]
    BY <1>3, <2>1, <2>2 DEF Stored, Unreadable
  <2> QED BY <1>1, <2>1, <2>2, <2>3
<1> QED BY <1>2, <1>3

\* What a save has read stays what the file holds until its own rename.
LEMMA ExactStep == TypeOK /\ SaveInv /\ ExactInv /\ [Next]_vars => ExactInv'
<1> SUFFICES ASSUME TypeOK, SaveInv, ExactInv, [Next]_vars, ~overlapped' PROVE ExactInv'
  BY DEF ExactInv
<1> USE DEF TypeOK, Goto, script, asking, disk, saving, past
<1>1. ASSUME NEW s \in Scripts, ScriptStep(s) PROVE ExactInv'
  <2>1. CASE CheckGrant(s) \/ RequestApproval(s) \/ EmitEvent(s) \/ Answered(s)
    BY <2>1 DEF CheckGrant, RequestApproval, EmitEvent, Answered, ExactInv, Kept, Saving,
                Stored, Unreadable
  <2>2. CASE Finish(s)
    BY <2>2 DEF Finish, ExactInv, Kept, Saving, Stored, Unreadable
  <2>3. CASE SaveReads(s)
    <3>1. ~overlapped /\ Saving = {} /\ Saving' = {s}
      BY <2>3, ReadsAlone
    <3>2. s \notin misread /\ Stored' = Stored
      BY <2>3 DEF SaveReads, Saving, Stored, Unreadable
    <3>3. cache'[s] = Kept(s)' \cup {want'[s]}
      BY <2>3, <3>2 DEF SaveReads, Kept
    <3> QED BY <2>3, <3>1, <3>3 DEF SaveReads, ExactInv
  <2>4. CASE SaveOpens(s) \/ SaveWrites(s)
    <3>1. ~overlapped /\ Saving' = Saving /\ UNCHANGED <<cache, misread, want>>
      BY <2>4 DEF SaveOpens, SaveWrites, Saving
    <3>2. /\ file' = file /\ (file # NoFile => content'[file] = content[file])
          /\ Stored' = Stored
      BY <2>4, <3>1, WriteElsewhere
    <3> QED BY <3>1, <3>2 DEF ExactInv, Kept, Saving
  <2>5. CASE SaveRenames(s)
    <3>1. ~overlapped
      BY <2>5 DEF SaveRenames
    <3>2. Saving' = {} /\ (file' # NoFile => Torn \notin content'[file'])
      BY <2>5, <3>1, RenameStores
    <3> QED BY <3>2 DEF ExactInv
  <2>6. CASE SaveFails(s)
    <3>1. ~overlapped
      BY <2>6 DEF SaveFails
    <3>2. Saving' = {} /\ file' = file /\ (file # NoFile => content'[file] = content[file])
      BY <2>6, <3>1, FailsElsewhere
    <3> QED BY <3>1, <3>2 DEF ExactInv
  <2> QED BY <1>1, <2>1, <2>2, <2>3, <2>4, <2>5, <2>6 DEF ScriptStep
<1>2. ASSUME NEW r \in Requests, Resolve(r) PROVE ExactInv'
  BY <1>2 DEF Resolve, ExactInv, Kept, Saving, Stored, Unreadable
<1>3. CASE SwitchListener
  BY <1>3 DEF SwitchListener, ExactInv, Kept, Saving, Stored, Unreadable
<1>4. CASE ProcessDies
  BY <1>4 DEF ProcessDies, ExactInv, Saving
<1>5. CASE UNCHANGED vars
  BY <1>5 DEF vars, ExactInv, Kept, Saving, Stored, Unreadable
<1> QED BY <1>1, <1>2, <1>3, <1>4, <1>5 DEF Next

\* Until two saves overlap, the grants file moves from one whole content to the next,
\* one approved grant at a time, through deaths at any step of a save.  Nothing else in
\* it changes, except that a save which could not read it keeps nothing of it.
THEOREM SavesAreAtomic == Spec => [][AtomicSave]_vars
<1>1. Init => ExactInv
  BY DEF Init, ExactInv, Saving
<1>2. IInv /\ ExactInv /\ [Next]_vars => ExactInv'
  BY ExactStep DEF IInv
<1>3. IInv /\ ExactInv /\ [Next]_vars => AtomicSave
  <2> SUFFICES ASSUME IInv, ExactInv, [Next]_vars, ~overlapped'
               PROVE  \/ Stored' = Stored
                      \/ \E s \in Scripts : /\ pc[s] = "renaming" /\ pc'[s] = "allowed"
                                            /\ want[s] \in approved
                                            /\ Stored' = Kept(s) \cup {want[s]}
    BY DEF AtomicSave
  <2> USE DEF Goto, script, asking, disk, saving, past
  <2>1. ASSUME NEW s \in Scripts, SaveRenames(s)
        PROVE  \/ Stored' = Stored
               \/ /\ pc[s] = "renaming" /\ pc'[s] = "allowed" /\ want[s] \in approved
                  /\ Stored' = Kept(s) \cup {want[s]}
    BY <2>1, RenameStores DEF IInv, TypeOK, GrantInv, SaveRenames
  <2>2. ASSUME NEW s \in Scripts, SaveOpens(s) \/ SaveWrites(s) \/ SaveFails(s)
        PROVE  Stored' = Stored
    <3>1. TypeOK /\ SaveInv
      BY DEF IInv
    <3>2. CASE SaveOpens(s) \/ SaveWrites(s)
      <4>1. ~overlapped
        BY <3>2 DEF SaveOpens, SaveWrites
      <4> QED BY <3>1, <3>2, <4>1, WriteElsewhere
    <3>3. CASE SaveFails(s)
      <4>1. ~overlapped
        BY <3>3 DEF SaveFails
      <4> QED BY <3>1, <3>3, <4>1, FailsElsewhere
    <3> QED BY <2>2, <3>2, <3>3
  <2>3. ASSUME NEW s \in Scripts, CheckGrant(s) \/ RequestApproval(s) \/ EmitEvent(s)
                                  \/ Answered(s) \/ Finish(s) \/ SaveReads(s)
        PROVE  Stored' = Stored
    BY <2>3 DEF CheckGrant, RequestApproval, EmitEvent, Answered, Finish, SaveReads,
                Stored, Unreadable
  <2>4. ASSUME NEW r \in Requests, Resolve(r) PROVE Stored' = Stored
    BY <2>4 DEF Resolve, Stored, Unreadable
  <2>5. CASE SwitchListener \/ ProcessDies \/ UNCHANGED vars
    BY <2>5 DEF SwitchListener, ProcessDies, vars, Stored, Unreadable
  <2> QED BY <2>1, <2>2, <2>3, <2>4, <2>5 DEF Next, ScriptStep
<1> QED BY <1>1, <1>2, <1>3, Safety, PTL DEF Spec

-----------------------------------------------------------------------------
(* An answer stands.                                                       *)

\* A request waits for its answer exactly as long as its sender is in the map.
OpenInv == \A r \in pending : reply[r] = "none"

\* The answer a request got is not changed by a second resolve, a late one or the
\* requests that come after; only the death of the process forgets it.
AnswerStands == deaths' = deaths => \A r \in Requests : reply[r] # "none" => reply'[r] = reply[r]

\* A request that is answered leaves the map, and is not opened again.
LEMMA OpenStep == IInv /\ OpenInv /\ [Next]_vars => OpenInv' /\ AnswerStands
<1> SUFFICES ASSUME IInv, OpenInv, [Next]_vars PROVE OpenInv' /\ AnswerStands
  OBVIOUS
<1>t. TypeOK /\ RequestInv
  BY DEF IInv
<1> USE <1>t DEF TypeOK, OpenInv, AnswerStands, script, asking, disk, saving, past
<1>1. ASSUME NEW s \in Scripts, RequestApproval(s) PROVE OpenInv' /\ AnswerStands
  <2>1. reply[counter + 1] = "none"
    BY <1>1, Bounds DEF RequestApproval, RequestInv, Requests
  <2> QED BY <1>1, <2>1 DEF RequestApproval
<1>2. ASSUME NEW s \in Scripts, CheckGrant(s) \/ EmitEvent(s) \/ Answered(s) \/ Finish(s)
                                \/ SaveReads(s) \/ SaveOpens(s) \/ SaveWrites(s)
                                \/ SaveRenames(s) \/ SaveFails(s)
      PROVE  OpenInv' /\ AnswerStands
  BY <1>2 DEF CheckGrant, EmitEvent, Answered, Finish, SaveReads, SaveOpens, SaveWrites,
              SaveRenames, SaveFails
<1>3. ASSUME NEW r \in Requests, Resolve(r) PROVE OpenInv' /\ AnswerStands
  BY <1>3 DEF Resolve
<1>4. CASE SwitchListener \/ UNCHANGED vars
  BY <1>4 DEF SwitchListener, vars
<1>5. CASE ProcessDies
  BY <1>5 DEF ProcessDies
<1> QED BY <1>1, <1>2, <1>3, <1>4, <1>5 DEF Next, ScriptStep

\* resolve_capability_request answers a request once.
THEOREM AnswersStand == Spec => [][AnswerStands]_vars
<1>1. Init => OpenInv
  BY DEF Init, OpenInv
<1> QED BY <1>1, OpenStep, Safety, PTL DEF Spec

-----------------------------------------------------------------------------
(* The gate implements GrantBook.                                          *)

\* Every open request is that of one script, which waits for it; no two scripts share
\* a request.
AskInv ==
  /\ \A s \in Scripts : id[s] <= counter
  /\ \A s, t \in Scripts : id[s] = id[t] /\ id[s] # 0 => s = t
  /\ \A r \in pending : \E s \in Scripts : id[s] = r /\ pc[s] \in {"emitting", "waiting"}

\* As long as no two saves have overlapped, a rename finds its file.
RenameInv == ~overlapped => \A s \in Scripts : pc[s] = "renaming" => tmp # NoFile

\* A request is made by one script and answered to it.
LEMMA AskStep == TypeOK /\ RequestInv /\ OpenInv /\ AskInv /\ [Next]_vars => AskInv'
<1> SUFFICES ASSUME TypeOK, RequestInv, OpenInv, AskInv, [Next]_vars PROVE AskInv'
  OBVIOUS
<1> USE Bounds DEF TypeOK, Goto, script, asking, disk, saving, past
<1>1. ASSUME NEW s \in Scripts, RequestApproval(s) PROVE AskInv'
  <2>1. /\ counter' = counter + 1 /\ counter \in Nat /\ id' = [id EXCEPT ![s] = counter + 1]
        /\ pending' = pending \cup {counter + 1} /\ pc' = [pc EXCEPT ![s] = "emitting"]
        /\ pc[s] = "asking"
    BY <1>1 DEF RequestApproval
  <2>2. \A t \in Scripts : id[t] \in Nat /\ id[t] <= counter /\ id[t] # counter + 1
    BY <2>1 DEF AskInv
  <2>3. \A t \in Scripts : id'[t] <= counter'
    BY <2>1, <2>2
  <2>4. \A t, u \in Scripts : id'[t] = id'[u] /\ id'[t] # 0 => t = u
    BY <2>1, <2>2 DEF AskInv
  <2>5. ASSUME NEW r \in pending'
        PROVE  \E t \in Scripts : id'[t] = r /\ pc'[t] \in {"emitting", "waiting"}
    <3>1. CASE r = counter + 1
      BY <2>1, <3>1
    <3>2. CASE r # counter + 1
      <4>1. PICK t \in Scripts : id[t] = r /\ pc[t] \in {"emitting", "waiting"}
        BY <2>1, <2>5, <3>2 DEF AskInv
      <4>2. t # s
        BY <2>1, <4>1
      <4> QED BY <2>1, <4>1, <4>2
    <3> QED BY <3>1, <3>2
  <2> QED BY <2>3, <2>4, <2>5 DEF AskInv
<1>2. ASSUME NEW s \in Scripts,
             \/ CheckGrant(s) \/ EmitEvent(s) \/ Answered(s) \/ Finish(s)
             \/ SaveReads(s) \/ SaveOpens(s) \/ SaveWrites(s) \/ SaveRenames(s)
             \/ SaveFails(s)
      PROVE  AskInv'
  <2>1. UNCHANGED <<id, counter, pending>> /\ \A t \in Scripts \ {s} : pc'[t] = pc[t]
    BY <1>2 DEF CheckGrant, EmitEvent, Answered, Finish, SaveReads, SaveOpens, SaveWrites,
                SaveRenames, SaveFails
  <2>2. id[s] \in pending /\ pc[s] \in {"emitting", "waiting"} =>
          pc'[s] \in {"emitting", "waiting"}
    BY <1>2 DEF CheckGrant, EmitEvent, Answered, Finish, SaveReads, SaveOpens, SaveWrites,
                SaveRenames, SaveFails, Saving, OpenInv
  <2> QED BY <2>1, <2>2 DEF AskInv
<1>3. ASSUME NEW r \in Requests, Resolve(r) PROVE AskInv'
  BY <1>3 DEF Resolve, AskInv
<1>4. CASE SwitchListener \/ UNCHANGED vars
  BY <1>4 DEF SwitchListener, vars, AskInv
<1>5. CASE ProcessDies
  BY <1>5 DEF ProcessDies, AskInv
<1> QED BY <1>1, <1>2, <1>3, <1>4, <1>5 DEF Next, ScriptStep

\* The temporary file of the one save is there until that save renames it.
LEMMA RenameStep == TypeOK /\ SaveInv /\ RenameInv /\ [Next]_vars => RenameInv'
<1> SUFFICES ASSUME TypeOK, SaveInv, RenameInv, [Next]_vars, ~overlapped' PROVE RenameInv'
  BY DEF RenameInv
<1> USE DEF TypeOK, Goto, script, asking, disk, saving, past
<1>1. ASSUME NEW s \in Scripts,
             \/ CheckGrant(s) \/ RequestApproval(s) \/ EmitEvent(s) \/ Answered(s) \/ Finish(s)
             \/ SaveReads(s) \/ SaveFails(s)
      PROVE  RenameInv'
  BY <1>1 DEF CheckGrant, RequestApproval, EmitEvent, Answered, Finish, SaveReads, SaveFails,
              RenameInv
<1>2. ASSUME NEW s \in Scripts, SaveOpens(s) PROVE RenameInv'
  <2>1. tmp' # NoFile
    BY <1>2 DEF SaveOpens, Inodes, NoFile
  <2> QED BY <2>1 DEF RenameInv
<1>3. ASSUME NEW s \in Scripts, SaveWrites(s) PROVE RenameInv'
  BY <1>3 DEF SaveWrites, RenameInv, SaveInv
<1>4. ASSUME NEW s \in Scripts, SaveRenames(s) PROVE RenameInv'
  <2>1. ~overlapped /\ s \in Saving /\ Saving' = {}
    BY <1>4 DEF SaveRenames, SaveInv, Saving
  <2> QED BY <2>1 DEF RenameInv, Saving
<1>5. ASSUME NEW r \in Requests, Resolve(r) PROVE RenameInv'
  BY <1>5 DEF Resolve, RenameInv
<1>6. CASE SwitchListener \/ ProcessDies \/ UNCHANGED vars
  BY <1>6 DEF SwitchListener, ProcessDies, vars, RenameInv
<1> QED BY <1>1, <1>2, <1>3, <1>4, <1>5, <1>6 DEF Next, ScriptStep

\* After a step, too, the file lets no script pass that was not approved.
LEMMA ApprovedNext == IInv' => OnlyApproved'
BY ApprovedOnly, PTL

\* An answer is for the one script that waits for it.
LEMMA ResolveBooks ==
  ASSUME IInv, OpenInv, AskInv, NEW r \in Requests, Resolve(r)
  PROVE  Book!BookNext \/ UNCHANGED Book!bookVars
<1>t. TypeOK
  BY DEF IInv
<1> USE <1>t DEF TypeOK
<1>1. PICK s \in Scripts : id[s] = r /\ pc[s] \in {"emitting", "waiting"}
  BY DEF Resolve, AskInv
<1>2. {want[t] : t \in {u \in Scripts : id[u] = r}} = {want[s]}
  <2>1. {u \in Scripts : id[u] = r} = {s}
    BY <1>1 DEF AskInv, Requests
  <2> QED BY <2>1
<1>3. approved' \in {approved, approved \cup {want[s]}}
  BY <1>2 DEF Resolve
<1>4. UNCHANGED <<want, Allowed, Stored, misread, overlapped>> /\ s \notin Allowed
  BY <1>1 DEF Resolve, script, saving, disk, Allowed, Stored, Unreadable
<1>5. CASE approved' = approved
  BY <1>4, <1>5 DEF Book!bookVars
<1>6. CASE approved' = approved \cup {want[s]}
  BY <1>4, <1>6 DEF Book!BookNext, Book!Approve
<1> QED BY <1>3, <1>5, <1>6

\* The steps of a script around its request: it passes with what the book has, moves on,
\* or nothing the book's readers see.
LEMMA ScriptBooks ==
  ASSUME IInv, NEW s \in Scripts,
         CheckGrant(s) \/ RequestApproval(s) \/ EmitEvent(s) \/ Answered(s) \/ Finish(s)
  PROVE  Book!BookNext \/ UNCHANGED Book!bookVars
<1>t. TypeOK
  BY DEF IInv
<1> USE <1>t DEF TypeOK, Goto
<1>1. UNCHANGED <<approved, Stored, misread, overlapped>>
  BY DEF CheckGrant, RequestApproval, EmitEvent, Answered, Finish, saving, disk, past, Stored,
         Unreadable
<1>2. CASE CheckGrant(s)
  <2>1. want' = want /\ s \notin Allowed
    BY <1>2 DEF CheckGrant, Allowed
  <2>2. CASE want[s] \in Stored /\ pc' = [pc EXCEPT ![s] = "allowed"]
    <3>1. Allowed' = Allowed \cup {s}
      BY <1>2, <2>2 DEF CheckGrant, Allowed
    <3> QED BY <1>1, <2>1, <2>2, <3>1 DEF Book!BookNext, Book!Pass, Book!LetThrough
  <2>3. CASE pc' = [pc EXCEPT ![s] = "asking"]
    <3>1. Allowed' = Allowed
      BY <1>2, <2>3 DEF CheckGrant, Allowed
    <3> QED BY <1>1, <2>1, <3>1 DEF Book!bookVars
  <2> QED BY <1>2, <2>2, <2>3 DEF CheckGrant
<1>3. CASE RequestApproval(s) \/ EmitEvent(s) \/ Answered(s)
  <2>1. want' = want /\ Allowed' = Allowed
    BY <1>3 DEF RequestApproval, EmitEvent, Answered, Allowed
  <2> QED BY <1>1, <2>1 DEF Book!bookVars
<1>4. CASE Finish(s)
  <2>1. Allowed' = Allowed \ {s} /\ \E g \in Grants : want' = [want EXCEPT ![s] = g]
    BY <1>4 DEF Finish, Allowed
  <2> QED BY <1>1, <2>1 DEF Book!BookNext, Book!MoveOn
<1> QED BY <1>2, <1>3, <1>4

\* The steps of a save: the rename is the record, unless saves have overlapped.
LEMMA SaveBooks ==
  ASSUME IInv, IInv', ExactInv, RenameInv, NEW s \in Scripts,
         SaveReads(s) \/ SaveOpens(s) \/ SaveWrites(s) \/ SaveRenames(s) \/ SaveFails(s)
  PROVE  Book!BookNext \/ UNCHANGED Book!bookVars
<1>t. TypeOK /\ GrantInv /\ SaveInv /\ Stored' \subseteq approved'
  BY ApprovedNext DEF IInv, OnlyApproved
<1> USE DEF TypeOK, Goto
<1>1. UNCHANGED <<want, approved>>
  BY DEF SaveReads, SaveOpens, SaveWrites, SaveRenames, SaveFails, past
<1>2. CASE SaveReads(s)
  <2>1. Stored' = Stored /\ Allowed' = Allowed
    BY <1>t, <1>2 DEF SaveReads, disk, Stored, Unreadable, Allowed
  <2>2. want[s] \in approved /\ s \notin Allowed
    BY <1>t, <1>2 DEF SaveReads, GrantInv, Allowed
  <2>3. overlapped' \in {overlapped, TRUE} /\ misread' \in {misread, misread \cup {s}}
    BY <1>t, <1>2 DEF SaveReads
  <2> QED BY <1>1, <2>1, <2>2, <2>3 DEF Book!BookNext, Book!SetOut
<1>3. ASSUME overlapped, overlapped' = overlapped,
             \/ UNCHANGED <<Allowed, misread>>
             \/ /\ want[s] \in approved /\ s \notin Allowed /\ Allowed' = Allowed \cup {s}
                /\ misread' = misread \ {s}
      PROVE  Book!BookNext
  BY <1>t, <1>1, <1>3 DEF Book!BookNext, Book!Scribble, Book!LetThrough
<1>4. CASE SaveOpens(s) \/ SaveWrites(s)
  <2>1. overlapped' = overlapped /\ UNCHANGED <<Allowed, misread>>
    BY <1>t, <1>4 DEF SaveOpens, SaveWrites, past, Allowed
  <2>2. CASE overlapped
    BY <1>3, <2>1, <2>2
  <2>3. CASE ~overlapped
    <3>1. Stored' = Stored
      BY <1>t, <1>4, <2>3, WriteElsewhere
    <3> QED BY <1>1, <2>1, <3>1 DEF Book!bookVars
  <2> QED BY <2>2, <2>3
<1>5. CASE SaveRenames(s)
  <2>1. /\ overlapped' = overlapped /\ want[s] \in approved
        /\ s \notin Allowed /\ Allowed' = Allowed \cup {s} /\ misread' = misread \ {s}
    BY <1>t, <1>5 DEF SaveRenames, GrantInv, Allowed
  <2>2. CASE overlapped
    BY <1>3, <2>1, <2>2
  <2>3. CASE ~overlapped
    <3>1. tmp # NoFile /\ s \in Saving
      BY <1>5, <2>3 DEF RenameInv, SaveRenames, Saving
    <3>2. file' = tmp /\ content' = content /\ content[tmp] = cache[s]
      BY <1>t, <1>5, <2>3, <3>1 DEF SaveRenames, SaveInv, disk
    <3>3. Torn \notin cache[s] /\ cache[s] = Kept(s) \cup {want[s]}
      BY <1>t, <2>3, <3>1, Bounds DEF ExactInv
    <3>4. Stored' = Kept(s) \cup {want[s]}
      BY <3>1, <3>2, <3>3 DEF Stored, Unreadable
    <3> QED BY <1>1, <2>1, <3>4 DEF Kept, Book!BookNext, Book!Record, Book!LetThrough
  <2> QED BY <2>2, <2>3
<1>6. CASE SaveFails(s)
  <2>1. /\ overlapped' = overlapped /\ want[s] \in approved
        /\ s \notin Allowed /\ Allowed' = Allowed \cup {s} /\ misread' = misread \ {s}
    BY <1>t, <1>6 DEF SaveFails, Saving, GrantInv, past, Allowed
  <2>2. CASE overlapped
    BY <1>3, <2>1, <2>2
  <2>3. CASE ~overlapped
    <3>1. Stored' = Stored
      BY <1>t, <1>6, <2>3, FailsElsewhere
    <3> QED BY <1>1, <2>1, <3>1 DEF Book!BookNext, Book!PassOnce, Book!LetThrough
  <2> QED BY <2>2, <2>3
<1> QED BY <1>2, <1>4, <1>5, <1>6

\* Requests and events, answers, saves, deaths and their order are invisible: what the
\* app approves and what lets a script pass the gate is a book of grants, which only a
\* record by one who could not read it begins anew, as long as no two saves overlap.
THEOREM GatesByTheBook == Spec => KeepsBook
<1>1. Init => Book!BookInit /\ OpenInv /\ AskInv /\ RenameInv /\ ExactInv
  <2> SUFFICES ASSUME Init PROVE Book!BookInit /\ OpenInv /\ AskInv /\ RenameInv /\ ExactInv
    OBVIOUS
  <2>1. Allowed = {} /\ Stored = {}
    BY DEF Init, Allowed, Stored, Unreadable
  <2>2. Book!BookInit
    BY <2>1 DEF Init, Book!BookInit
  <2>3. OpenInv /\ AskInv
    BY DEF Init, OpenInv, AskInv
  <2>4. RenameInv /\ ExactInv
    BY DEF Init, RenameInv, ExactInv, Saving
  <2> QED BY <2>2, <2>3, <2>4
<1>2. IInv /\ OpenInv /\ AskInv /\ RenameInv /\ ExactInv /\ [Next]_vars
        => AskInv' /\ RenameInv' /\ ExactInv'
  BY AskStep, RenameStep, ExactStep DEF IInv
<1>3. IInv /\ OpenInv /\ [Next]_vars => OpenInv'
  BY OpenStep
<1>4. IInv /\ IInv' /\ OpenInv /\ AskInv /\ RenameInv /\ ExactInv /\ [Next]_vars
        => [Book!BookNext]_(Book!bookVars)
  <2> SUFFICES ASSUME IInv, IInv', OpenInv, AskInv, RenameInv, ExactInv, [Next]_vars
               PROVE  Book!BookNext \/ UNCHANGED Book!bookVars
    OBVIOUS
  <2>1. CASE SwitchListener \/ UNCHANGED vars
    <3>1. UNCHANGED <<want, Allowed, approved, Stored, misread, overlapped>>
      BY <2>1 DEF SwitchListener, vars, script, saving, disk, past, Allowed, Stored, Unreadable
    <3> QED BY <3>1 DEF Book!bookVars
  <2>2. CASE ProcessDies
    <3>1. Allowed' = {} /\ misread' = {} /\ UNCHANGED <<want, approved, Stored, overlapped>>
      BY <2>2 DEF ProcessDies, disk, past, Allowed, Stored, Unreadable
    <3> QED BY <3>1 DEF Book!BookNext, Book!Restart
  <2> QED BY <2>1, <2>2, ResolveBooks, ScriptBooks, SaveBooks DEF Next, ScriptStep
<1> QED BY <1>1, <1>2, <1>3, <1>4, Safety, PTL DEF Spec, KeepsBook, Book!BookSpec

=============================================================================
