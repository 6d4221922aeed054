------------------------ MODULE SessionQueueProofs ------------------------
(***************************************************************************)
(* Safety of SessionQueue for any finite sets of callers and any depth.    *)
(*                                                                         *)
(* OneInside is inductive only with LineInv: the line holds calls that     *)
(* wait, each once, so the permit that is handed on goes to a call that    *)
(* has none.  DepthBound rests on RoomInv and PendingExact: whoever is in  *)
(* line or inside saw room, and the value a fetch_add returns is never     *)
(* below the number of calls counted before it.                            *)
(***************************************************************************)
EXTENDS SessionQueueLock, FiniteSetTheorems, SequenceTheorems, TLAPS

LineInv ==
  /\ \A i \in 1..Len(waiters) : at[waiters[i]] = "waiting"
  /\ \A i, j \in 1..Len(waiters) : waiters[i] = waiters[j] => i = j

QInv == TypeOK /\ OneInside /\ LineInv

\* The counted calls that were told there is room.
Admitted == {c \in Counted : seen[c] < MaxDepth}
Queued == {c \in Callers : at[c] \in {"waiting", "granted", "inside"}}

RoomInv == Cardinality(Admitted) <= MaxDepth /\ Queued \subseteq Admitted

IInv == QInv /\ PendingExact /\ RoomInv

\* Of the calls other than c, the same ones are counted after the step.
OthersCounted(c) ==
  \A d \in Callers \ {c} : at'[d] \in {"out", "leaving"} <=> at[d] \in {"out", "leaving"}

-----------------------------------------------------------------------------
(* The line of waiters.                                                    *)

\* Taking one element out of a sequence moves the later ones up.
LEMMA WithoutProperties ==
  ASSUME NEW S, NEW s \in Seq(S), NEW i \in 1..Len(s)
  PROVE  /\ Without(s, i) \in Seq(S)
         /\ Len(Without(s, i)) = Len(s) - 1
         /\ \A j \in 1..Len(s) - 1 : Without(s, i)[j] = IF j < i THEN s[j] ELSE s[j + 1]
<1> DEFINE left == SubSeq(s, 1, i - 1)
           right == SubSeq(s, i + 1, Len(s))
<1>1. Len(s) \in Nat /\ \A j \in 1..Len(s) : s[j] \in S
  BY LenProperties, ElementOfSeq
<1>2. /\ left \in Seq(S)
      /\ Len(left) = i - 1
      /\ \A j \in 1..i - 1 : left[j] = s[j]
  <2>1. \A j \in 1..i - 1 : s[j] \in S
    BY <1>1
  <2>2. /\ left \in Seq(S)
        /\ Len(left) = IF 1 <= i - 1 THEN (i - 1) - 1 + 1 ELSE 0
        /\ \A j \in 1..(i - 1) - 1 + 1 : left[j] = s[1 + j - 1]
    BY <1>1, <2>1, SubSeqProperties
  <2> QED
    BY <1>1, <2>2
<1>3. /\ right \in Seq(S)
      /\ Len(right) = Len(s) - i
      /\ \A j \in 1..Len(s) - i : right[j] = s[i + j]
  <2>1. \A j \in i + 1..Len(s) : s[j] \in S
    BY <1>1
  <2>2. /\ right \in Seq(S)
        /\ Len(right) = IF i + 1 <= Len(s) THEN Len(s) - (i + 1) + 1 ELSE 0
        /\ \A j \in 1..Len(s) - (i + 1) + 1 : right[j] = s[(i + 1) + j - 1]
    BY <1>1, <2>1, SubSeqProperties
  <2> QED
    BY <1>1, <2>2
<1>4. /\ left \o right \in Seq(S)
      /\ Len(left \o right) = Len(left) + Len(right)
      /\ \A j \in 1..Len(left) + Len(right) :
           (left \o right)[j] = IF j <= Len(left) THEN left[j] ELSE right[j - Len(left)]
  BY <1>2, <1>3, ConcatProperties
<1>5. Without(s, i) = left \o right
  BY DEF Without
<1> HIDE DEF left, right
<1>6. i \in Nat /\ Len(left) + Len(right) = Len(s) - 1
  BY <1>1, <1>2, <1>3
<1>7. ASSUME NEW j \in 1..Len(s) - 1
      PROVE  (left \o right)[j] = IF j < i THEN s[j] ELSE s[j + 1]
  <2>1. (left \o right)[j] = IF j <= i - 1 THEN left[j] ELSE right[j - (i - 1)]
    BY <1>2, <1>4, <1>6
  <2>2. CASE j < i
    BY <1>2, <1>6, <2>1, <2>2
  <2>3. CASE ~(j < i)
    <3>1. j - (i - 1) \in 1..Len(s) - i /\ i + (j - (i - 1)) = j + 1
      BY <1>1, <1>6, <2>3
    <3> QED
      BY <1>1, <1>3, <1>6, <2>1, <2>3, <3>1
  <2> QED
    BY <2>2, <2>3
<1> QED
  BY <1>4, <1>5, <1>6, <1>7

\* A permit that is handed on is given to one call that waited, and to no other.
LEMMA HandOnStep ==
  ASSUME QInv, NEW c \in Callers, HasPermit(c), NEW place \in {"out", "expired"},
         HandOn(c, place), UNCHANGED seen, pending' \in Nat, lost' \in Nat
  PROVE  QInv' /\ at'[c] = place /\ OthersCounted(c)
<1> USE DEF QInv, TypeOK, Places, HasPermit
<1>1. free = 0
  BY DEF OneInside
<1>2. CASE waiters = <<>>
  <2>1. at' = [at EXCEPT ![c] = place] /\ free' = 1 /\ waiters' = waiters
    BY <1>1, <1>2 DEF HandOn, Move
  <2>2. \A i \in 1..Len(waiters) : FALSE
    BY <1>2
  <2>3. TypeOK' /\ LineInv'
    BY <2>1, <2>2 DEF LineInv
  <2> QED
    BY <1>2, <2>1, <2>3 DEF OneInside, OthersCounted
<1>3. CASE waiters # <<>>
  <2> DEFINE h == Head(waiters)
  <2>1. /\ at' = [at EXCEPT ![c] = place, ![h] = "granted"]
        /\ free' = free /\ waiters' = Tail(waiters)
    BY <1>3 DEF HandOn
  <2>2. /\ h \in Callers /\ h = waiters[1] /\ Len(waiters) \in Nat \ {0}
        /\ Tail(waiters) \in Seq(Callers)
        /\ Len(Tail(waiters)) = Len(waiters) - 1
        /\ \A i \in 1..Len(Tail(waiters)) : Tail(waiters)[i] = waiters[i + 1]
    BY <1>3, HeadTailProperties, EmptySeq
  <2>3. at[h] = "waiting" /\ h # c
    BY <2>2 DEF LineInv
  <2> HIDE DEF h
  <2>4. TypeOK'
    BY <2>1, <2>2
  <2>5. \A i \in 1..Len(waiters') : waiters'[i] = waiters[i + 1] /\ i + 1 \in 1..Len(waiters)
    BY <2>1, <2>2
  <2>6. \A i \in 1..Len(waiters') : waiters'[i] \in Callers /\ waiters'[i] # h
                                    /\ at[waiters'[i]] = "waiting"
    <3> SUFFICES ASSUME NEW i \in 1..Len(waiters')
                 PROVE  waiters'[i] \in Callers /\ waiters'[i] # h
                        /\ at[waiters'[i]] = "waiting"
      OBVIOUS
    <3>1. waiters'[i] = waiters[i + 1] /\ i + 1 \in 1..Len(waiters) /\ 1 \in 1..Len(waiters)
      BY <2>2, <2>5
    <3>2. i \in Nat /\ i >= 1 /\ i + 1 # 1
      BY <2>1, <2>2
    <3> QED
      BY <2>2, <3>1, <3>2, ElementOfSeq DEF LineInv
  <2>7. LineInv'
    <3>1. \A i \in 1..Len(waiters') : at'[waiters'[i]] = "waiting"
      BY <2>1, <2>6
    <3>2. \A i, j \in 1..Len(waiters') : waiters'[i] = waiters'[j] => i = j
      BY <2>1, <2>2, <2>5 DEF LineInv
    <3> QED
      BY <3>1, <3>2 DEF LineInv
  <2>8. \A d \in Callers : HasPermit(d)' <=> d = h
    BY <2>1, <2>2, <2>3 DEF OneInside
  <2>9. OneInside'
    BY <1>1, <2>1, <2>8 DEF OneInside
  <2> QED
    BY <2>1, <2>2, <2>3, <2>4, <2>7, <2>9 DEF OthersCounted
<1> QED
  BY <1>2, <1>3

\* A call that leaves the line, or had just been given the permit, leaves a line
\* of waiting calls and one permit behind.
LEMMA DropAcquireStep ==
  ASSUME QInv, NEW c \in Callers, NEW place \in {"out", "expired"},
         DropAcquire(c, place), UNCHANGED seen, pending' \in Nat, lost' \in Nat
  PROVE  QInv' /\ at'[c] = place /\ OthersCounted(c)
<1>1. CASE at[c] = "granted" /\ HandOn(c, place)
  BY <1>1, HandOnStep DEF HasPermit
<1>2. ASSUME at[c] = "waiting", NEW i \in DOMAIN waiters, waiters[i] = c,
             waiters' = Without(waiters, i), Move(c, place), UNCHANGED free
      PROVE  QInv' /\ at'[c] = place /\ OthersCounted(c)
  <2> USE DEF QInv, TypeOK, Places, Move
  <2>1. i \in 1..Len(waiters) /\ Len(waiters) \in Nat
    BY <1>2, LenProperties
  <2>2. /\ waiters' \in Seq(Callers)
        /\ Len(waiters') = Len(waiters) - 1
        /\ \A j \in 1..Len(waiters) - 1 :
             waiters'[j] = IF j < i THEN waiters[j] ELSE waiters[j + 1]
    BY <1>2, <2>1, WithoutProperties
  <2>3. TypeOK'
    BY <1>2, <2>2
  <2> DEFINE up(j) == IF j < i THEN j ELSE j + 1
  <2>4. \A j \in 1..Len(waiters') : /\ waiters'[j] = waiters[up(j)]
                                    /\ up(j) \in 1..Len(waiters) /\ up(j) # i
    <3> SUFFICES ASSUME NEW j \in 1..Len(waiters')
                 PROVE  /\ waiters'[j] = waiters[up(j)]
                        /\ up(j) \in 1..Len(waiters) /\ up(j) # i
      OBVIOUS
    <3>1. j \in 1..Len(waiters) - 1 /\ i \in Nat /\ j \in Nat
      BY <2>1, <2>2
    <3>2. waiters'[j] = IF j < i THEN waiters[j] ELSE waiters[j + 1]
      BY <2>2, <3>1
    <3> QED
      BY <2>1, <3>1, <3>2
  <2>5. \A j, k \in 1..Len(waiters') : up(j) = up(k) => j = k
    <3>1. i \in Nat /\ Len(waiters') \in Nat
      BY <2>1, <2>2, LenProperties
    <3>2. \A j, k \in Nat : up(j) = up(k) => j = k
      BY <3>1
    <3> QED
      BY <3>1, <3>2
  <2> HIDE DEF up
  <2>6. \A j \in 1..Len(waiters') : at'[waiters'[j]] = "waiting"
    <3> SUFFICES ASSUME NEW j \in 1..Len(waiters') PROVE at'[waiters'[j]] = "waiting"
      OBVIOUS
    <3>1. waiters[up(j)] # c /\ at[waiters[up(j)]] = "waiting"
      BY <1>2, <2>1, <2>4 DEF LineInv
    <3>2. waiters[up(j)] \in Callers
      BY <2>4, ElementOfSeq
    <3> QED
      BY <1>2, <2>4, <3>1, <3>2
  <2>7. LineInv'
    <3>1. ASSUME NEW j \in 1..Len(waiters'), NEW k \in 1..Len(waiters'),
                 waiters'[j] = waiters'[k]
          PROVE  j = k
      <4>1. waiters[up(j)] = waiters[up(k)]
        BY <2>4, <3>1
      <4>2. up(j) = up(k)
        BY <2>4, <4>1 DEF LineInv
      <4> QED
        BY <2>5, <4>2
    <3> QED
      BY <2>6, <3>1 DEF LineInv
  <2>8. waiters # <<>>
    BY <2>1, EmptySeq
  <2>9. OneInside'
    BY <1>2, <2>8 DEF OneInside, HasPermit
  <2> QED
    BY <1>2, <2>3, <2>7, <2>9 DEF OthersCounted
<1> QED
  BY <1>1, <1>2 DEF DropAcquire

-----------------------------------------------------------------------------
(* The counter.                                                            *)

\* A call is counted or not after the step, and nothing else changes.
LEMMA CountedAfter ==
  ASSUME NEW c \in Callers, OthersCounted(c)
  PROVE  Counted' = IF at'[c] \in {"out", "leaving"} THEN Counted \ {c} ELSE Counted \cup {c}
BY DEF OthersCounted, Counted

\* Cardinality after a call was counted or taken out.
LEMMA CountedCardinality ==
  ASSUME NEW c \in Callers
  PROVE  /\ IsFiniteSet(Counted) /\ Cardinality(Counted) \in Nat
         /\ Cardinality(Counted \cup {c}) =
              IF c \in Counted THEN Cardinality(Counted) ELSE Cardinality(Counted) + 1
         /\ Cardinality(Counted \ {c}) =
              IF c \in Counted THEN Cardinality(Counted) - 1 ELSE Cardinality(Counted)
         /\ Cardinality(Counted \ {c}) \in Nat
<1>1. IsFiniteSet(Counted)
  BY QueueAssumption, FS_Subset DEF Counted
<1>2. IsFiniteSet(Counted \ {c})
  BY <1>1, FS_RemoveElement
<1> QED
  BY <1>1, <1>2, FS_CardinalityType, FS_AddElement, FS_RemoveElement

\* A counted call can be taken out of the counter: fetch_sub does not wrap.
LEMMA CanTakeOut ==
  ASSUME TypeOK, PendingExact, NEW c \in Counted
  PROVE  pending - 1 \in Nat
<1>1. c \in Callers
  BY DEF Counted
<1>2. Cardinality(Counted) - 1 \in Nat /\ Cardinality(Counted) \in Nat
  BY <1>1, CountedCardinality
<1>3. pending = Cardinality(Counted) + lost /\ lost \in Nat
  BY DEF PendingExact, TypeOK
<1> HIDE DEF Counted
<1> QED
  BY <1>2, <1>3

\* What each operation does to the line, to the permit and to the calls it is not of.
LEMMA CallerStep ==
  ASSUME IInv, NEW c \in Callers,
         Count(c) \/ CallStep(c) \/ Leave(c) \/ DropPost(c)
  PROVE  QInv' /\ OthersCounted(c)
<1> USE DEF IInv, QInv
<1>1. ASSUME Count(c) PROVE QInv' /\ OthersCounted(c)
  <2> USE <1>1 DEF Count, Move
  <2>1. TypeOK'
    BY DEF TypeOK, Places
  <2>2. OneInside' /\ OthersCounted(c)
    BY DEF TypeOK, OneInside, HasPermit, OthersCounted
  <2>3. LineInv'
    BY DEF LineInv, TypeOK
  <2> QED
    BY <2>1, <2>2, <2>3
<1>2. ASSUME Refuse(c) PROVE QInv' /\ OthersCounted(c)
  <2> USE <1>2 DEF Refuse, Move
  <2>1. TypeOK'
    BY CanTakeOut DEF TypeOK, Places, Counted
  <2>2. OneInside' /\ OthersCounted(c)
    BY DEF TypeOK, OneInside, HasPermit, OthersCounted
  <2>3. LineInv'
    BY DEF LineInv, TypeOK
  <2> QED
    BY <2>1, <2>2, <2>3
<1>3. ASSUME Join(c) PROVE QInv' /\ OthersCounted(c)
  <2>1. CASE free > 0
    <3> USE <1>3, <2>1 DEF Join, Move
    <3>1. TypeOK'
      BY DEF TypeOK, Places
    <3>2. OneInside' /\ OthersCounted(c)
      BY DEF TypeOK, OneInside, HasPermit, OthersCounted
    <3>3. LineInv'
      BY DEF LineInv, TypeOK
    <3> QED
      BY <3>1, <3>2, <3>3
  <2>2. CASE ~(free > 0)
    <3> USE <1>3, <2>2 DEF Join, Move
    <3>0. /\ waiters' = Append(waiters, c) /\ waiters \in Seq(Callers)
          /\ at' = [at EXCEPT ![c] = "waiting"] /\ at[c] = "counted"
          /\ UNCHANGED <<pending, free, seen, lost>>
      BY DEF TypeOK
    <3>1. TypeOK'
      <4>1. waiters' \in Seq(Callers)
        BY <3>0, AppendProperties
      <4> QED
        BY <3>0, <4>1 DEF TypeOK, Places
    <3>2. OneInside' /\ OthersCounted(c)
      BY DEF TypeOK, OneInside, HasPermit, OthersCounted
    <3>3. /\ waiters \in Seq(Callers) /\ waiters' = Append(waiters, c)
          /\ Len(waiters) \in Nat /\ Len(waiters') = Len(waiters) + 1
          /\ waiters'[Len(waiters) + 1] = c
          /\ \A i \in 1..Len(waiters) : waiters'[i] = waiters[i] /\ waiters[i] \in Callers
                                         /\ waiters[i] # c
      <4>1. \A i \in 1..Len(waiters) : waiters[i] \in Callers /\ waiters[i] # c
        BY <3>0, ElementOfSeq DEF LineInv
      <4>2. /\ Len(waiters) \in Nat /\ Len(waiters') = Len(waiters) + 1
            /\ waiters'[Len(waiters) + 1] = c
            /\ \A i \in 1..Len(waiters) : waiters'[i] = waiters[i]
        BY <3>0, AppendProperties, LenProperties
      <4> QED
        BY <3>0, <4>1, <4>2
    <3>4. at' = [at EXCEPT ![c] = "waiting"] /\ at \in [Callers -> Places]
      BY DEF TypeOK
    <3>5. \A i \in 1..Len(waiters') : i \in 1..Len(waiters) \/ i = Len(waiters) + 1
      BY <3>3
    <3>6. \A i \in 1..Len(waiters') : at'[waiters'[i]] = "waiting"
      BY <3>3, <3>4, <3>5 DEF LineInv
    <3>7. \A i, j \in 1..Len(waiters') : waiters'[i] = waiters'[j] => i = j
      BY <3>3, <3>5 DEF LineInv
    <3>8. LineInv'
      BY <3>6, <3>7 DEF LineInv
    <3> QED
      BY <3>1, <3>2, <3>8
  <2> QED
    BY <2>1, <2>2
<1>4. ASSUME Enter(c) PROVE QInv' /\ OthersCounted(c)
  <2> USE <1>4 DEF Enter, Move
  <2>1. TypeOK'
    BY DEF TypeOK, Places
  <2>2. OneInside' /\ OthersCounted(c)
    BY DEF TypeOK, OneInside, HasPermit, OthersCounted
  <2>3. LineInv'
    BY DEF LineInv, TypeOK
  <2> QED
    BY <2>1, <2>2, <2>3
<1>5. ASSUME LockTimeout(c) PROVE QInv' /\ OthersCounted(c)
  BY <1>5, DropAcquireStep DEF LockTimeout, TypeOK
<1>6. ASSUME Expire(c) PROVE QInv' /\ OthersCounted(c)
  <2> USE <1>6 DEF Expire, Move
  <2>1. TypeOK'
    BY CanTakeOut DEF TypeOK, Places, Counted
  <2>2. OneInside' /\ OthersCounted(c)
    BY DEF TypeOK, OneInside, HasPermit, OthersCounted
  <2>3. LineInv'
    BY DEF LineInv, TypeOK
  <2> QED
    BY <2>1, <2>2, <2>3
<1>7. ASSUME DropPost(c) PROVE QInv' /\ OthersCounted(c)
  BY <1>7, DropAcquireStep DEF DropPost, TypeOK
<1>8. ASSUME Leave(c) PROVE QInv' /\ OthersCounted(c)
  <2> USE <1>8 DEF Leave, Move
  <2>1. TypeOK'
    BY CanTakeOut DEF TypeOK, Places, Counted
  <2>2. OneInside'
    BY DEF TypeOK, OneInside, HasPermit
  <2>3. LineInv' /\ OthersCounted(c)
    BY DEF LineInv, TypeOK, OthersCounted
  <2> QED
    BY <2>1, <2>2, <2>3
<1>9. ASSUME Release(c) PROVE QInv' /\ OthersCounted(c)
  BY <1>9, HandOnStep DEF Release, TypeOK, HasPermit
<1> QED
  BY <1>1, <1>2, <1>3, <1>4, <1>5, <1>6, <1>7, <1>8, <1>9 DEF CallStep

\* Every operation moves the counter with the number of counted calls, but for a
\* drop, which moves the history instead.
LEMMA CounterStep ==
  ASSUME IInv, NEW c \in Callers,
         Count(c) \/ CallStep(c) \/ Leave(c) \/ DropPost(c)
  PROVE  PendingExact'
<1> USE DEF IInv, QInv
<1>1. OthersCounted(c) /\ TypeOK'
  BY CallerStep
<1>2. Counted' = IF at'[c] \in {"out", "leaving"} THEN Counted \ {c} ELSE Counted \cup {c}
  BY <1>1, CountedAfter
<1> DEFINE n == Cardinality(Counted)
<1>3. /\ n \in Nat
      /\ Cardinality(Counted \cup {c}) = IF c \in Counted THEN n ELSE n + 1
      /\ Cardinality(Counted \ {c}) = IF c \in Counted THEN n - 1 ELSE n
  BY CountedCardinality
<1>4. c \in Counted <=> at[c] \notin {"out", "leaving"}
  BY DEF Counted
<1>5. pending = n + lost /\ pending \in Nat /\ lost \in Nat
  BY DEF PendingExact, TypeOK
<1>6. PendingExact' <=> pending' = Cardinality(Counted') + lost'
  BY DEF PendingExact
<1> HIDE DEF n, IInv, QInv
<1>7. at \in [Callers -> Places]
  BY DEF IInv, QInv, TypeOK
<1>8. CASE Count(c)
  BY <1>2, <1>3, <1>4, <1>5, <1>6, <1>7, <1>8 DEF Count, Move
<1>9. CASE Refuse(c)
  BY <1>2, <1>3, <1>4, <1>5, <1>6, <1>7, <1>9 DEF Refuse, Move
<1>10. CASE Join(c) \/ Enter(c)
  <2>1. at[c] \in {"counted", "granted"} /\ at'[c] \in {"waiting", "inside"}
        /\ pending' = pending /\ lost' = lost
    BY <1>7, <1>10 DEF Join, Enter, Move
  <2> QED
    BY <1>2, <1>3, <1>4, <1>5, <1>6, <2>1
<1>11. CASE LockTimeout(c)
  <2>1. at[c] \in {"waiting", "granted"} /\ pending' = pending /\ lost' = lost
    BY <1>11 DEF LockTimeout, DropAcquire
  <2>2. at'[c] = "expired"
    BY <1>11, <2>1, DropAcquireStep DEF LockTimeout, IInv, QInv, TypeOK
  <2> QED
    BY <1>2, <1>3, <1>4, <1>5, <1>6, <2>1, <2>2
<1>12. CASE Expire(c)
  BY <1>2, <1>3, <1>4, <1>5, <1>6, <1>7, <1>12 DEF Expire, Move
<1>13. CASE DropPost(c)
  <2>1. at[c] \in {"waiting", "granted"} /\ pending' = pending /\ lost' = lost + 1
    BY <1>13 DEF DropPost, DropAcquire
  <2>2. at'[c] = "out"
    BY <1>13, <2>1, DropAcquireStep DEF DropPost, IInv, QInv, TypeOK
  <2> QED
    BY <1>2, <1>3, <1>4, <1>5, <1>6, <2>1, <2>2
<1>14. CASE Leave(c)
  BY <1>2, <1>3, <1>4, <1>5, <1>6, <1>7, <1>14 DEF Leave, Move
<1>15. CASE Release(c)
  <2>1. at[c] = "leaving" /\ pending' = pending /\ lost' = lost
    BY <1>15 DEF Release
  <2>2. at'[c] = "out"
    BY <1>15, <2>1, HandOnStep DEF Release, HasPermit, IInv, QInv, TypeOK
  <2> QED
    BY <1>2, <1>3, <1>4, <1>5, <1>6, <2>1, <2>2
<1> QED
  BY <1>8, <1>9, <1>10, <1>11, <1>12, <1>13, <1>14, <1>15 DEF CallStep

\* Only a call that saw room is admitted, and it saw a counter that is at least
\* the number of calls admitted before it.
LEMMA RoomStep ==
  ASSUME IInv, NEW c \in Callers,
         Count(c) \/ CallStep(c) \/ Leave(c) \/ DropPost(c)
  PROVE  RoomInv'
<1>1. OthersCounted(c) /\ TypeOK' /\ TypeOK
  BY CallerStep DEF IInv, QInv
<1>2. /\ IsFiniteSet(Counted) /\ Cardinality(Counted) \in Nat
      /\ pending = Cardinality(Counted) + lost /\ lost \in Nat /\ MaxDepth \in Nat
  BY CountedCardinality, QueueAssumption DEF IInv, QInv, TypeOK, PendingExact
<1>3. /\ IsFiniteSet(Admitted) /\ Cardinality(Admitted) \in Nat
      /\ Cardinality(Admitted) <= Cardinality(Counted)
  BY <1>2, FS_Subset, FS_CardinalityType DEF Admitted
<1>4. Cardinality(Admitted) <= MaxDepth
  BY DEF IInv, RoomInv
<1>5. Queued \subseteq Admitted
  BY DEF IInv, RoomInv
<1>6. ASSUME ~Count(c), NEW d \in Callers, at'[d] \in {"waiting", "granted", "inside"}
      PROVE  seen[d] < MaxDepth
  <2>1. CASE d \in Queued
    BY <1>5, <2>1 DEF Admitted
  <2>2. CASE d \notin Queued
    <3>1. Join(c) /\ d = c
      <4>1. waiters \in Seq(Callers) /\ (waiters # <<>> => at[Head(waiters)] = "waiting")
        <5>1. waiters # <<>> => 1 \in 1..Len(waiters) /\ Head(waiters) = waiters[1]
          BY <1>1, EmptySeq, HeadTailProperties DEF TypeOK
        <5> QED
          BY <1>1, <5>1 DEF IInv, QInv, LineInv, TypeOK
      <4>2. at[d] \notin {"waiting", "granted", "inside"}
        BY <2>2 DEF Queued
      <4> QED
        BY <1>1, <1>6, <4>1, <4>2
           DEF CallStep, Refuse, Join, Enter, LockTimeout, Expire, Release, Leave, DropPost,
               DropAcquire, HandOn, Move, TypeOK
    <3> QED
      BY <3>1 DEF Join
  <2> QED
    BY <2>1, <2>2
<1>7. CASE Count(c)
  <2>1. /\ seen' = [seen EXCEPT ![c] = pending] /\ at' = [at EXCEPT ![c] = "counted"]
        /\ at[c] = "out"
    BY <1>7 DEF Count, Move
  <2>2. c \notin Admitted
    BY <2>1 DEF Admitted, Counted
  <2>3. Admitted' = IF pending < MaxDepth THEN Admitted \cup {c} ELSE Admitted
    BY <1>1, <2>1 DEF Admitted, Counted, TypeOK, Places
  <2>4. Cardinality(Admitted \cup {c}) = Cardinality(Admitted) + 1
    BY <1>3, <2>2, FS_AddElement
  <2>5. Cardinality(Admitted') <= MaxDepth
    BY <1>2, <1>3, <1>4, <2>3, <2>4
  <2>6. Queued' \subseteq Admitted'
    BY <1>1, <1>5, <2>1, <2>3 DEF Queued, Admitted, Counted, TypeOK, Places
  <2> QED
    BY <2>5, <2>6 DEF RoomInv
<1>8. CASE ~Count(c)
  <2>1. seen' = seen /\ at[c] \notin {"out"}
    BY <1>8 DEF CallStep, Refuse, Join, Enter, LockTimeout, Expire, Release, Leave, DropPost,
                DropAcquire
  <2>2. at[c] = "leaving" => at'[c] = "out"
    <3>1. SUFFICES ASSUME at[c] = "leaving" PROVE at'[c] = "out"
      OBVIOUS
    <3>2. Release(c)
      BY <1>8, <3>1 DEF CallStep, Refuse, Join, Enter, LockTimeout, Expire, Leave, DropPost,
                        DropAcquire
    <3> QED
      BY <1>1, <3>1, <3>2, HandOnStep DEF Release, HasPermit, IInv, QInv, TypeOK
  <2>3. Admitted' \subseteq Admitted
    BY <1>1, <2>1, <2>2 DEF Admitted, Counted, OthersCounted
  <2>4. Cardinality(Admitted') <= Cardinality(Admitted) /\ Cardinality(Admitted') \in Nat
    BY <1>3, <2>3, FS_Subset, FS_CardinalityType
  <2>5. Cardinality(Admitted') <= MaxDepth
    BY <1>2, <1>3, <1>4, <2>4
  <2>6. Queued' \subseteq Admitted'
    <3> SUFFICES ASSUME NEW d \in Queued' PROVE d \in Admitted'
      OBVIOUS
    <3>1. d \in Callers /\ at'[d] \in {"waiting", "granted", "inside"}
      BY DEF Queued
    <3>2. seen[d] < MaxDepth
      BY <1>8, <1>6, <2>1, <3>1
    <3> QED
      BY <2>1, <3>1, <3>2 DEF Admitted, Counted
  <2> QED
    BY <2>5, <2>6 DEF RoomInv
<1> QED
  BY <1>7, <1>8

-----------------------------------------------------------------------------
(* The invariant and what follows from it.                                 *)

\* The invariant holds in an empty slot with one permit.
LEMMA InitInv == Init => IInv
<1> SUFFICES ASSUME Init PROVE IInv
  OBVIOUS
<1>1. TypeOK
  BY DEF Init, TypeOK, Places
<1>2. OneInside
  BY DEF Init, OneInside, HasPermit
<1>3. LineInv
  BY DEF Init, LineInv
<1>4. Counted = {} /\ Admitted = {}
  BY DEF Init, Counted, Admitted
<1>5. PendingExact
  BY <1>4, FS_EmptySet DEF Init, PendingExact
<1>6. RoomInv
  BY <1>4, FS_EmptySet, QueueAssumption DEF Init, RoomInv, Queued
<1> QED
  BY <1>1, <1>2, <1>3, <1>5, <1>6 DEF IInv, QInv

\* Every step of acquire, of its guard and of a dropped post keeps the invariant.
LEMMA NextInv == IInv /\ [Next]_queueVars => IInv'
<1> SUFFICES ASSUME IInv, [Next]_queueVars PROVE IInv'
  OBVIOUS
<1>1. ASSUME NEW c \in Callers, Count(c) \/ CallStep(c) \/ Leave(c) \/ DropPost(c)
      PROVE  IInv'
  BY <1>1, CallerStep, CounterStep, RoomStep DEF IInv
<1>2. CASE UNCHANGED queueVars
  BY <1>2 DEF queueVars, IInv, QInv, TypeOK, OneInside, LineInv, PendingExact, RoomInv,
              Counted, Admitted, Queued, HasPermit
<1>3. Posts \subseteq Callers
  BY DEF Callers
<1> QED
  BY <1>1, <1>2, <1>3 DEF Next

\* The invariant holds in every reachable state.
THEOREM Safety == Spec => []IInv
BY InitInv, NextInv, PTL DEF Spec

\* Counter, permits, line and callers of SessionQueue keep their types; the
\* counter never wraps below zero.
THEOREM TypeCorrect == Spec => []TypeOK
<1>1. IInv => TypeOK
  BY DEF IInv, QInv
<1> QED
  BY <1>1, Safety, PTL

\* One call has the turn of the session, whatever timeouts and drops do to the line.
THEOREM OneTurn == Spec => []OneInside
<1>1. IInv => OneInside
  BY DEF IInv, QInv
<1> QED
  BY <1>1, Safety, PTL

\* The counter of acquire is exact but for the posts dropped at their await.
THEOREM CounterIsExact == Spec => []PendingExact
<1>1. IInv => PendingExact
  BY DEF IInv
<1> QED
  BY <1>1, Safety, PTL

\* No more than MaxDepth calls are in line and inside, though fetch_add comes
\* before the comparison.
THEOREM DepthIsBounded == Spec => []DepthBound
<1>1. IInv => DepthBound
  <2> SUFFICES ASSUME IInv PROVE DepthBound
    OBVIOUS
  <2>1. Queued \subseteq Admitted /\ Cardinality(Admitted) <= MaxDepth
    BY DEF IInv, RoomInv
  <2>2. IsFiniteSet(Admitted)
    BY QueueAssumption, FS_Subset DEF Admitted, Counted
  <2>3. Cardinality(Queued) <= Cardinality(Admitted) /\ Cardinality(Queued) \in Nat
        /\ Cardinality(Admitted) \in Nat
    BY <2>1, <2>2, FS_Subset, FS_CardinalityType
  <2>4. Cardinality(Queued) <= MaxDepth
    BY <2>1, <2>3, QueueAssumption
  <2> QED
    BY <2>4 DEF DepthBound, Queued
<1> QED
  BY <1>1, Safety, PTL

-----------------------------------------------------------------------------
(* The queue is a lock.  Every step moves one call, except a permit handed *)
(* on, which also moves the head of the line: from outside that call keeps *)
(* waiting.                                                                *)

\* Of the calls other than c, none is seen to move by those outside the queue.
OthersStay(c) ==
  \A d \in Callers \ {c} : (d \in InLine' <=> d \in InLine) /\ (d \in HasGuard' <=> d \in HasGuard)

\* A permit that is handed on is not seen from outside until its new owner enters.
LEMMA HandOnHidden ==
  ASSUME QInv, NEW c \in Callers, HasPermit(c), NEW place \in {"out", "expired"},
         HandOn(c, place)
  PROVE  at'[c] = place /\ OthersStay(c)
<1> USE DEF QInv, TypeOK, Places, HasPermit, OthersStay, InLine, HasGuard
<1>1. CASE waiters = <<>>
  BY <1>1 DEF HandOn, Move
<1>2. CASE waiters # <<>>
  <2> DEFINE h == Head(waiters)
  <2>1. at' = [at EXCEPT ![c] = place, ![h] = "granted"]
    BY <1>2 DEF HandOn
  <2>2. h \in Callers /\ h = waiters[1] /\ 1 \in 1..Len(waiters)
    BY <1>2, HeadTailProperties, EmptySeq
  <2>3. at[h] = "waiting" /\ h # c
    BY <2>2 DEF LineInv
  <2> HIDE DEF h
  <2> QED
    BY <2>1, <2>2, <2>3
<1> QED
  BY <1>1, <1>2

\* An acquire that is dropped, waiting or just granted, moves its own call only.
LEMMA DropAcquireHidden ==
  ASSUME QInv, NEW c \in Callers, NEW place \in {"out", "expired"}, DropAcquire(c, place)
  PROVE  c \in InLine /\ at'[c] = place /\ OthersStay(c)
<1>1. CASE at[c] = "granted" /\ HandOn(c, place)
  BY <1>1, HandOnHidden DEF HasPermit, InLine
<1>2. CASE at[c] = "waiting" /\ Move(c, place)
  BY <1>2 DEF QInv, TypeOK, Places, Move, OthersStay, InLine, HasGuard
<1> QED
  BY <1>1, <1>2 DEF DropAcquire

\* Who enters finds nobody inside.
LEMMA NobodyInside ==
  ASSUME QInv, NEW c \in Callers, free > 0 \/ at[c] = "granted"
  PROVE  HasGuard = {}
<1> SUFFICES ASSUME NEW d \in Callers, at[d] \in {"inside", "leaving"} PROVE FALSE
  BY DEF HasGuard
<1> QED
  BY DEF QInv, OneInside, HasPermit

\* One call's step is a step of the lock, or hidden.
LEMMA CallIsLockStep ==
  ASSUME QInv, NEW c \in Callers, Count(c) \/ CallStep(c) \/ Leave(c) \/ DropPost(c)
  PROVE  \/ Lock!AskLock(c) \/ Lock!GiveUp(c) \/ Lock!TakeLock(c) \/ Lock!LeaveLock(c)
         \/ InLine' = InLine /\ HasGuard' = HasGuard
<1> USE DEF QInv, TypeOK, Places, Move, InLine, HasGuard
<1>1. CASE Count(c)
  BY <1>1 DEF Count, Lock!AskLock
<1>2. CASE Refuse(c)
  BY <1>2 DEF Refuse, Lock!GiveUp
<1>3. CASE Join(c)
  <2>1. CASE free > 0
    <3>1. HasGuard = {}
      BY <2>1, NobodyInside
    <3>2. InLine' = InLine \ {c} /\ HasGuard' = {c} /\ c \in InLine
      BY <1>3, <2>1, <3>1 DEF Join
    <3> QED
      BY <3>1, <3>2 DEF Lock!TakeLock
  <2>2. CASE ~(free > 0)
    BY <1>3, <2>2 DEF Join
  <2> QED
    BY <2>1, <2>2
<1>4. CASE Enter(c)
  <2>1. HasGuard = {}
    BY <1>4, NobodyInside DEF Enter
  <2>2. InLine' = InLine \ {c} /\ HasGuard' = {c} /\ c \in InLine
    BY <1>4, <2>1 DEF Enter
  <2> QED
    BY <2>1, <2>2 DEF Lock!TakeLock
<1>5. CASE LockTimeout(c)
  <2>1. c \in InLine /\ at'[c] = "expired" /\ OthersStay(c)
    BY <1>5, DropAcquireHidden DEF LockTimeout
  <2> QED
    BY <2>1 DEF OthersStay
<1>6. CASE Expire(c)
  BY <1>6 DEF Expire, Lock!GiveUp
<1>7. CASE DropPost(c)
  <2>1. c \in InLine /\ at'[c] = "out" /\ OthersStay(c)
    BY <1>7, DropAcquireHidden DEF DropPost
  <2> QED
    BY <2>1 DEF OthersStay, Lock!GiveUp
<1>8. CASE Leave(c)
  BY <1>8 DEF Leave
<1>9. CASE Release(c)
  <2>1. c \in HasGuard /\ at'[c] = "out" /\ OthersStay(c)
    BY <1>9, HandOnHidden DEF Release, HasPermit
  <2> QED
    BY <2>1 DEF OthersStay, Lock!LeaveLock
<1> QED
  BY <1>1, <1>2, <1>3, <1>4, <1>5, <1>6, <1>7, <1>8, <1>9 DEF CallStep

\* An empty slot is a free lock.
LEMMA InitIsLockInit == Init => Lock!LockInit
BY DEF Init, Lock!LockInit, InLine, HasGuard

\* Every step of the queue is a step of the lock, or hidden.
LEMMA NextIsLockNext == IInv /\ [Next]_queueVars => [Lock!LockNext]_(Lock!lockVars)
<1> SUFFICES ASSUME IInv, [Next]_queueVars PROVE [Lock!LockNext]_(Lock!lockVars)
  OBVIOUS
<1>1. ASSUME NEW c \in Callers, Count(c) \/ CallStep(c) \/ Leave(c) \/ DropPost(c)
      PROVE  [Lock!LockNext]_(Lock!lockVars)
  BY <1>1, CallIsLockStep DEF IInv, Lock!LockNext, Lock!lockVars
<1>2. CASE UNCHANGED queueVars
  BY <1>2 DEF queueVars, Lock!lockVars, InLine, HasGuard
<1>3. Posts \subseteq Callers
  BY DEF Callers
<1> QED
  BY <1>1, <1>2, <1>3 DEF Next

\* The session queue of the gateway is a lock: whoever is inside was alone when it
\* entered and stays alone, and whoever waited got in from the line or gave up.
THEOREM QueueIsLock == Spec => KeepsLock
BY InitIsLockInit, NextIsLockNext, Safety, PTL DEF Spec, KeepsLock, Lock!LockSpec

-----------------------------------------------------------------------------
(* No permit is lost.                                                      *)

InTheLine(c) == \E i \in 1..Len(waiters) : waiters[i] = c

\* A call that waits is in the line of the semaphore and some call has the permit it
\* waits for: nobody waits at a free semaphore, and no drop or timeout loses the
\* permit that was on its way to the dropped call.
WaitsForSomeone ==
  \A c \in Callers : at[c] = "waiting" => InTheLine(c) /\ \E d \in Callers : HasPermit(d)

PermitInv ==
  /\ free = 0 => \E d \in Callers : HasPermit(d)
  /\ \A c \in Callers : at[c] = "waiting" => InTheLine(c)

\* A permit that is handed on reaches the next in line, or the semaphore when nobody
\* is in line, and with it nobody waits.
LEMMA HandOnKeepsPermit ==
  ASSUME QInv, PermitInv, NEW c \in Callers, HasPermit(c), NEW place \in {"out", "expired"},
         HandOn(c, place)
  PROVE  PermitInv'
<1> USE DEF QInv, TypeOK, Places, HasPermit, InTheLine
<1>1. CASE waiters = <<>>
  <2>1. free' = free + 1 /\ waiters' = waiters /\ at' = [at EXCEPT ![c] = place]
    BY <1>1 DEF HandOn, Move
  <2>2. free' # 0
    BY <2>1
  <2>3. \A d \in Callers : at'[d] = "waiting" => at[d] = "waiting"
    BY <2>1
  <2>4. ASSUME NEW d \in Callers, at'[d] = "waiting" PROVE InTheLine(d)'
    BY <2>1, <2>3, <2>4 DEF PermitInv
  <2> HIDE DEF InTheLine
  <2> QED BY <2>2, <2>4 DEF PermitInv
<1>2. CASE waiters # <<>>
  <2> DEFINE h == Head(waiters)
  <2>1. /\ at' = [at EXCEPT ![c] = place, ![h] = "granted"]
        /\ free' = free /\ waiters' = Tail(waiters)
    BY <1>2 DEF HandOn
  <2>2. /\ h \in Callers /\ h = waiters[1] /\ Len(waiters) \in Nat \ {0}
        /\ Len(waiters') = Len(waiters) - 1
        /\ \A i \in 1..Len(waiters') : waiters'[i] = waiters[i + 1]
    BY <1>2, <2>1, HeadTailProperties, EmptySeq
  <2> HIDE DEF h
  <2>3. \E d \in Callers : HasPermit(d)'
    BY <2>1, <2>2
  <2>4. ASSUME NEW d \in Callers, at'[d] = "waiting" PROVE InTheLine(d)'
    <3>1. at[d] = "waiting" /\ d # h
      BY <2>1, <2>2, <2>4
    <3>2. PICK i \in 1..Len(waiters) : waiters[i] = d
      BY <3>1 DEF PermitInv
    <3>3. i # 1 /\ i - 1 \in 1..Len(waiters') /\ waiters'[i - 1] = waiters[i]
      BY <2>1, <2>2, <3>1, <3>2
    <3> QED BY <3>2, <3>3
  <2> HIDE DEF InTheLine
  <2> QED BY <2>3, <2>4 DEF PermitInv
<1> QED BY <1>1, <1>2

\* A dropped acquire leaves the others in line and gives back what it had been given.
LEMMA DropKeepsPermit ==
  ASSUME QInv, PermitInv, NEW c \in Callers, NEW place \in {"out", "expired"},
         DropAcquire(c, place)
  PROVE  PermitInv'
<1>1. CASE at[c] = "granted" /\ HandOn(c, place)
  BY <1>1, HandOnKeepsPermit DEF HasPermit
<1>2. ASSUME at[c] = "waiting", NEW i \in DOMAIN waiters, waiters[i] = c,
             waiters' = Without(waiters, i), Move(c, place), UNCHANGED free
      PROVE  PermitInv'
  <2> USE DEF QInv, TypeOK, Places, HasPermit, InTheLine
  <2>1. i \in 1..Len(waiters) /\ Len(waiters) \in Nat
    BY <1>2, LenProperties
  <2>2. /\ Len(waiters') = Len(waiters) - 1
        /\ \A j \in 1..Len(waiters) - 1 :
             waiters'[j] = IF j < i THEN waiters[j] ELSE waiters[j + 1]
    BY <1>2, <2>1, WithoutProperties
  <2>3. at' = [at EXCEPT ![c] = place]
    BY <1>2 DEF Move
  <2>4. free' = 0 => \E d \in Callers : HasPermit(d)'
    BY <1>2, <2>3 DEF PermitInv
  <2>5. ASSUME NEW d \in Callers, at'[d] = "waiting" PROVE InTheLine(d)'
    <3>1. at[d] = "waiting" /\ d # c
      BY <2>3, <2>5
    <3>2. PICK j \in 1..Len(waiters) : waiters[j] = d
      BY <3>1 DEF PermitInv
    <3>3. j # i
      BY <1>2, <3>1, <3>2
    <3>4. CASE j < i
      BY <2>1, <2>2, <3>2, <3>4
    <3>5. CASE j > i
      <4>1. j - 1 \in 1..Len(waiters') /\ waiters'[j - 1] = waiters[j]
        BY <2>1, <2>2, <3>5
      <4> QED BY <3>2, <4>1
    <3> QED BY <2>1, <3>3, <3>4, <3>5
  <2> QED BY <2>4, <2>5 DEF PermitInv
<1> QED BY <1>1, <1>2 DEF DropAcquire

\* No step of a call loses a permit or a place in the line.
LEMMA CallKeepsPermit ==
  ASSUME QInv, PermitInv, NEW c \in Callers,
         Count(c) \/ CallStep(c) \/ Leave(c) \/ DropPost(c)
  PROVE  PermitInv'
<1> USE DEF QInv, TypeOK, Places, HasPermit, InTheLine, PermitInv, Move
<1>1. CASE Count(c) \/ Refuse(c) \/ Expire(c) \/ Enter(c) \/ Leave(c)
  BY <1>1 DEF Count, Refuse, Expire, Enter, Leave
<1>2. CASE Join(c)
  <2>1. CASE free > 0
    BY <1>2, <2>1 DEF Join
  <2>2. CASE ~(free > 0)
    <3>1. waiters' = Append(waiters, c) /\ at' = [at EXCEPT ![c] = "waiting"] /\ free' = free
      BY <1>2, <2>2 DEF Join
    <3>2. /\ Len(waiters) \in Nat /\ Len(waiters') = Len(waiters) + 1
          /\ waiters'[Len(waiters) + 1] = c
          /\ \A i \in 1..Len(waiters) : waiters'[i] = waiters[i]
      BY <3>1, AppendProperties, LenProperties
    <3>3. at[c] = "counted"
      BY <1>2 DEF Join
    <3>4. free' = 0 => \E d \in Callers : HasPermit(d)'
      BY <3>1, <3>3
    <3>5. ASSUME NEW d \in Callers, at'[d] = "waiting" PROVE InTheLine(d)'
      <4>1. CASE d = c
        BY <3>2, <4>1
      <4>2. CASE d # c
        <5>1. PICK i \in 1..Len(waiters) : waiters[i] = d
          BY <3>1, <3>5, <4>2
        <5> QED BY <3>2, <5>1
      <4> QED BY <4>1, <4>2
    <3> QED BY <3>4, <3>5
  <2> QED BY <2>1, <2>2
<1> HIDE DEF QInv, TypeOK, Places, HasPermit, InTheLine, PermitInv, Move
<1>3. CASE LockTimeout(c) \/ DropPost(c)
  BY <1>3, DropKeepsPermit DEF LockTimeout, DropPost
<1>4. CASE Release(c)
  BY <1>4, HandOnKeepsPermit DEF Release, HasPermit
<1> QED BY <1>1, <1>2, <1>3, <1>4 DEF CallStep

\* Whatever timeouts and drops do, a waiting call waits for a call that has the
\* permit: the safety half of EveryWaitEnds, for any number of callers.
THEOREM NoPermitIsLost == Spec => []WaitsForSomeone
<1>1. Init => PermitInv
  BY DEF Init, PermitInv
<1>2. IInv /\ PermitInv /\ [Next]_queueVars => PermitInv'
  <2> SUFFICES ASSUME IInv, PermitInv, [Next]_queueVars PROVE PermitInv'
    OBVIOUS
  <2>1. ASSUME NEW c \in Callers, Count(c) \/ CallStep(c) \/ Leave(c) \/ DropPost(c)
        PROVE  PermitInv'
    BY <2>1, CallKeepsPermit DEF IInv
  <2>2. CASE UNCHANGED queueVars
    BY <2>2 DEF queueVars, PermitInv, InTheLine, HasPermit
  <2>3. Posts \subseteq Callers
    BY DEF Callers
  <2> QED BY <2>1, <2>2, <2>3 DEF Next
<1>3. IInv /\ PermitInv => WaitsForSomeone
  <2> SUFFICES ASSUME IInv, PermitInv, NEW c \in Callers, at[c] = "waiting"
               PROVE  InTheLine(c) /\ \E d \in Callers : HasPermit(d)
    BY DEF WaitsForSomeone
  <2>1. PICK i \in 1..Len(waiters) : waiters[i] = c
    BY DEF PermitInv, InTheLine
  <2>2. waiters # <<>>
    BY <2>1, EmptySeq
  <2>3. free = 0
    BY <2>2 DEF IInv, QInv, TypeOK, OneInside
  <2> QED BY <2>3 DEF PermitInv
<1> QED BY <1>1, <1>2, <1>3, Safety, PTL DEF Spec

\* A session that has lost as many counts as its queue is deep refuses every call
\* that comes after: the counts of dropped posts never come back.
WornOut ==
  lost >= MaxDepth =>
    \A c \in Callers : at[c] = "out" /\ at'[c] # "out" => seen'[c] >= MaxDepth

\* MaxDepth posts dropped at their await close the session for good, whatever was and
\* is in it.
THEOREM LostCountsCloseSession == Spec => [][WornOut]_queueVars
<1>1. IInv => pending >= lost /\ lost \in Nat /\ pending \in Nat
  <2> SUFFICES ASSUME IInv PROVE pending >= lost /\ lost \in Nat /\ pending \in Nat
    OBVIOUS
  <2>1. IsFiniteSet(Counted)
    BY QueueAssumption, FS_Subset DEF Counted
  <2>2. Cardinality(Counted) \in Nat
    BY <2>1, FS_CardinalityType
  <2>3. pending = Cardinality(Counted) + lost /\ lost \in Nat /\ pending \in Nat
    BY DEF IInv, QInv, TypeOK, PendingExact
  <2> HIDE DEF Counted
  <2> QED BY <2>2, <2>3
<1>2. IInv /\ [Next]_queueVars => WornOut
  <2> SUFFICES ASSUME IInv, [Next]_queueVars, lost >= MaxDepth,
                      NEW c \in Callers, at[c] = "out", at'[c] # "out"
               PROVE  seen'[c] >= MaxDepth
    BY DEF WornOut
  <2>t. QInv /\ TypeOK /\ TypeOK'
    BY NextInv DEF IInv, QInv
  <2>1. ASSUME NEW d \in Callers, d # c, OthersStay(d) PROVE FALSE
    BY <2>1, <2>t DEF OthersStay, InLine, HasGuard, TypeOK, Places
  <2>2. ASSUME NEW d \in Callers, CallStep(d) \/ Leave(d) \/ DropPost(d) PROVE FALSE
    <3>1. d # c
      BY <2>2 DEF CallStep, Refuse, Join, Enter, LockTimeout, Expire, Release, Leave, DropPost,
                  DropAcquire
    <3>2. CASE Refuse(d) \/ Join(d) \/ Enter(d) \/ Expire(d) \/ Leave(d)
      BY <2>t, <3>1, <3>2 DEF Refuse, Join, Enter, Expire, Leave, Move, TypeOK
    <3>3. CASE LockTimeout(d) \/ DropPost(d) \/ Release(d)
      BY <2>1, <2>t, <3>1, <3>3, DropAcquireHidden, HandOnHidden
         DEF LockTimeout, DropPost, Release, HasPermit
    <3> QED BY <2>2, <3>2, <3>3 DEF CallStep
  <2>3. ASSUME NEW d \in Callers, Count(d) PROVE seen'[c] >= MaxDepth
    <3>1. d = c
      BY <2>3, <2>t DEF Count, Move, TypeOK
    <3>2. seen'[c] = pending
      BY <2>3, <2>t, <3>1 DEF Count, TypeOK
    <3> QED BY <1>1, <3>2, QueueAssumption
  <2>4. ~UNCHANGED queueVars
    BY DEF queueVars
  <2>5. Posts \subseteq Callers
    BY DEF Callers
  <2> QED BY <2>2, <2>3, <2>4, <2>5 DEF Next
<1> QED BY <1>1, <1>2, Safety, PTL DEF Spec
=============================================================================
