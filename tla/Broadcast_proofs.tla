-------------------------- MODULE Broadcast_proofs --------------------------
(***************************************************************************)
(* Proofs about Broadcast, for any number of clients and any buffers.      *)
(***************************************************************************)
EXTENDS Broadcast, FiniteSetTheorems, SequenceTheorems, TLAPS

Joined == {"reading", "stalled", "closed"}

\* The clients the loop has gone past, among them those that have moved into the place of
\* a removed one, and a newcomer appended to where the loop already is.
Passed == {list_client[i] : i \in {j \in DOMAIN list_client : j <= index}}

\* Who is missing something: passed, on the list since the round began, and sent nothing.
Missed == (Passed \cap began) \ sent

\* The types the argument needs, and where newcomers are not.
Lists ==
  /\ list_client \in Seq(Listeners)
  /\ feed \in [Listeners -> {"none", "backlog"} \cup Joined]
  /\ index \in Nat /\ removed \in Nat
  /\ began \subseteq Listeners
  /\ \A c \in ToSet(list_client) \cup began : feed[c] \in Joined

MissedAtMostRemoved == at = "round" => Cardinality(Missed) <= removed

BroadcastInv == Lists /\ MissedAtMostRemoved /\ SkippedAtMostRemoved

LEMMA FewerInSubset ==
  ASSUME NEW S, IsFiniteSet(S), NEW T, T \subseteq S
  PROVE  IsFiniteSet(T) /\ Cardinality(T) <= Cardinality(S) /\ Cardinality(T) \in Nat
  BY FS_Subset, FS_CardinalityType

LEMMA OneMoreAtMost ==
  ASSUME NEW S, IsFiniteSet(S), NEW x, NEW T, T \subseteq S \cup {x}
  PROVE  Cardinality(T) <= Cardinality(S) + 1
  <1>1. /\ IsFiniteSet(S \cup {x})
        /\ Cardinality(S \cup {x}) <= Cardinality(S) + 1
    <2>1. Cardinality(S) \in Nat
      BY FS_CardinalityType
    <2>2. Cardinality(S \cup {x}) = IF x \in S THEN Cardinality(S) ELSE Cardinality(S) + 1
      BY FS_AddElement
    <2> QED
      BY <2>1, <2>2, FS_AddElement
  <1> QED
    BY <1>1, FewerInSubset, FS_CardinalityType

LEMMA MissedIsFinite == ASSUME Lists PROVE IsFiniteSet(Missed) /\ Cardinality(Missed) \in Nat
  BY FewerInSubset, BroadcastAssumption DEF Lists, Missed

\* A step that changes neither the list nor the loop, and lets no client out, keeps all.
LEMMA OutsideTheLoop ==
  ASSUME BroadcastInv, UNCHANGED <<list_client, loop>>,
         feed' \in [Listeners -> {"none", "backlog"} \cup Joined],
         \A c \in Listeners : feed[c] \in Joined => feed'[c] \in Joined
  PROVE  BroadcastInv'
  <1>1. ToSet(list_client) \subseteq Listeners
    BY DEF BroadcastInv, Lists, ToSet
  <1>2. Lists'
    BY <1>1 DEF BroadcastInv, Lists, loop
  <1>3. Missed' = Missed
    BY DEF Missed, Passed, loop
  <1> QED
    BY <1>2, <1>3 DEF BroadcastInv, MissedAtMostRemoved, SkippedAtMostRemoved, loop

LEMMA ListenInv ==
  ASSUME BroadcastInv, NEW c \in Listeners, listen(c)
  PROVE  BroadcastInv'
  <1> USE DEF BroadcastInv
  <1>1. c \notin began
    BY DEF listen, Lists, Joined
  <1>2. /\ list_client' = Append(list_client, c)
        /\ feed' = [feed EXCEPT ![c] = "reading"]
        /\ UNCHANGED loop
    BY DEF listen
  <1>3. ToSet(list_client') = ToSet(list_client) \cup {c}
    BY <1>2 DEF Lists, ToSet
  <1>4. Lists'
    <2>1. list_client' \in Seq(Listeners)
      BY <1>2 DEF Lists
    <2>2. feed' \in [Listeners -> {"none", "backlog"} \cup Joined]
      BY <1>2 DEF Lists, Joined
    <2>3. \A d \in ToSet(list_client') \cup began' : feed'[d] \in Joined
      BY <1>2, <1>3 DEF Lists, loop, Joined
    <2> QED
      BY <1>2, <2>1, <2>2, <2>3 DEF Lists, loop
  <1>5. Passed' \subseteq Passed \cup {c}
    BY <1>2 DEF Passed, Lists, loop
  <1>6. Missed' \subseteq Missed
    BY <1>1, <1>2, <1>5 DEF Missed, loop
  <1>7. Cardinality(Missed') <= Cardinality(Missed) /\ Cardinality(Missed') \in Nat
    BY <1>6, MissedIsFinite, FewerInSubset
  <1> QED
    BY <1>2, <1>4, <1>7, MissedIsFinite DEF MissedAtMostRemoved, SkippedAtMostRemoved, Lists, loop

LEMMA WakeInv == ASSUME BroadcastInv, wake PROVE BroadcastInv'
  <1> USE DEF BroadcastInv
  <1>1. Missed' = {}
    BY DEF wake, Missed, Passed, Lists
  <1>2. Lists'
    BY DEF wake, Lists, ToSet
  <1> QED
    BY <1>1, <1>2, FS_EmptySet DEF wake, MissedAtMostRemoved, SkippedAtMostRemoved

\* A client is sent to, or thought so.
LEMMA PassOn ==
  ASSUME BroadcastInv, at = "round", index < Len(list_client),
         sent' = sent \cup {Next_Client}, index' = index + 1,
         UNCHANGED <<list_client, feed, at, began, removed, skipped>>
  PROVE  BroadcastInv'
  <1> USE DEF BroadcastInv
  <1>1. Passed' \subseteq Passed \cup {Next_Client}
    BY DEF Passed, Next_Client, Lists
  <1>2. Missed' \subseteq Missed
    BY <1>1 DEF Missed
  <1>3. Cardinality(Missed') <= Cardinality(Missed) /\ Cardinality(Missed') \in Nat
    BY <1>2, MissedIsFinite, FewerInSubset
  <1>4. Lists'
    BY DEF Lists
  <1> QED
    BY <1>3, <1>4, MissedIsFinite DEF MissedAtMostRemoved, SkippedAtMostRemoved, Lists

\* What is left of a sequence without its element k + 1.
LEMMA Removal ==
  ASSUME NEW S, NEW s \in Seq(S), NEW k \in Nat, k < Len(s)
  PROVE  /\ RemoveAt(s, k + 1) \in Seq(S)
         /\ Len(RemoveAt(s, k + 1)) = Len(s) - 1
         /\ \A i \in 1..(Len(s) - 1) :
              RemoveAt(s, k + 1)[i] = IF i <= k THEN s[i] ELSE s[i + 1]
  <1> DEFINE front == SubSeq(s, 1, k)
             back  == SubSeq(s, k + 2, Len(s))
  <1>1. /\ front \in Seq(S) /\ Len(front) = k
        /\ \A i \in 1..k : front[i] = s[i]
    OBVIOUS
  <1>2. /\ back \in Seq(S) /\ Len(back) = Len(s) - k - 1
        /\ \A i \in 1..(Len(s) - k - 1) : back[i] = s[k + 1 + i]
    OBVIOUS
  <1>3. RemoveAt(s, k + 1) = front \o back
    <2>1. RemoveAt(s, k + 1) = SubSeq(s, 1, (k + 1) - 1) \o SubSeq(s, (k + 1) + 1, Len(s))
      BY Zenon DEF RemoveAt
    <2>2. (k + 1) - 1 = k /\ (k + 1) + 1 = k + 2
      OBVIOUS
    <2> QED
      BY <2>1, <2>2, Zenon
  <1> HIDE DEF front, back
  <1>4. /\ front \o back \in Seq(S) /\ Len(front \o back) = Len(front) + Len(back)
        /\ \A i \in 1..Len(front) + Len(back) :
             (front \o back)[i] = IF i <= Len(front) THEN front[i] ELSE back[i - Len(front)]
    BY <1>1, <1>2, ConcatProperties, Zenon
  <1>5. ASSUME NEW i \in 1..(Len(s) - 1)
        PROVE  (front \o back)[i] = IF i <= k THEN s[i] ELSE s[i + 1]
    <2>1. CASE i <= k
      BY <1>1, <1>2, <1>4, <2>1
    <2>2. CASE ~(i <= k)
      <3>1. (front \o back)[i] = back[i - k]
        BY <1>1, <1>2, <1>4, <2>2
      <3>2. i - k \in 1..(Len(s) - k - 1) /\ k + 1 + (i - k) = i + 1
        BY <2>2
      <3> QED
        BY <1>2, <2>2, <3>1, <3>2
    <2> QED
      BY <2>1, <2>2
  <1>6. Len(front) + Len(back) = Len(s) - 1
    BY <1>1, <1>2
  <1> QED
    BY <1>3, <1>4, <1>5, <1>6

LEMMA RemoveInv == ASSUME BroadcastInv, remove PROVE BroadcastInv'
  <1> USE DEF BroadcastInv
  <1> DEFINE n == Len(list_client)
  <1>1. /\ n \in Nat /\ index \in Nat /\ index < n
        /\ list_client \in Seq(Listeners)
        /\ list_client' = RemoveAt(list_client, index + 1)
        /\ index' = index + 1 /\ removed' = removed + 1
        /\ UNCHANGED <<feed, at, began, sent, skipped>> /\ at = "round"
    BY DEF remove, Lists
  <1>2. /\ list_client' \in Seq(Listeners) /\ Len(list_client') = n - 1
        /\ \A i \in 1..(n - 1) :
             list_client'[i] = IF i <= index THEN list_client[i] ELSE list_client[i + 1]
    BY <1>1, Removal
  <1>3. ToSet(list_client') \subseteq ToSet(list_client)
    BY <1>1, <1>2 DEF ToSet
  <1>4. Lists'
    BY <1>1, <1>2, <1>3 DEF Lists
  <1>5. Passed' \subseteq Passed \cup {list_client[index + 2]}
    <2> SUFFICES ASSUME NEW i \in 1..(n - 1), i <= index + 1
                 PROVE  list_client'[i] \in Passed \cup {list_client[index + 2]}
      BY <1>1, <1>2 DEF Passed
    <2>1. CASE i <= index
      <3>1. list_client'[i] = list_client[i] /\ i \in DOMAIN list_client
        BY <1>1, <1>2, <2>1
      <3> QED
        BY <2>1, <3>1 DEF Passed
    <2>2. CASE ~(i <= index)
      <3>1. i + 1 = index + 2 /\ list_client'[i] = list_client[i + 1]
        BY <1>1, <1>2, <2>2
      <3> QED
        BY <3>1
    <2> QED
      BY <2>1, <2>2
  <1>6. Missed' \subseteq Missed \cup {list_client[index + 2]}
    BY <1>1, <1>5 DEF Missed
  <1>7. Cardinality(Missed') <= Cardinality(Missed) + 1
    BY <1>6, MissedIsFinite, OneMoreAtMost
  <1>8. Cardinality(Missed') \in Nat
    <2>1. Lists' => IsFiniteSet(Missed')
      BY FewerInSubset, BroadcastAssumption DEF Lists, Missed
    <2> QED
      BY <2>1, <1>4, FS_CardinalityType
  <1> QED
    BY <1>1, <1>4, <1>7, <1>8, MissedIsFinite DEF MissedAtMostRemoved, SkippedAtMostRemoved, Lists

LEMMA RoundEndsInv == ASSUME BroadcastInv, round_ends PROVE BroadcastInv'
  <1> USE DEF BroadcastInv
  <1>1. ToSet(list_client) \subseteq Passed
    BY DEF round_ends, ToSet, Passed, Lists
  <1>2. skipped' \subseteq Missed
    BY <1>1 DEF round_ends, Missed
  <1>3. Cardinality(skipped') <= Cardinality(Missed) /\ Cardinality(skipped') \in Nat
    BY <1>2, MissedIsFinite, FewerInSubset
  <1>4. Lists'
    BY DEF round_ends, Lists
  <1>5. Cardinality(Missed) <= removed
    BY DEF round_ends, MissedAtMostRemoved
  <1> QED
    BY <1>3, <1>4, <1>5, MissedIsFinite
    DEF round_ends, MissedAtMostRemoved, SkippedAtMostRemoved, Lists

LEMMA BroadcastInvInit == BroadcastInit => BroadcastInv
  <1> SUFFICES ASSUME BroadcastInit PROVE BroadcastInv
    OBVIOUS
  <1>1. Lists
    BY DEF BroadcastInit, Lists, ToSet
  <1> QED
    BY <1>1, FS_EmptySet
    DEF BroadcastInit, BroadcastInv, MissedAtMostRemoved, SkippedAtMostRemoved

LEMMA BroadcastInvNext == BroadcastInv /\ [BroadcastNext]_broadcast => BroadcastInv'
  <1> SUFFICES ASSUME BroadcastInv, [BroadcastNext]_broadcast PROVE BroadcastInv'
    OBVIOUS
  <1>0. feed \in [Listeners -> {"none", "backlog"} \cup Joined]
    BY DEF BroadcastInv, Lists
  <1>1. CASE setFinish
    BY <1>0, <1>1, OutsideTheLoop DEF setFinish
  <1>2. CASE sendData
    <2>1. CASE send
      BY <2>1, PassOn DEF send
    <2>2. CASE unheard
      BY <2>2, PassOn DEF unheard
    <2> QED
      BY <1>2, <2>1, <2>2, WakeInv, RemoveInv, RoundEndsInv DEF sendData
  <1>3. ASSUME NEW c \in Listeners, connect(c) PROVE BroadcastInv'
    BY <1>0, <1>3, OutsideTheLoop DEF connect, Joined
  <1>4. ASSUME NEW c \in Listeners, listen(c) PROVE BroadcastInv'
    BY <1>4, ListenInv
  <1>5. ASSUME NEW c \in Listeners, updateData(c) PROVE BroadcastInv'
    BY <1>0, <1>5, OutsideTheLoop DEF updateData, Joined
  <1>6. ASSUME NEW c \in Listeners, stall(c) PROVE BroadcastInv'
    BY <1>0, <1>6, OutsideTheLoop DEF stall, Joined
  <1>7. ASSUME NEW c \in Listeners, leave(c) PROVE BroadcastInv'
    BY <1>0, <1>7, OutsideTheLoop DEF leave, Joined
  <1>8. CASE UNCHANGED broadcast
    BY <1>0, <1>8, OutsideTheLoop DEF broadcast, loop
  <1> QED
    BY <1>1, <1>2, <1>3, <1>4, <1>5, <1>6, <1>7, <1>8 DEF BroadcastNext

\* Whatever number of clients come, leave and are removed in the middle of the loops over
\* list_client, a second's round costs no more clients their tables than it removes.
THEOREM FewAreSkipped == BroadcastSpec => []SkippedAtMostRemoved
  <1>1. BroadcastInv => SkippedAtMostRemoved
    BY DEF BroadcastInv
  <1> QED
    BY <1>1, BroadcastInvInit, BroadcastInvNext, PTL DEF BroadcastSpec
----------------------------------------------------------------------------
(* The type invariant: the list holds every client once, and the loop's     *)
(* index never runs past as many clients as there are.                      *)

TypeInv == BroadcastTypeOK /\ removed <= index

LEMMA CountToN ==
  ASSUME NEW n \in Nat PROVE Cardinality(1..n) = n
  <1>1. 1 \in Int /\ n \in Int
    OBVIOUS
  <1>2. Cardinality(1..n) = IF 1 > n THEN 0 ELSE n - 1 + 1
    BY ONLY <1>1, FS_Interval
  <1> QED
    BY <1>2

LEMMA ListBound ==
  ASSUME NEW s \in Seq(Listeners), IsInjective(s) PROVE Len(s) <= Cardinality(Listeners)
  <1>1. s \in Injection(1..Len(s), Listeners)
    BY DEF Injection
  <1>2. Len(s) \in Nat
    OBVIOUS
  <1>3. Cardinality(1..Len(s)) = Len(s)
    BY <1>2, CountToN
  <1> QED
    BY <1>1, <1>3, FS_Injection, BroadcastAssumption

LEMMA CountsAreNumbers == Cardinality(Listeners) \in Nat /\ BufferSize \in Nat /\ 1 <= BufferSize
  BY BroadcastAssumption, FS_CardinalityType

\* A step of the loop past one client more.
LEMMA IndexInBounds ==
  ASSUME Lists, IsInjective(list_client), index < Len(list_client)
  PROVE  index + 1 \in 0..Cardinality(Listeners)
  BY ListBound, CountsAreNumbers DEF Lists

LEMMA ListenType ==
  ASSUME BroadcastInv, TypeInv, NEW c \in Listeners, listen(c) PROVE TypeInv'
  <1>1. c \notin ToSet(list_client)
    BY DEF BroadcastInv, Lists, listen, Joined
  <1>2. list_client \in Seq(Listeners) /\ list_client' = Append(list_client, c)
    BY DEF BroadcastInv, Lists, listen
  <1>3. IsInjective(list_client')
    BY <1>1, <1>2 DEF TypeInv, BroadcastTypeOK, IsInjective, ToSet
  <1>4. ToSet(list_client') \subseteq Listeners
    BY <1>2 DEF ToSet
  <1> QED
    BY <1>3, <1>4 DEF TypeInv, BroadcastTypeOK, listen, loop

LEMMA RemoveType == ASSUME BroadcastInv, TypeInv, remove PROVE TypeInv'
  <1>1. /\ list_client \in Seq(Listeners) /\ index \in Nat /\ index < Len(list_client)
        /\ list_client' = RemoveAt(list_client, index + 1) /\ IsInjective(list_client)
    BY DEF BroadcastInv, Lists, remove, TypeInv, BroadcastTypeOK
  <1>2. /\ list_client' \in Seq(Listeners) /\ Len(list_client') = Len(list_client) - 1
        /\ \A i \in 1..(Len(list_client) - 1) :
             list_client'[i] = IF i <= index THEN list_client[i] ELSE list_client[i + 1]
    BY <1>1, Removal
  <1>3. IsInjective(list_client')
    <2> SUFFICES ASSUME NEW a \in 1..(Len(list_client) - 1), NEW b \in 1..(Len(list_client) - 1),
                        list_client'[a] = list_client'[b]
                 PROVE  a = b
      BY <1>1, <1>2 DEF IsInjective
    <2> DEFINE was(i) == IF i <= index THEN i ELSE i + 1
    <2>1. was(a) \in DOMAIN list_client /\ was(b) \in DOMAIN list_client
      BY <1>1
    <2>2. list_client[was(a)] = list_client[was(b)]
      BY <1>2
    <2>3. was(a) = was(b)
      BY <1>1, <2>1, <2>2, Zenon DEF IsInjective
    <2> QED
      BY <1>1, <2>3
  <1>4. ToSet(list_client') \subseteq Listeners
    BY <1>2 DEF ToSet
  <1>5. index + 1 \in 0..Cardinality(Listeners)
    BY <1>1, IndexInBounds DEF BroadcastInv
  <1>6. removed \in Nat /\ removed <= index
    BY DEF TypeInv, BroadcastInv, Lists
  <1>7. /\ removed' \in 0..Cardinality(Listeners) /\ removed' <= index'
        /\ index' \in 0..Cardinality(Listeners)
    BY <1>1, <1>5, <1>6, CountsAreNumbers DEF remove
  <1> QED
    BY <1>3, <1>4, <1>7 DEF TypeInv, BroadcastTypeOK, remove

LEMMA TypeInvNext == BroadcastInv /\ TypeInv /\ [BroadcastNext]_broadcast => TypeInv'
  <1> SUFFICES ASSUME BroadcastInv, TypeInv, [BroadcastNext]_broadcast PROVE TypeInv'
    OBVIOUS
  <1> USE CountsAreNumbers DEF TypeInv, BroadcastTypeOK
  <1>1. ASSUME NEW c \in Listeners, \/ connect(c) \/ updateData(c) \/ stall(c) \/ leave(c)
        PROVE  TypeInv'
    <2>1. queue' \in [Listeners -> 0..BufferSize]
      BY <1>1 DEF connect, updateData, stall, leave
    <2>2. feed' \in [Listeners -> {"none", "backlog", "reading", "stalled", "closed"}]
      BY <1>1 DEF connect, updateData, stall, leave
    <2> QED
      BY <1>1, <2>1, <2>2 DEF connect, updateData, stall, leave, loop
  <1>2. CASE wake
    <2>1. ToSet(list_client) \subseteq Listeners
      OBVIOUS
    <2> QED
      BY <1>2, <2>1 DEF wake
  <1>3. CASE send \/ unheard
    <2>1. Next_Client \in Listeners
      BY <1>3 DEF Next_Client, send, unheard, BroadcastInv, Lists
    <2>2. index + 1 \in 0..Cardinality(Listeners) /\ removed <= index + 1
      BY <1>3, IndexInBounds DEF BroadcastInv, Lists, send, unheard
    <2>3. queue' \in [Listeners -> 0..BufferSize]
      BY <1>3, <2>1 DEF send, unheard
    <2> QED
      BY <1>3, <2>1, <2>2, <2>3 DEF send, unheard
  <1>4. CASE round_ends
    BY <1>4 DEF round_ends
  <1>5. CASE setFinish \/ UNCHANGED broadcast
    BY <1>5 DEF setFinish, broadcast, loop
  <1> QED
    BY <1>1, <1>2, <1>3, <1>4, <1>5, RemoveType, ListenType DEF BroadcastNext, sendData

LEMMA TypeInvInit == BroadcastInit => TypeInv
  <1> SUFFICES ASSUME BroadcastInit PROVE TypeInv
    OBVIOUS
  <1>1. IsInjective(list_client) /\ ToSet(list_client) = {}
    BY DEF BroadcastInit, IsInjective, ToSet
  <1>2. feed \in [Listeners -> {"none", "backlog", "reading", "stalled", "closed"}]
    BY DEF BroadcastInit
  <1>3. queue \in [Listeners -> 0..BufferSize]
    BY CountsAreNumbers DEF BroadcastInit
  <1>4. began \cup sent \cup skipped \subseteq Listeners
    BY DEF BroadcastInit
  <1>5. /\ is_finished \in BOOLEAN /\ at \in {"sleep", "round", "ended"}
        /\ index \in 0..Cardinality(Listeners) /\ removed \in 0..Cardinality(Listeners)
        /\ removed <= index
    <2>1. is_finished \in BOOLEAN /\ at = "sleep"
      BY DEF BroadcastInit
    <2>2. index = 0 /\ removed = 0
      BY DEF BroadcastInit
    <2>3. 0 \in 0..Cardinality(Listeners)
      BY CountsAreNumbers
    <2> QED
      BY <2>1, <2>2, <2>3
  <1> QED
    BY <1>1, <1>2, <1>3, <1>4, <1>5 DEF TypeInv, BroadcastTypeOK

\* The broadcast keeps its types: no client is on the list twice, and the loop ends.
THEOREM BroadcastTypeCorrect == BroadcastSpec => []BroadcastTypeOK
  <1>1. TypeInv => BroadcastTypeOK
    BY DEF TypeInv
  <1> QED
    BY <1>1, TypeInvInit, TypeInvNext, BroadcastInvInit, BroadcastInvNext, PTL
    DEF BroadcastSpec
=============================================================================
