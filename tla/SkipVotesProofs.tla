--------------------------- MODULE SkipVotesProofs ---------------------------
(***************************************************************************)
(* For any number of songs and users, any threshold, and wherever          *)
(* finish_song breaks off: that the current song is skipped is announced   *)
(* when the song is gone, a song that is gone is in the record, and it was *)
(* finished once.                                                          *)
(***************************************************************************)
EXTENDS SkipVotes, SequenceTheorems, TLAPS

-----------------------------------------------------------------------------
(* Sequences without repetition *)

(***************************************************************************)
(* RemoveAt leaves out one element of a sequence and moves up what is      *)
(* behind it.                                                              *)
(***************************************************************************)
LEMMA RemoveAtElements ==
  ASSUME NEW S, NEW s \in Seq(S), NEW k \in 1..Len(s)
  PROVE  /\ RemoveAt(s, k) \in Seq(S)
         /\ Len(RemoveAt(s, k)) = Len(s) - 1
         /\ \A j \in 1..(Len(s) - 1) : RemoveAt(s, k)[j] = IF j < k THEN s[j] ELSE s[j + 1]
<1> DEFINE a == SubSeq(s, 1, k - 1)
           b == SubSeq(s, k + 1, Len(s))
<1>1. /\ a \in Seq(S) /\ Len(a) = k - 1
      /\ \A j \in 1..(k - 1) : a[j] = s[j]
  BY SubSeqProperties, ElementOfSeq, LenProperties
<1>2. /\ b \in Seq(S) /\ Len(b) = Len(s) - k
      /\ \A j \in 1..(Len(s) - k) : b[j] = s[k + j]
  BY SubSeqProperties, ElementOfSeq, LenProperties
<1>3. /\ a \o b \in Seq(S) /\ Len(a \o b) = Len(a) + Len(b)
      /\ \A j \in 1..(Len(a) + Len(b)) : (a \o b)[j] = IF j <= Len(a) THEN a[j] ELSE b[j - Len(a)]
  BY <1>1, <1>2, ConcatProperties
<1> HIDE DEF a, b
<1>4. RemoveAt(s, k) = a \o b
  BY DEF RemoveAt, a, b
<1>5. Len(s) \in Nat
  BY LenProperties
<1>6. Len(a) + Len(b) = Len(s) - 1
  BY <1>1, <1>2, <1>5
<1>7. ASSUME NEW j \in 1..(Len(s) - 1)
      PROVE  (a \o b)[j] = IF j < k THEN s[j] ELSE s[j + 1]
  <2>1. CASE j < k
    BY <1>1, <1>3, <1>5, <1>6, <2>1
  <2>2. CASE ~(j < k)
    <3>1. (a \o b)[j] = b[j - (k - 1)]
      BY <1>1, <1>3, <1>5, <1>6, <2>2
    <3>2. j - (k - 1) \in 1..(Len(s) - k) /\ k + (j - (k - 1)) = j + 1
      BY <1>5, <2>2
    <3> QED
      BY <1>2, <2>2, <3>1, <3>2
  <2> QED
    BY <2>1, <2>2
<1> QED
  BY <1>3, <1>4, <1>6, <1>7

(***************************************************************************)
(* InsertAt puts an element in, and moves back what was from there on.     *)
(***************************************************************************)
LEMMA InsertAtElements ==
  ASSUME NEW S, NEW s \in Seq(S), NEW k \in 1..(Len(s) + 1), NEW e \in S
  PROVE  /\ InsertAt(s, k, e) \in Seq(S)
         /\ Len(InsertAt(s, k, e)) = Len(s) + 1
         /\ \A j \in 1..(Len(s) + 1) :
              InsertAt(s, k, e)[j] = IF j < k THEN s[j] ELSE IF j = k THEN e ELSE s[j - 1]
<1> DEFINE a == SubSeq(s, 1, k - 1)
           b == SubSeq(s, k, Len(s))
           ae == a \o <<e>>
<1>1. /\ a \in Seq(S) /\ Len(a) = k - 1
      /\ \A j \in 1..(k - 1) : a[j] = s[j]
  BY SubSeqProperties, ElementOfSeq, LenProperties
<1>2. /\ b \in Seq(S) /\ Len(b) = Len(s) - k + 1
      /\ \A j \in 1..(Len(s) - k + 1) : b[j] = s[k + j - 1]
  BY SubSeqProperties, ElementOfSeq, LenProperties
<1> HIDE DEF a, b
<1>3. /\ ae \in Seq(S) /\ Len(ae) = k
      /\ \A j \in 1..k : ae[j] = IF j < k THEN s[j] ELSE e
  <2>1. <<e>> \in Seq(S) /\ Len(<<e>>) = 1 /\ <<e>>[1] = e
    OBVIOUS
  <2>2. /\ a \o <<e>> \in Seq(S) /\ Len(a \o <<e>>) = Len(a) + 1
        /\ \A j \in 1..(Len(a) + 1) :
             (a \o <<e>>)[j] = IF j <= Len(a) THEN a[j] ELSE <<e>>[j - Len(a)]
    BY <1>1, <2>1, ConcatProperties
  <2>3. Len(s) \in Nat /\ Len(a) + 1 = k
    BY <1>1, LenProperties
  <2>4. ASSUME NEW j \in 1..k
        PROVE  (a \o <<e>>)[j] = IF j < k THEN s[j] ELSE e
    <3>1. CASE j < k
      BY <1>1, <2>2, <2>3, <3>1
    <3>2. CASE j = k
      <4>1. (a \o <<e>>)[j] = <<e>>[j - Len(a)] /\ j - Len(a) = 1
        BY <1>1, <2>2, <2>3, <3>2
      <4> QED
        BY <2>1, <3>2, <4>1
    <3> QED
      BY <2>3, <3>1, <3>2
  <2> QED
    BY <2>2, <2>3, <2>4
<1> HIDE DEF ae
<1>4. /\ ae \o b \in Seq(S) /\ Len(ae \o b) = Len(ae) + Len(b)
      /\ \A j \in 1..(Len(ae) + Len(b)) :
           (ae \o b)[j] = IF j <= Len(ae) THEN ae[j] ELSE b[j - Len(ae)]
  BY <1>2, <1>3, ConcatProperties
<1>5. InsertAt(s, k, e) = ae \o b
  BY DEF InsertAt, ae, a, b
<1> QED
  BY <1>2, <1>3, <1>4, <1>5, LenProperties

(***************************************************************************)
(* What is left when an item that occurs once is taken out.                *)
(***************************************************************************)
LEMMA RemoveFromInjective ==
  ASSUME NEW S, NEW s \in Seq(S), IsInjective(s), NEW k \in 1..Len(s)
  PROVE  /\ IsInjective(RemoveAt(s, k))
         /\ ToSet(RemoveAt(s, k)) = ToSet(s) \ {s[k]}
<1> DEFINE r == RemoveAt(s, k)
<1>1. /\ r \in Seq(S) /\ Len(r) = Len(s) - 1 /\ Len(s) \in Nat
      /\ DOMAIN r = 1..(Len(s) - 1) /\ DOMAIN s = 1..Len(s)
      /\ \A j \in 1..(Len(s) - 1) : r[j] = IF j < k THEN s[j] ELSE s[j + 1]
  BY RemoveAtElements, LenProperties
<1> HIDE DEF r
<1> DEFINE From(j) == IF j < k THEN j ELSE j + 1
<1>5. \A j \in DOMAIN r : /\ From(j) \in DOMAIN s /\ From(j) # k /\ r[j] = s[From(j)]
                          /\ j = IF From(j) < k THEN From(j) ELSE From(j) - 1
  BY <1>1
<1> HIDE DEF From
<1>2. IsInjective(r)
  <2> SUFFICES ASSUME NEW i \in DOMAIN r, NEW j \in DOMAIN r, r[i] = r[j]
               PROVE  i = j
    BY DEF IsInjective
  <2>1. From(i) = From(j)
    BY <1>5 DEF IsInjective
  <2> QED
    BY <1>5, <2>1
<1>3. \A x \in ToSet(r) : x \in ToSet(s) /\ x # s[k]
  <2> SUFFICES ASSUME NEW j \in DOMAIN r
               PROVE  r[j] \in ToSet(s) /\ r[j] # s[k]
    BY DEF ToSet
  <2>1. k \in DOMAIN s
    BY <1>1
  <2> QED
    BY <1>5, <2>1 DEF ToSet, IsInjective
<1>4. ASSUME NEW x \in ToSet(s), x # s[k]
      PROVE  x \in ToSet(r)
  <2>1. PICK j \in 1..Len(s) : s[j] = x
    BY <1>1 DEF ToSet
  <2>2. CASE j < k
    BY <1>1, <2>1, <2>2 DEF ToSet
  <2>3. CASE j > k
    <3>1. j - 1 \in 1..(Len(s) - 1) /\ r[j - 1] = x
      BY <1>1, <2>1, <2>3
    <3> QED
      BY <1>1, <3>1 DEF ToSet
  <2> QED
    BY <1>4, <2>1, <2>2, <2>3
<1> QED
  BY <1>2, <1>3, <1>4 DEF r

LEMMA InsertIntoInjective ==
  ASSUME NEW S, NEW s \in Seq(S), IsInjective(s), NEW k \in 1..(Len(s) + 1), NEW e \in S,
         e \notin ToSet(s)
  PROVE  /\ IsInjective(InsertAt(s, k, e))
         /\ ToSet(InsertAt(s, k, e)) = ToSet(s) \cup {e}
<1> DEFINE r == InsertAt(s, k, e)
<1>1. /\ r \in Seq(S) /\ Len(r) = Len(s) + 1 /\ Len(s) \in Nat
      /\ DOMAIN r = 1..(Len(s) + 1) /\ DOMAIN s = 1..Len(s)
      /\ \A j \in 1..(Len(s) + 1) : r[j] = IF j < k THEN s[j] ELSE IF j = k THEN e ELSE s[j - 1]
  BY InsertAtElements, LenProperties
<1> HIDE DEF r
<1>2. \A j \in 1..Len(s) : s[j] # e
  BY <1>1 DEF ToSet
<1>3. IsInjective(r)
  <2> SUFFICES ASSUME NEW i \in 1..(Len(s) + 1), NEW j \in 1..(Len(s) + 1), r[i] = r[j], i < j
               PROVE  FALSE
    BY <1>1 DEF IsInjective
  <2>1. CASE j = k \/ i = k
    <3>1. CASE j = k
      <4>1. i \in 1..Len(s) /\ r[i] = s[i] /\ r[j] = e
        BY <1>1, <3>1
      <4> QED
        BY <1>2, <4>1
    <3>2. CASE i = k
      <4>1. j - 1 \in 1..Len(s) /\ r[i] = e /\ r[j] = s[j - 1]
        BY <1>1, <3>2
      <4> QED
        BY <1>2, <4>1
    <3> QED
      BY <2>1, <3>1, <3>2
  <2>2. CASE j < k
    <3>1. i \in 1..Len(s) /\ j \in 1..Len(s) /\ i # j
      BY <1>1, <2>2
    <3>2. r[i] = s[i] /\ r[j] = s[j]
      BY <1>1, <2>2
    <3> QED
      BY <1>1, <3>1, <3>2 DEF IsInjective
  <2>3. CASE i < k /\ k < j
    <3>1. i \in 1..Len(s) /\ j - 1 \in 1..Len(s) /\ i # j - 1
      BY <1>1, <2>3
    <3>2. r[i] = s[i] /\ r[j] = s[j - 1]
      BY <1>1, <2>3
    <3>3. \A x, y \in 1..Len(s) : s[x] = s[y] => x = y
      BY <1>1 DEF IsInjective
    <3> QED
      BY <3>1, <3>2, <3>3
  <2>4. CASE k < i
    <3>1. i - 1 \in 1..Len(s) /\ j - 1 \in 1..Len(s) /\ i - 1 # j - 1
      BY <1>1, <2>4
    <3>2. r[i] = s[i - 1] /\ r[j] = s[j - 1]
      BY <1>1, <2>4
    <3>3. \A x, y \in 1..Len(s) : s[x] = s[y] => x = y
      BY <1>1 DEF IsInjective
    <3> QED
      BY <3>1, <3>2, <3>3
  <2> QED
    BY <2>1, <2>2, <2>3, <2>4
<1>4. \A x \in ToSet(r) : x \in ToSet(s) \cup {e}
  BY <1>1 DEF ToSet
<1>5. e \in ToSet(r)
  BY <1>1 DEF ToSet
<1>6. ASSUME NEW x \in ToSet(s)
      PROVE  x \in ToSet(r)
  <2>1. PICK j \in 1..Len(s) : s[j] = x
    BY <1>1 DEF ToSet
  <2>2. r[j] = x \/ r[j + 1] = x
    BY <1>1, <2>1
  <2> QED
    BY <1>1, <2>2 DEF ToSet
<1> QED
  BY <1>4, <1>5, <1>6, <1>3 DEF r

-----------------------------------------------------------------------------
(* The invariant *)

(***************************************************************************)
(* A finish_song that was completed has removed its song, for good.        *)
(***************************************************************************)
Completed ==
  /\ \A k \in 1..Len(played) : k \notin broken => played[k] \in left
  /\ \A i \in left : ~Queued(i)

Finishing == LeftIsRecorded /\ FinishedOnce /\ Completed
IInv == TypeOK /\ AnnouncedWhenGone /\ Finishing

LEMMA InitIInv == Init => IInv
<1> SUFFICES ASSUME Init
             PROVE  IInv
  OBVIOUS
<1>1. TypeOK
  BY DEF Init, TypeOK, IsInjective
<1>2. AnnouncedWhenGone /\ Finishing
  BY DEF Init, AnnouncedWhenGone, Finishing, LeftIsRecorded, FinishedOnce, Completed
<1> QED
  BY <1>1, <1>2 DEF IInv

(***************************************************************************)
(* The parts of the state that go together.                                *)
(***************************************************************************)
QueueOK == queue \in Seq(added) /\ IsInjective(queue)
VotesOK ==
  /\ votes \subseteq added \X Users
  /\ Dialect = "postgresql" => \A v \in votes : Queued(v[1])
HistoryOK ==
  history \in Seq(ToSet(played)) /\ played \in Seq(added) /\ broken \subseteq 1..Len(played)
OthersOK ==
  /\ cooling \subseteq Users /\ sending \subseteq [item : added, was : {"current", "waiting"}]
  /\ added \subseteq Items /\ left \subseteq added

LEMMA TypeParts ==
  TypeOK <=> QueueOK /\ VotesOK /\ HistoryOK /\ OthersOK
BY DEF TypeOK, QueueOK, VotesOK, HistoryOK, OthersOK

LEMMA HeadQueued ==
  ASSUME QueueOK, queue # <<>>
  PROVE  Queued(Head(queue)) /\ Head(queue) \in added
BY HeadTailProperties, LenProperties, EmptySeq DEF QueueOK, Queued, ToSet

(***************************************************************************)
(* An item leaves with its votes, and nothing else does.                   *)
(***************************************************************************)
LEMMA WithoutItemQueue ==
  ASSUME QueueOK, VotesOK, NEW i, WithoutItem(i), UNCHANGED added
  PROVE  /\ QueueOK' /\ VotesOK'
         /\ ToSet(queue') = ToSet(queue) \ {i}
<1>1. PICK k \in 1..Len(queue) : queue[k] = i /\ queue' = RemoveAt(queue, k)
  BY LenProperties DEF WithoutItem, TakenOut, QueueOK
<1>2. QueueOK'
  BY <1>1, RemoveAtElements, RemoveFromInjective DEF QueueOK
<1>3. ToSet(queue') = ToSet(queue) \ {i}
  BY <1>1, RemoveFromInjective DEF QueueOK
<1>4. VotesOK'
  BY <1>3 DEF WithoutItem, VotesOK, Queued
<1> QED
  BY <1>2, <1>3, <1>4

(***************************************************************************)
(* Pruning keeps a beginning of the history.                               *)
(***************************************************************************)
LEMMA PrunedSeq ==
  ASSUME NEW S, NEW h \in Seq(S)
  PROVE  Pruned(h) \in Seq(S)
<1> DEFINE n == IF Len(h) < Keep THEN Len(h) ELSE Keep
<1>1. n \in Int /\ \A j \in 1..n : h[j] \in S
  BY LenProperties, ElementOfSeq, SkipVotesAssumption DEF SkipVotesAssumption
<1> HIDE DEF n
<1>2. SubSeq(h, 1, n) \in Seq(S)
  BY <1>1, SubSeqProperties
<1> QED
  BY <1>2 DEF Pruned, n

(***************************************************************************)
(* The record only grows; a song that is finished further than "marked" is *)
(* its last entry, which is broken unless the song is removed.             *)
(***************************************************************************)
LEMMA RecordHistory ==
  ASSUME HistoryOK, NEW i \in added, NEW done \in Progress, Record(i, done), UNCHANGED added
  PROVE  /\ HistoryOK'
         /\ ToSet(played) \subseteq ToSet(played')
         /\ done # "marked" => i \in ToSet(played')
         /\ \A k \in 1..Len(played) : played'[k] = played[k] /\ (k \in broken' <=> k \in broken)
         /\ \A k \in 1..Len(played') :
              k \in 1..Len(played) \/ (played'[k] = i /\ (done # "removed" => k \in broken'))
         /\ Len(played) \in Nat /\ Len(played') \in Nat
<1>0. Len(played) \in Nat
  BY LenProperties DEF HistoryOK
<1>1. CASE done = "marked"
  <2>1. UNCHANGED <<history, played, broken>>
    BY <1>1 DEF Record
  <2> QED
    BY <1>0, <1>1, <2>1 DEF HistoryOK
<1>2. CASE done # "marked"
  <2>1. /\ played' \in Seq(added) /\ Len(played') = Len(played) + 1
        /\ played'[Len(played) + 1] = i
        /\ \A j \in 1..Len(played) : played'[j] = played[j]
    <3>1. played \in Seq(added) /\ played' = Append(played, i)
      BY <1>2 DEF Record, HistoryOK
    <3> QED
      BY <3>1, AppendProperties, LenProperties
  <2>2. ToSet(played) \subseteq ToSet(played') /\ i \in ToSet(played')
    <3>1. DOMAIN played = 1..Len(played) /\ DOMAIN played' = 1..(Len(played) + 1)
      BY <2>1, LenProperties DEF HistoryOK
    <3> QED
      BY <1>0, <2>1, <3>1 DEF ToSet
  <2>3. Append(history, i) \in Seq(ToSet(played'))
    BY <2>2, SeqMonotonic DEF HistoryOK
  <2>4. history' \in Seq(ToSet(played'))
    BY <1>2, <2>3, PrunedSeq DEF Record
  <2>5. broken' = IF done = "removed" THEN broken ELSE broken \cup {Len(played) + 1}
    BY <1>2 DEF Record
  <2>6. broken' \subseteq 1..Len(played')
    <3>1. broken \subseteq 1..Len(played)
      BY DEF HistoryOK
    <3>2. broken' \subseteq broken \cup {Len(played) + 1}
      BY <2>5
    <3>3. /\ Len(played) + 1 \in 1..Len(played')
          /\ \A k \in 1..Len(played) : k \in 1..Len(played')
      BY <1>0, <2>1
    <3> QED
      BY <3>1, <3>2, <3>3
  <2>7. \A k \in 1..Len(played) : k \in broken' <=> k \in broken
    BY <1>0, <2>5
  <2>8. \A k \in 1..Len(played') : k \in 1..Len(played) \/ k = Len(played) + 1
    BY <1>0, <2>1
  <2>9. done # "removed" => Len(played) + 1 \in broken'
    BY <2>5
  <2> QED
    BY <1>0, <2>1, <2>2, <2>4, <2>6, <2>7, <2>8, <2>9 DEF HistoryOK
<1> QED
  BY <1>1, <1>2

-----------------------------------------------------------------------------
(* Steps *)

(***************************************************************************)
(* The current song is finished as far as done.  It has not been finished  *)
(* before, because it would be gone: what the record has of it is broken.  *)
(***************************************************************************)
LEMMA FinishingKept ==
  ASSUME IInv, NEW i \in added, NEW done \in Progress, Queued(i), Record(i, done),
         IF done = "removed"
         THEN WithoutItem(i) /\ left' = left \cup {i}
         ELSE UNCHANGED <<queue, left>>,
         UNCHANGED added
  PROVE  Finishing'
<1>0. QueueOK /\ VotesOK /\ HistoryOK
  BY TypeParts DEF IInv
<1>1. /\ ToSet(played) \subseteq ToSet(played')
      /\ done # "marked" => i \in ToSet(played')
      /\ \A k \in 1..Len(played) : played'[k] = played[k] /\ (k \in broken' <=> k \in broken)
      /\ \A k \in 1..Len(played') :
           k \in 1..Len(played) \/ (played'[k] = i /\ (done # "removed" => k \in broken'))
      /\ Len(played) \in Nat /\ Len(played') \in Nat
  BY <1>0, RecordHistory
<1>2. ToSet(queue') = (IF done = "removed" THEN ToSet(queue) \ {i} ELSE ToSet(queue))
      /\ left' = (IF done = "removed" THEN left \cup {i} ELSE left)
  BY <1>0, WithoutItemQueue
<1>3. LeftIsRecorded'
  BY <1>1, <1>2 DEF IInv, Finishing, LeftIsRecorded
<1>4. Completed'
  <2>1. \A x \in left' : x \notin ToSet(queue')
    BY <1>2 DEF IInv, Finishing, Completed, Queued
  <2>2. ASSUME NEW k \in 1..Len(played'), k \notin broken'
        PROVE  played'[k] \in left'
    BY <1>1, <1>2, <2>2 DEF IInv, Finishing, Completed
  <2> QED
    BY <2>1, <2>2 DEF Completed, Queued
<1>5. FinishedOnce'
  <2> SUFFICES ASSUME NEW k \in 1..Len(played'), NEW j \in 1..(k - 1), played'[j] = played'[k]
               PROVE  j \in broken'
    BY DEF FinishedOnce
  <2>1. CASE k \in 1..Len(played)
    <3>1. j \in 1..Len(played)
      BY <1>1, <2>1
    <3> QED
      BY <1>1, <2>1, <3>1 DEF IInv, Finishing, FinishedOnce
  <2>2. CASE k \notin 1..Len(played) /\ j \in 1..Len(played)
    <3>1. played[j] = i
      BY <1>1, <2>2
    <3>2. i \notin left
      BY DEF IInv, Finishing, Completed
    <3> QED
      BY <1>1, <2>2, <3>1, <3>2 DEF IInv, Finishing, Completed
  <2>3. CASE j \notin 1..Len(played)
    <3>1. CASE done = "marked"
      BY <1>1, <2>3, <3>1 DEF Record
    <3>2. CASE done # "marked"
      <4>1. Len(played') = Len(played) + 1
        BY <1>0, <3>2, AppendProperties DEF Record, HistoryOK
      <4> QED
        BY <1>1, <2>3, <4>1
    <3> QED
      BY <3>1, <3>2
  <2> QED
    BY <2>1, <2>2, <2>3
<1> QED
  BY <1>3, <1>4, <1>5 DEF Finishing

LEMMA FinishSongIInv ==
  ASSUME IInv, FinishSong
  PROVE  IInv'
<1>0. QueueOK /\ VotesOK /\ HistoryOK /\ OthersOK
  BY TypeParts DEF IInv
<1> DEFINE i == Head(queue)
<1>1. Queued(i) /\ i \in added
  BY <1>0, HeadQueued DEF FinishSong
<1>2. PICK done \in Progress : Finished(i, done)
  BY DEF FinishSong
<1> HIDE DEF i
<1>3. UNCHANGED <<cooling, sending, added>>
  BY DEF FinishSong
<1>4. HistoryOK'
  BY <1>0, <1>1, <1>2, <1>3, RecordHistory DEF Finished
<1>5. Finishing'
  BY <1>1, <1>2, <1>3, FinishingKept DEF Finished
<1>6. QueueOK' /\ VotesOK' /\ ToSet(queue') \subseteq ToSet(queue)
  <2>1. CASE done = "removed"
    BY <1>0, <1>2, <1>3, <2>1, WithoutItemQueue DEF Finished
  <2>2. CASE done # "removed"
    BY <1>0, <1>2, <1>3, <2>2 DEF Finished, QueueOK, VotesOK, Queued
  <2> QED
    BY <2>1, <2>2
<1>7. OthersOK'
  BY <1>0, <1>1, <1>2, <1>3 DEF OthersOK, Finished
<1>8. TypeOK'
  BY <1>4, <1>6, <1>7 DEF TypeOK, QueueOK, VotesOK, HistoryOK, OthersOK
<1> QED
  BY <1>3, <1>5, <1>6, <1>8 DEF IInv, AnnouncedWhenGone, Queued

LEMMA QueueIInv ==
  ASSUME IInv, NEW i \in Items, AddToQueue(i) \/ RemoveFromQueue(i)
  PROVE  IInv'
<1>0. QueueOK /\ VotesOK /\ HistoryOK
  BY TypeParts DEF IInv
<1>1. CASE AddToQueue(i)
  <2>1. queue \in Seq(added \cup {i}) /\ i \notin ToSet(queue)
    BY <1>0, <1>1, SeqMonotonic, LenProperties DEF AddToQueue, QueueOK, ToSet
  <2>2. PICK k \in 1..(Len(queue) + 1) : queue' = InsertAt(queue, k, i)
    BY <1>1 DEF AddToQueue
  <2>3. /\ queue' \in Seq(added \cup {i}) /\ IsInjective(queue')
        /\ ToSet(queue') = ToSet(queue) \cup {i}
    <3>1. i \in added \cup {i} /\ IsInjective(queue)
      BY <1>0 DEF QueueOK
    <3>2. InsertAt(queue, k, i) \in Seq(added \cup {i})
      BY <2>1, <3>1, InsertAtElements
    <3>3. /\ IsInjective(InsertAt(queue, k, i))
          /\ ToSet(InsertAt(queue, k, i)) = ToSet(queue) \cup {i}
      BY <2>1, <3>1, InsertIntoInjective
    <3> QED
      BY <2>2, <3>2, <3>3
  <2>4. played \in Seq(added \cup {i})
    BY <1>0, SeqMonotonic DEF HistoryOK
  <2>5. TypeOK'
    BY <1>0, <1>1, <2>3, <2>4
       DEF AddToQueue, IInv, TypeOK, VotesOK, HistoryOK, Queued
  <2>6. AnnouncedWhenGone'
    BY <1>1, <2>3 DEF AddToQueue, IInv, TypeOK, AnnouncedWhenGone, Queued
  <2>7. Finishing'
    BY <1>1, <2>3
       DEF AddToQueue, IInv, TypeOK, Finishing, LeftIsRecorded, FinishedOnce, Completed, Queued
  <2> QED
    BY <2>5, <2>6, <2>7 DEF IInv
<1>2. CASE RemoveFromQueue(i)
  <2>1. QueueOK' /\ VotesOK' /\ ToSet(queue') = ToSet(queue) \ {i}
    BY <1>0, <1>2, WithoutItemQueue DEF RemoveFromQueue
  <2>2. TypeOK'
    BY <1>0, <1>2, <2>1 DEF RemoveFromQueue, IInv, TypeOK, QueueOK, VotesOK, HistoryOK
  <2> QED
    BY <1>2, <2>1, <2>2
       DEF RemoveFromQueue, IInv, AnnouncedWhenGone, Finishing, LeftIsRecorded, FinishedOnce,
           Completed, Queued
<1> QED
  BY <1>1, <1>2

(***************************************************************************)
(* A vote finishes the song that it is for, and that song is announced     *)
(* only when it has left.                                                  *)
(***************************************************************************)
LEMMA SkipVotedIInv ==
  ASSUME IInv, NEW i \in Items, NEW u \in Users, SkipVoted(i, u), cooling' \subseteq Users,
         UNCHANGED added
  PROVE  IInv'
<1>0. QueueOK /\ VotesOK /\ HistoryOK /\ OthersOK
  BY TypeParts DEF IInv
<1>1. i \in added /\ Queued(i)
  BY <1>0, HeadQueued DEF SkipVoted
<1>2. PICK done \in Progress :
        /\ Record(i, done)
        /\ IF done = "removed"
           THEN WithoutItem(i) /\ left' = left \cup {i} /\ Announce(i, "current")
           ELSE votes' = Voted(i, u) /\ UNCHANGED <<queue, left, sending>>
  BY DEF SkipVoted
<1>3. HistoryOK'
  BY <1>0, <1>1, <1>2, RecordHistory
<1>4. Finishing'
  BY <1>1, <1>2, FinishingKept
<1>5. CASE done = "removed"
  <2>1. QueueOK' /\ VotesOK' /\ ToSet(queue') = ToSet(queue) \ {i}
    BY <1>0, <1>2, <1>5, WithoutItemQueue
  <2>2. OthersOK'
    BY <1>0, <1>1, <1>2, <1>5 DEF OthersOK, Announce
  <2>3. TypeOK'
    BY <1>3, <2>1, <2>2 DEF TypeOK, QueueOK, VotesOK, HistoryOK, OthersOK
  <2>4. AnnouncedWhenGone'
    BY <1>2, <1>5, <2>1 DEF IInv, AnnouncedWhenGone, Announce, Queued
  <2> QED
    BY <1>4, <2>3, <2>4 DEF IInv
<1>6. CASE done # "removed"
  <2>1. VotesOK'
    BY <1>0, <1>1, <1>2, <1>6 DEF VotesOK, Voted, Queued
  <2>2. QueueOK' /\ OthersOK'
    BY <1>0, <1>2, <1>6 DEF QueueOK, OthersOK
  <2>3. TypeOK'
    BY <1>3, <2>1, <2>2 DEF TypeOK, QueueOK, VotesOK, HistoryOK, OthersOK
  <2> QED
    BY <1>2, <1>4, <1>6, <2>3 DEF IInv, AnnouncedWhenGone, Queued
<1> QED
  BY <1>5, <1>6

(***************************************************************************)
(* The steps that change votes, cooldowns and messages only; what they     *)
(* announce was not the current song.                                      *)
(***************************************************************************)
LEMMA VotesIInv ==
  ASSUME IInv, VotesOK', cooling' \subseteq Users,
         \A m \in sending' : m \in sending \/ m \in [item : added, was : {"waiting"}],
         UNCHANGED <<queue, history, added, left, played, broken>>
  PROVE  IInv'
<1>1. TypeOK'
  BY DEF IInv, TypeOK, VotesOK, Queued
<1>2. AnnouncedWhenGone'
  BY DEF IInv, AnnouncedWhenGone, Queued
<1>3. Finishing'
  BY DEF IInv, Finishing, LeftIsRecorded, FinishedOnce, Completed, Queued
<1> QED
  BY <1>1, <1>2, <1>3 DEF IInv

LEMMA VotingIInv ==
  ASSUME IInv, NEW u \in Users, Voting(u)
  PROVE  IInv'
<1>0. VotesOK /\ QueueOK /\ cooling \subseteq Users
  BY TypeParts DEF IInv, OthersOK
<1>1. ASSUME NEW i \in Items, CastVote(i, u), SkipVoted(i, u)
      PROVE  IInv'
  BY <1>0, <1>1, SkipVotedIInv DEF CastVote, Cool
<1>2. ASSUME NEW i \in Items, CastVote(i, u), CountVote(i, u) \/ VoteForWaiting(i, u)
      PROVE  IInv'
  <2>1. i \in added
    BY <1>0, <1>2, LenProperties DEF CountVote, VoteForWaiting, Queued, QueueOK, ToSet
  <2>2. VotesOK'
    BY <1>0, <1>2, <2>1 DEF CountVote, VoteForWaiting, CastVote, VotesOK, Voted, Queued
  <2>3. \A m \in sending' : m \in sending \/ m \in [item : added, was : {"waiting"}]
    BY <1>2, <2>1 DEF CountVote, VoteForWaiting, Announce
  <2> QED
    BY <1>0, <1>2, <2>2, <2>3, VotesIInv DEF CastVote, CountVote, VoteForWaiting, Cool
<1>3. ASSUME NEW i \in Items, CastVote(i, u), VoteForGone(i, u)
      PROVE  IInv'
  <2>1. VotesOK'
    BY <1>0, <1>3 DEF VoteForGone, CastVote, VotesOK, Voted, Queued
  <2> QED
    BY <1>0, <1>3, <2>1, VotesIInv DEF CastVote, VoteForGone, Cool
<1>4. ASSUME NEW i \in Items, RemoveVote(i, u)
      PROVE  IInv'
  <2>1. VotesOK'
    BY <1>0, <1>4 DEF RemoveVote, VotesOK, Queued
  <2> QED
    BY <1>0, <1>4, <2>1, VotesIInv DEF RemoveVote, Cool
<1>5. CASE VoteRefused(u) \/ CooldownOver(u)
  <2>1. VotesOK'
    BY <1>0, <1>5 DEF VoteRefused, CooldownOver, VotesOK, Queued
  <2> QED
    BY <1>0, <1>5, <2>1, VotesIInv DEF VoteRefused, CooldownOver, Cool
<1> QED
  BY <1>1, <1>2, <1>3, <1>4, <1>5 DEF Voting, CastVote

LEMMA StepIInv == IInv /\ [Next]_vars => IInv'
<1> SUFFICES ASSUME IInv, [Next]_vars
             PROVE  IInv'
  OBVIOUS
<1>0. QueueOK /\ VotesOK /\ cooling \subseteq Users
  BY TypeParts DEF IInv, OthersOK
<1>1. CASE \E i \in Items : AddToQueue(i) \/ RemoveFromQueue(i)
  BY <1>1, QueueIInv
<1>2. CASE FinishSong
  BY <1>2, FinishSongIInv
<1>3. CASE \E u \in Users : Voting(u)
  BY <1>3, VotingIInv
<1>4. CASE Restart \/ UNCHANGED vars \/ \E m \in sending : SendSkipVote(m)
  <2>1. VotesOK'
    BY <1>0, <1>4 DEF Restart, vars, SendSkipVote, VotesOK, Queued
  <2> QED
    BY <1>0, <1>4, <2>1, VotesIInv DEF Restart, vars, SendSkipVote
<1> QED
  BY <1>1, <1>2, <1>3, <1>4 DEF Next

-----------------------------------------------------------------------------

(***************************************************************************)
(* The queue repeats no item, and on PostgreSQL no vote outlives its item. *)
(***************************************************************************)
THEOREM TypeCorrect == Spec => []TypeOK
<1>1. IInv => TypeOK
  BY DEF IInv
<1> QED
  BY <1>1, InitIInv, StepIInv, PTL DEF Spec

(***************************************************************************)
(* When the skip of the current song is announced, the song is gone from   *)
(* the queue for good.                                                     *)
(***************************************************************************)
THEOREM AnnouncementsAreTrue == Spec => []AnnouncedWhenGone
<1>1. IInv => AnnouncedWhenGone
  BY DEF IInv
<1> QED
  BY <1>1, InitIInv, StepIInv, PTL DEF Spec

(***************************************************************************)
(* No song is finished a second time after it has left, by whomever.       *)
(***************************************************************************)
THEOREM NoDoubleFinish == Spec => []FinishedOnce
<1>1. IInv => FinishedOnce
  BY DEF IInv, Finishing
<1> QED
  BY <1>1, InitIInv, StepIInv, PTL DEF Spec

(***************************************************************************)
(* No song is lost between the queue and the record.                       *)
(***************************************************************************)
THEOREM NoSongIsLost == Spec => []LeftIsRecorded
<1>1. IInv => LeftIsRecorded
  BY DEF IInv, Finishing
<1> QED
  BY <1>1, InitIInv, StepIInv, PTL DEF Spec
=============================================================================
