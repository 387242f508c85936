---------------------------- MODULE OutboxProofs ----------------------------
(* Proofs about Outbox, for every number of publishers and events, every    *)
(* budget and every set of faults.                                          *)
EXTENDS Outbox, SequenceTheorems, TLAPS

USE DEF InHand

-----------------------------------------------------------------------------
(* Type correctness.                                                        *)

(* Removing an element of a sequence leaves a sequence over the same set.   *)
LEMMA RemoveAtType ==
  ASSUME NEW S, NEW s \in Seq(S), NEW i \in 1..Len(s)
  PROVE  RemoveAt(s, i) \in Seq(S)
  BY DEF RemoveAt

(* Inserting an element shifts those from its place on by one.              *)
LEMMA InsertAtElements ==
  ASSUME NEW S, NEW s \in Seq(S), NEW k \in 1..(Len(s) + 1), NEW e \in S
  PROVE  /\ InsertAt(s, k, e) \in Seq(S)
         /\ Len(InsertAt(s, k, e)) = Len(s) + 1
         /\ \A i \in 1..(Len(s) + 1) :
              InsertAt(s, k, e)[i] = IF i < k THEN s[i] ELSE IF i = k THEN e ELSE s[i - 1]
<1>. DEFINE left  == SubSeq(s, 1, k - 1)
            right == SubSeq(s, k, Len(s))
<1>1. /\ Len(s) \in Nat /\ k \in Nat /\ 1 <= k /\ k <= Len(s) + 1
      /\ \A i \in 1..Len(s) : s[i] \in S
  OBVIOUS
<1>2. /\ left \in Seq(S) /\ Len(left) = k - 1
      /\ \A i \in 1..(k - 1) : left[i] = s[i]
  <2>1. \A i \in 1..(k - 1) : s[i] \in S
    BY <1>1
  <2>2. /\ left \in Seq(S)
        /\ Len(left) = IF 1 <= k - 1 THEN (k - 1) - 1 + 1 ELSE 0
        /\ \A i \in 1..((k - 1) - 1 + 1) : left[i] = s[1 + i - 1]
    BY <1>1, <2>1, SubSeqProperties
  <2>. HIDE DEF left
  <2>. QED
    BY <1>1, <2>2
<1>3. /\ right \in Seq(S) /\ Len(right) = Len(s) - k + 1
      /\ \A i \in 1..(Len(s) - k + 1) : right[i] = s[k + i - 1]
  <2>1. \A i \in k..Len(s) : s[i] \in S
    BY <1>1
  <2>2. /\ right \in Seq(S)
        /\ Len(right) = IF k <= Len(s) THEN Len(s) - k + 1 ELSE 0
        /\ \A i \in 1..(Len(s) - k + 1) : right[i] = s[k + i - 1]
    BY <1>1, <2>1, SubSeqProperties
  <2>. HIDE DEF right
  <2>. QED
    BY <1>1, <2>2
<1>4. InsertAt(s, k, e) = left \o <<e>> \o right
  BY DEF InsertAt
<1>. HIDE DEF left, right
<1>5. PICK front : front = left \o <<e>>
  OBVIOUS
<1>6. /\ front \in Seq(S) /\ Len(front) = k
      /\ \A i \in 1..k : front[i] = IF i <= k - 1 THEN left[i] ELSE e
  <2>1. <<e>> \in Seq(S) /\ Len(<<e>>) = 1 /\ <<e>>[1] = e
    OBVIOUS
  <2>2. PICK one : one = <<e>>
    OBVIOUS
  <2>3. one \in Seq(S) /\ Len(one) = 1 /\ one[1] = e /\ front = left \o one
    BY <1>5, <2>1, <2>2
  <2>a. /\ left \o one \in Seq(S) /\ Len(left \o one) = Len(left) + Len(one)
        /\ \A i \in 1..(Len(left) + Len(one)) :
             (left \o one)[i] = IF i <= Len(left) THEN left[i] ELSE one[i - Len(left)]
    BY <1>2, <2>3, ConcatProperties
  <2>4. /\ front \in Seq(S) /\ Len(front) = (k - 1) + 1
        /\ \A i \in 1..((k - 1) + 1) :
             front[i] = IF i <= k - 1 THEN left[i] ELSE one[i - (k - 1)]
    BY <1>2, <2>3, <2>a
  <2>5. (k - 1) + 1 = k /\ \A i \in 1..k : i <= k - 1 \/ i - (k - 1) = 1
    BY <1>1
  <2>. QED
    BY <2>3, <2>4, <2>5
<1>7. /\ front \o right \in Seq(S) /\ Len(front \o right) = k + (Len(s) - k + 1)
      /\ \A i \in 1..(k + (Len(s) - k + 1)) :
           (front \o right)[i] = IF i <= k THEN front[i] ELSE right[i - k]
  BY <1>3, <1>6, ConcatProperties
<1>8. k + (Len(s) - k + 1) = Len(s) + 1
  BY <1>1
<1>9. ASSUME NEW i \in 1..(Len(s) + 1)
      PROVE  (front \o right)[i] = IF i < k THEN s[i] ELSE IF i = k THEN e ELSE s[i - 1]
  <2>1. (front \o right)[i] = IF i <= k THEN front[i] ELSE right[i - k]
    BY <1>7, <1>8
  <2>2. CASE i < k
    <3>1. i \in 1..k /\ i \in 1..(k - 1) /\ i <= k /\ i <= k - 1
      BY <1>1, <2>2
    <3>. QED
      BY <1>2, <1>6, <2>1, <2>2, <3>1
  <2>3. CASE i = k
    <3>1. i \in 1..k /\ i <= k /\ ~(i <= k - 1) /\ ~(i < k)
      BY <1>1, <2>3
    <3>. QED
      BY <1>6, <2>1, <2>3, <3>1
  <2>4. CASE i > k
    <3>1. /\ i - k \in 1..(Len(s) - k + 1) /\ k + (i - k) - 1 = i - 1
          /\ ~(i <= k) /\ ~(i < k) /\ i # k
      BY <1>1, <2>4
    <3>. QED
      BY <1>3, <2>1, <3>1
  <2>5. i < k \/ i = k \/ i > k
    BY <1>1
  <2>. QED
    BY <2>2, <2>3, <2>4, <2>5
<1>. QED
  BY <1>4, <1>5, <1>7, <1>8, <1>9

(* A row that joins the due rows leaves them in their order around it.      *)
LEMMA JoinsDueElements ==
  ASSUME TypeOK, NEW e \in Event, NEW overtaken, JoinsDue(e, overtaken)
  PROVE  /\ due' \in Seq(Event) /\ Len(due) \in Nat /\ Len(due') = Len(due) + 1
         /\ \E k \in 1..(Len(due) + 1) :
              /\ "stamps" \in Faults \/ \A j \in k..Len(due) : due[j] \in overtaken
              /\ \A i \in 1..(Len(due) + 1) :
                   due'[i] = IF i < k THEN due[i] ELSE IF i = k THEN e ELSE due[i - 1]
<1>1. due \in Seq(Event) /\ Len(due) \in Nat
  BY DEF TypeOK
<1>2. PICK k \in 1..(Len(due) + 1) :
        /\ "stamps" \in Faults \/ \A j \in k..Len(due) : due[j] \in overtaken
        /\ due' = InsertAt(due, k, e)
  BY DEF JoinsDue
<1>3. /\ InsertAt(due, k, e) \in Seq(Event) /\ Len(InsertAt(due, k, e)) = Len(due) + 1
      /\ \A i \in 1..(Len(due) + 1) :
           InsertAt(due, k, e)[i] = IF i < k THEN due[i] ELSE IF i = k THEN e ELSE due[i - 1]
  BY <1>1, InsertAtElements
<1>. QED
  BY <1>1, <1>2, <1>3

(* Beginning an attempt never lowers a count of attempts.                   *)
LEMMA TryType ==
  ASSUME TypeOK, NEW e \in Event, Try(e)
  PROVE  tries' \in [Event -> 0..MaxAttempts] /\ \A f \in Event : tries'[f] >= tries[f]
  BY BudgetAssumption DEF Try, Smaller, TypeOK

(* Taking a row out of the due rows leaves rows.                            *)
LEMMA NoLongerDueType ==
  ASSUME TypeOK, NEW e, NoLongerDue(e)
  PROVE  due' \in Seq(Event)
  BY RemoveAtType DEF NoLongerDue, TypeOK

(* A sequence that is neither empty nor single has a second element.        *)
LEMMA TailOfLonger ==
  ASSUME NEW S, NEW s \in Seq(S), s # <<>>, Len(s) # 1
  PROVE  /\ Tail(s) \in Seq(S) /\ Tail(s) # <<>>
         /\ s[2] \in S /\ 2 \in 1..Len(s)
<1>1. Len(s) \in Nat /\ Len(s) # 0
  OBVIOUS
<1>2. \A n \in Nat : n # 0 /\ n # 1 => 2 \in 1..n /\ n - 1 # 0
  OBVIOUS
<1>3. 2 \in 1..Len(s) /\ Len(s) - 1 # 0
  BY <1>1, <1>2
<1>4. Len(Tail(s)) = Len(s) - 1 /\ Tail(s) \in Seq(S) /\ Len(<<>>) = 0
  BY HeadTailProperties
<1>5. s[2] \in S
  BY <1>3
<1>6. Tail(s) # <<>>
  BY <1>3, <1>4, Zenon
<1>. QED
  BY <1>3, <1>4, <1>5, <1>6

(* A publisher with a batch has a row in hand, and knows the next one.      *)
LEMMA RowType ==
  ASSUME TypeOK, NEW p \in Publishers, batch[p] # <<>>
  PROVE  /\ Row(p) \in Claimed /\ Row(p).id \in Event /\ Row(p).attempts \in Nat
         /\ Row(p) = batch[p][1] /\ 1 \in 1..Len(batch[p])
         /\ Len(batch[p]) # 1 =>
              /\ Tail(batch[p]) \in Seq(Claimed) /\ Tail(batch[p]) # <<>>
              /\ 2 \in 1..Len(batch[p]) /\ batch[p][2].id \in Event
<1>1. batch[p] \in Seq(Claimed)
  BY DEF TypeOK
<1>2. /\ Head(batch[p]) \in Claimed
      /\ Head(batch[p]) = batch[p][1]
      /\ 1 \in 1..Len(batch[p])
  BY <1>1
<1>3. ASSUME Len(batch[p]) # 1
      PROVE  /\ Tail(batch[p]) \in Seq(Claimed) /\ Tail(batch[p]) # <<>>
             /\ 2 \in 1..Len(batch[p]) /\ batch[p][2] \in Claimed
  BY <1>1, <1>3, TailOfLonger
<1>. QED
  BY <1>2, <1>3 DEF Row, Claimed

(* The initial state is well typed.                                         *)
LEMMA InitType == Init => TypeOK
  BY EventAssumption, BudgetAssumption, FaultAssumption DEF Init, TypeOK

(* Going on to the next row, or ending the drain, keeps the types.          *)
LEMMA NextRowType ==
  ASSUME TypeOK, NEW p \in Publishers, batch[p] # <<>>, NEW published \in BOOLEAN,
         NextRow(p, published)
  PROVE  /\ pc' \in [Publishers -> {"idle", "down"} \cup InHand]
         /\ batch' \in [Publishers -> Seq(Claimed)]
         /\ \A q \in Publishers : pc'[q] \in InHand => batch'[q] # <<>>
         /\ progressed' \in [Publishers -> BOOLEAN]
         /\ stopping' \in [Publishers -> BOOLEAN]
         /\ tries' \in [Event -> 0..MaxAttempts]
<1>1. CASE EndDrain(p)
  BY <1>1 DEF EndDrain, NextRow, TypeOK
<1>2. CASE /\ Len(batch[p]) # 1
           /\ batch' = [batch EXCEPT ![p] = Tail(@)]
           /\ pc'    = [pc EXCEPT ![p] = "publish"]
           /\ Try(batch[p][2].id)
           /\ UNCHANGED stopping
  BY <1>2, RowType, TryType DEF NextRow, TypeOK
<1>. QED
  BY <1>1, <1>2 DEF NextRow

(* A claim is a non-empty batch of rows with their counts.                  *)
LEMMA ClaimType ==
  ASSUME TypeOK, NEW p \in Publishers, ClaimDue(p)
  PROVE  TypeOK'
<1>1. /\ Len(due) \in Nat \ {0}
      /\ \A i \in 1..Len(due) : due[i] \in Event
      /\ Head(due) = due[1]
  BY DEF ClaimDue, TypeOK
<1>2. Smaller(BatchSize, Len(due)) \in 1..Len(due)
  BY <1>1, BudgetAssumption DEF Smaller
<1>. DEFINE claim == [i \in 1..Smaller(BatchSize, Len(due)) |->
                        [id |-> due[i], attempts |-> attempts[due[i]]]]
<1>3. ASSUME NEW i \in 1..Smaller(BatchSize, Len(due))
      PROVE  [id |-> due[i], attempts |-> attempts[due[i]]] \in Claimed
  BY <1>1, <1>2 DEF Claimed, TypeOK
<1>4. claim \in Seq(Claimed) /\ claim # <<>>
  <2>1. claim \in [1..Smaller(BatchSize, Len(due)) -> Claimed]
    BY <1>3
  <2>2. Smaller(BatchSize, Len(due)) \in Nat \ {0}
    BY <1>1, <1>2
  <2>. HIDE DEF claim
  <2>3. claim \in Seq(Claimed) /\ Len(claim) = Smaller(BatchSize, Len(due))
    BY <2>1, <2>2
  <2>. QED
    BY <2>2, <2>3
<1>5. batch' = [batch EXCEPT ![p] = claim]
  BY DEF ClaimDue
<1>6. Try(due[1]) /\ due[1] \in Event
  BY <1>1 DEF ClaimDue
<1>. HIDE DEF claim
<1>. QED
  BY <1>4, <1>5, <1>6, TryType DEF ClaimDue, TypeOK, tableVars, streamVars

(* The stream and its window hold events.                                   *)
LEMMA StoreType ==
  ASSUME TypeOK, NEW e \in Event, Store(e)
  PROVE  stream' \in Seq(Event) /\ window' \subseteq Event
  BY DEF Store, TypeOK

(* Every step preserves type correctness.                                   *)
LEMMA NextType == TypeOK /\ [Next]_vars => TypeOK'
<1>. SUFFICES ASSUME TypeOK, [Next]_vars PROVE TypeOK'
  OBVIOUS
<1>. USE DEF tableVars, publisherVars, streamVars
<1>1. ASSUME NEW e \in Event, Enqueue(e) PROVE TypeOK'
  BY <1>1, JoinsDueElements DEF Enqueue, TypeOK
<1>2. ASSUME NEW e \in Event, BackoffElapses(e) PROVE TypeOK'
  BY <1>2, JoinsDueElements DEF BackoffElapses, TypeOK
<1>3. ASSUME NEW e \in Event, LateArrival(e) PROVE TypeOK'
  BY <1>3, StoreType DEF LateArrival, TypeOK
<1>4. ASSUME NEW e \in Event, Forgets(e) PROVE TypeOK'
  BY <1>4, FaultAssumption DEF Forgets, Mishap, TypeOK
<1>5. ASSUME NEW p \in Publishers, ClaimDue(p) PROVE TypeOK'
  BY <1>5, ClaimType
<1>6. ASSUME NEW p \in Publishers, Publish(p) PROVE TypeOK'
  <2>1. Row(p).id \in Event
    BY <1>6, RowType DEF Publish, TypeOK
  <2>. QED
    BY <1>6, <2>1, StoreType DEF Publish, To, TypeOK
<1>7. ASSUME NEW p \in Publishers, MarkPublished(p) PROVE TypeOK'
  <2>1. batch[p] # <<>> /\ Row(p).id \in Event
    BY <1>7, RowType DEF MarkPublished, TypeOK
  <2>2. CASE SetPublished(Row(p).id) /\ NextRow(p, TRUE) /\ UNCHANGED mishaps
    BY <1>7, <2>1, <2>2, NextRowType, NoLongerDueType DEF MarkPublished, SetPublished, TypeOK
  <2>3. CASE /\ Mishap("db") /\ To(p, "unsure")
             /\ SetPublished(Row(p).id) \/ UNCHANGED tableVars
    <3>1. /\ attempts' = attempts /\ due' \in Seq(Event) /\ waiting' \subseteq Event
          /\ rowStatus' \in [Event -> {"absent", "pending", "published", "failed"}]
      BY <2>1, <2>3, NoLongerDueType DEF SetPublished, TypeOK
    <3>2. mishaps' \in 0..MaxMishaps
      BY <2>3, FaultAssumption DEF Mishap, TypeOK
    <3>. QED
      BY <1>7, <2>1, <2>3, <3>1, <3>2 DEF MarkPublished, To, TypeOK
  <2>. QED
    BY <1>7, <2>2, <2>3 DEF MarkPublished
<1>8. ASSUME NEW p \in Publishers, RecordFailure(p) PROVE TypeOK'
  <2>1. batch[p] # <<>> /\ Row(p).id \in Event /\ Row(p).attempts \in Nat
    BY <1>8, RowType DEF RecordFailure, TypeOK
  <2>a. /\ attempts' \in [Event -> Nat]
        /\ rowStatus' \in [Event -> {"absent", "pending", "published", "failed"}]
        /\ waiting' \subseteq Event
        /\ due' \in Seq(Event)
    <3>1. CASE SetFailure(Row(p).id, Row(p).attempts + 1)
      BY <2>1, <3>1, NoLongerDueType DEF SetFailure, TypeOK
    <3>2. CASE UNCHANGED tableVars
      BY <3>2 DEF TypeOK
    <3>. QED
      BY <1>8, <3>1, <3>2 DEF RecordFailure
  <2>2. CASE NextRow(p, FALSE) /\ UNCHANGED mishaps
    BY <1>8, <2>1, <2>2, <2>a, NextRowType DEF RecordFailure, TypeOK
  <2>3. CASE Mishap("db") /\ EndDrain(p) /\ UNCHANGED progressed
    <3>1. mishaps' \in 0..MaxMishaps
      BY <2>3, FaultAssumption DEF Mishap, TypeOK
    <3>2. /\ pc' \in [Publishers -> {"idle", "down"} \cup InHand]
          /\ batch' \in [Publishers -> Seq(Claimed)]
          /\ \A q \in Publishers : pc'[q] \in InHand => batch'[q] # <<>>
      BY <2>3 DEF EndDrain, TypeOK
    <3>. QED
      BY <1>8, <2>3, <2>a, <3>1, <3>2 DEF RecordFailure, EndDrain, TypeOK
  <2>. QED
    BY <1>8, <2>2, <2>3 DEF RecordFailure
<1>9. ASSUME NEW p \in Publishers, Start(p) \/ Stop(p) \/ Crash(p) PROVE TypeOK'
  <2>1. CASE Start(p)
    BY <2>1 DEF Start, TypeOK
  <2>2. CASE Stop(p)
    BY <2>2, FaultAssumption DEF Stop, Mishap, TypeOK
  <2>3. CASE Crash(p)
    BY <2>3, FaultAssumption DEF Crash, Mishap, TypeOK
  <2>. QED
    BY <1>9, <2>1, <2>2, <2>3
<1>10. CASE UNCHANGED vars
  BY <1>10 DEF vars, TypeOK
<1>. QED
  BY <1>1, <1>2, <1>3, <1>4, <1>5, <1>6, <1>7, <1>8, <1>9, <1>10 DEF Next, Progress

(* Rows, batches and the stream stay well formed, and a publisher inside    *)
(* publishOne always has a row to work on.                                  *)
THEOREM TypeCorrect == Spec => []TypeOK
<1>. QED
  BY InitType, NextType, PTL DEF Spec

-----------------------------------------------------------------------------
(* Published means stored.                                                  *)

StoreInv ==
  /\ PublishedMeansStored
  /\ \A e \in window : Stored(e)
  /\ \A p \in Publishers : pc[p] = "mark" => Stored(Row(p).id)

(* No row is published at first.                                            *)
LEMMA InitStore == Init => StoreInv
  BY DEF Init, StoreInv, PublishedMeansStored

(* A publish the broker acknowledged is on the stream, new or duplicate.    *)
LEMMA StoreStores ==
  ASSUME TypeOK, StoreInv, NEW e \in Event, Store(e)
  PROVE  /\ Stored(e)'
         /\ \A f : Stored(f) => Stored(f)'
         /\ \A f \in window' : Stored(f)'
<1>1. CASE e \in window
  BY <1>1 DEF Store, Stored, StoreInv
<1>2. CASE e \notin window
  <2>1. /\ Len(stream') = Len(stream) + 1 /\ Len(stream) \in Nat
        /\ stream'[Len(stream) + 1] = e
        /\ \A i \in 1..Len(stream) : stream'[i] = stream[i]
        /\ DOMAIN stream = 1..Len(stream) /\ DOMAIN stream' = 1..(Len(stream) + 1)
    BY <1>2 DEF Store, TypeOK
  <2>2. Stored(e)'
    BY <2>1 DEF Stored
  <2>3. ASSUME NEW f, Stored(f) PROVE Stored(f)'
    BY <2>1, <2>3 DEF Stored
  <2>. QED
    BY <1>2, <2>2, <2>3 DEF Store, StoreInv
<1>. QED
  BY <1>1, <1>2

(* What is on the stream stays there.                                       *)
LEMMA KeepsStored == UNCHANGED stream => \A f : Stored(f) => Stored(f)'
  BY DEF Stored

(* A publisher never enters "mark" except by storing its row.               *)
LEMMA NextRowStore ==
  ASSUME TypeOK, NEW p \in Publishers, NEW published \in BOOLEAN, NextRow(p, published)
  PROVE  /\ pc'[p] # "mark"
         /\ \A q \in Publishers \ {p} : pc'[q] = pc[q] /\ batch'[q] = batch[q]
  BY DEF NextRow, EndDrain, TypeOK

(* Every step preserves the invariant behind PublishedMeansStored.          *)
LEMMA NextStore == TypeOK /\ StoreInv /\ [Next]_vars => StoreInv'
<1>. SUFFICES ASSUME TypeOK, StoreInv, [Next]_vars PROVE StoreInv'
  OBVIOUS
<1>. USE DEF StoreInv, PublishedMeansStored, Row, TypeOK,
             tableVars, publisherVars, streamVars
<1>1. ASSUME NEW e \in Event, Enqueue(e) \/ BackoffElapses(e) \/ Forgets(e)
      PROVE  StoreInv'
  BY <1>1, KeepsStored DEF Enqueue, BackoffElapses, Forgets
<1>2. ASSUME NEW e \in Event, LateArrival(e) PROVE StoreInv'
  BY <1>2, StoreStores DEF LateArrival
<1>3. ASSUME NEW p \in Publishers, ClaimDue(p) PROVE StoreInv'
  BY <1>3, KeepsStored DEF ClaimDue
<1>4. ASSUME NEW p \in Publishers, Publish(p) PROVE StoreInv'
  <2>1. Row(p).id \in Event
    BY <1>4, RowType DEF Publish
  <2>2. CASE Store(Row(p).id)
    BY <1>4, <2>1, <2>2, StoreStores DEF Publish, To
  <2>3. CASE UNCHANGED <<stream, window>> /\ To(p, "record")
    BY <1>4, <2>3, KeepsStored DEF Publish, To
  <2>. QED
    BY <1>4, <2>2, <2>3 DEF Publish
<1>5. ASSUME NEW p \in Publishers, MarkPublished(p) PROVE StoreInv'
  <2>1. Row(p).id \in Event /\ Stored(Row(p).id)
    BY <1>5, RowType DEF MarkPublished
  <2>2. CASE SetPublished(Row(p).id) /\ NextRow(p, TRUE)
    BY <1>5, <2>1, <2>2, NextRowStore, KeepsStored DEF MarkPublished, SetPublished
  <2>3. CASE To(p, "unsure") /\ (SetPublished(Row(p).id) \/ UNCHANGED tableVars)
    BY <1>5, <2>1, <2>3, KeepsStored DEF MarkPublished, To, SetPublished
  <2>. QED
    BY <1>5, <2>2, <2>3 DEF MarkPublished
<1>6. ASSUME NEW p \in Publishers, RecordFailure(p) PROVE StoreInv'
  <2>1. Row(p).id \in Event
    BY <1>6, RowType DEF RecordFailure
  <2>2. CASE SetFailure(Row(p).id, Row(p).attempts + 1) /\ NextRow(p, FALSE)
    BY <1>6, <2>1, <2>2, NextRowStore, KeepsStored DEF RecordFailure, SetFailure
  <2>3. CASE /\ EndDrain(p)
             /\ SetFailure(Row(p).id, Row(p).attempts + 1) \/ UNCHANGED tableVars
    BY <1>6, <2>1, <2>3, KeepsStored DEF RecordFailure, EndDrain, SetFailure
  <2>. QED
    BY <1>6, <2>2, <2>3 DEF RecordFailure
<1>7. ASSUME NEW p \in Publishers, Start(p) \/ Stop(p) \/ Crash(p) PROVE StoreInv'
  BY <1>7, KeepsStored DEF Start, Stop, Crash
<1>8. CASE UNCHANGED vars
  BY <1>8, KeepsStored DEF vars
<1>. QED
  BY <1>1, <1>2, <1>3, <1>4, <1>5, <1>6, <1>7, <1>8 DEF Next, Progress

(* Whatever is lost, refused, delayed, forgotten or crashes, and however    *)
(* many publishers drain the table: a row marked published has its event    *)
(* on the stream.                                                           *)
THEOREM NoFalsePublished == Spec => []PublishedMeansStored
<1>1. StoreInv => PublishedMeansStored
  BY DEF StoreInv
<1>. QED
  BY <1>1, InitStore, NextStore, TypeCorrect, PTL DEF Spec
-----------------------------------------------------------------------------
(* Given up means the budget is spent.  An attempt count is a copy: of the   *)
(* row, of a claimed batch, or of the count about to be written.  Each copy  *)
(* is backed by attempts that really began, until the history saturates.    *)

CountBacked(n, e) == n <= tries[e] \/ tries[e] = MaxAttempts

BatchBacked(p) ==
  /\ \A i \in 1..Len(batch[p]) : CountBacked(batch[p][i].attempts, batch[p][i].id)
  /\ pc[p] \in InHand => CountBacked(Row(p).attempts + 1, Row(p).id)

BudgetInv ==
  /\ GivenUpAfterBudget
  /\ \A e \in Event : CountBacked(attempts[e], e)
  /\ \A p \in Publishers : BatchBacked(p)

(* Nothing is claimed and nothing counted at first.                         *)
LEMMA InitBudget == Init => BudgetInv
<1>. SUFFICES ASSUME Init PROVE BudgetInv
  OBVIOUS
<1>1. \A p \in Publishers : batch[p] = <<>> /\ pc[p] = "idle" /\ Len(batch[p]) = 0
  BY DEF Init
<1>2. \A p \in Publishers : 1..Len(batch[p]) = {}
  BY <1>1
<1>3. \A p \in Publishers : BatchBacked(p)
  BY <1>1, <1>2 DEF BatchBacked
<1>. QED
  BY <1>3, BudgetAssumption DEF Init, BudgetInv, GivenUpAfterBudget, CountBacked

(* A step that begins no attempt backs what was backed.                     *)
LEMMA CountsKept ==
  ASSUME UNCHANGED tries, NEW n, NEW e, CountBacked(n, e)
  PROVE  CountBacked(n, e)'
  BY DEF CountBacked

(* Beginning an attempt at e backs one more for e, and no less for others.  *)
LEMMA TryBacks ==
  ASSUME TypeOK, NEW e \in Event, Try(e), NEW n \in Nat, NEW f \in Event, CountBacked(n, f)
  PROVE  (tries'[f] = MaxAttempts \/ n <= tries'[f]) /\ (f = e => CountBacked(n + 1, e)')
  BY BudgetAssumption DEF Try, Smaller, TypeOK, CountBacked

(* Claimed rows are typed, so their counts are numbers and their ids events. *)
LEMMA ClaimedFields ==
  ASSUME TypeOK, NEW p \in Publishers, NEW i \in 1..Len(batch[p])
  PROVE  batch[p][i].attempts \in Nat /\ batch[p][i].id \in Event
<1>1. batch[p] \in Seq(Claimed)
  BY DEF TypeOK
<1>2. batch[p][i] \in Claimed
  BY <1>1
<1>. QED
  BY <1>2 DEF Claimed

(* Whatever else a step does, an attempt begun at one event or at none      *)
(* keeps the copies of every other publisher backed.                        *)
LEMMA OthersBacked ==
  ASSUME TypeOK, NEW q \in Publishers, BatchBacked(q),
         UNCHANGED tries \/ \E e \in Event : Try(e),
         batch'[q] = batch[q], pc'[q] = pc[q] \/ pc'[q] \in {"idle", "down"}
                                 \/ (pc[q] = "publish" /\ pc'[q] \in {"mark", "record"})
                                 \/ (pc[q] = "mark" /\ pc'[q] = "unsure")
  PROVE  BatchBacked(q)'
<1>1. ASSUME NEW n \in Nat, NEW f \in Event, CountBacked(n, f) PROVE CountBacked(n, f)'
  BY <1>1, CountsKept, TryBacks DEF CountBacked
<1>2. \A i \in 1..Len(batch[q]) :
        batch[q][i].attempts \in Nat /\ batch[q][i].id \in Event
  BY ClaimedFields
<1>3. \A i \in 1..Len(batch[q]) : CountBacked(batch[q][i].attempts, batch[q][i].id)'
  BY <1>1, <1>2 DEF BatchBacked
<1>4. ASSUME pc'[q] \in InHand
      PROVE  CountBacked(Row(q).attempts + 1, Row(q).id)'
  <2>1. pc[q] \in InHand
    BY <1>4
  <2>2. Row(q).attempts + 1 \in Nat /\ Row(q).id \in Event
    BY <2>1, RowType DEF TypeOK
  <2>3. CountBacked(Row(q).attempts + 1, Row(q).id)
    BY <2>1 DEF BatchBacked
  <2>. QED
    BY <1>1, <2>2, <2>3 DEF Row
<1>. QED
  BY <1>3, <1>4 DEF BatchBacked

(* An empty batch holds no copy.                                            *)
LEMMA EndDrainBacked ==
  ASSUME TypeOK, NEW p \in Publishers, EndDrain(p)
  PROVE  /\ BatchBacked(p)' /\ UNCHANGED tries
         /\ \A q \in Publishers \ {p} : batch'[q] = batch[q] /\ pc'[q] = pc[q]
<1>1. batch'[p] = <<>> /\ pc'[p] \notin InHand
  BY DEF EndDrain, TypeOK
<1>2. Len(batch'[p]) = 0
  BY <1>1
<1>3. 1..Len(batch'[p]) = {}
  BY <1>2
<1>. QED
  BY <1>1, <1>3 DEF EndDrain, BatchBacked, TypeOK

(* The next claimed row is backed by the attempt that begins on it; the     *)
(* rows behind it by what backed them in the longer batch.                  *)
LEMMA NextRowBacked ==
  ASSUME TypeOK, NEW p \in Publishers, batch[p] # <<>>, BatchBacked(p),
         NEW published \in BOOLEAN, NextRow(p, published)
  PROVE  /\ BatchBacked(p)'
         /\ UNCHANGED tries \/ \E e \in Event : Try(e)
         /\ \A q \in Publishers \ {p} : batch'[q] = batch[q] /\ pc'[q] = pc[q]
<1>1. CASE EndDrain(p)
  BY <1>1, EndDrainBacked
<1>2. CASE /\ Len(batch[p]) # 1
           /\ batch' = [batch EXCEPT ![p] = Tail(@)]
           /\ pc'    = [pc EXCEPT ![p] = "publish"]
           /\ Try(batch[p][2].id)
  <2>0. PICK s : s = batch[p]
    OBVIOUS
  <2>1. /\ Tail(s) \in Seq(Claimed) /\ Tail(s) # <<>> /\ 2 \in 1..Len(s)
        /\ s[2].id \in Event /\ s[2].attempts \in Nat
    BY <2>0, <1>2, RowType, ClaimedFields
  <2>2. s \in Seq(Claimed) /\ s # <<>>
    BY <2>0 DEF TypeOK
  <2>3. /\ Len(Tail(s)) = Len(s) - 1 /\ Len(s) \in Nat
        /\ \A i \in 1..Len(Tail(s)) : Tail(s)[i] = s[i + 1]
    BY <2>2, HeadTailProperties
  <2>4. \A n \in Nat : \A i \in 1..(n - 1) : i + 1 \in 1..n
    OBVIOUS
  <2>5. ASSUME NEW i \in 1..Len(Tail(s))
        PROVE  i + 1 \in 1..Len(s) /\ Tail(s)[i] = s[i + 1]
    BY <2>3, <2>4
  <2>6. ASSUME NEW i \in 1..Len(s) PROVE CountBacked(s[i].attempts, s[i].id)'
    <3>1. s[i].attempts \in Nat /\ s[i].id \in Event /\ CountBacked(s[i].attempts, s[i].id)
      BY <2>0, ClaimedFields DEF BatchBacked
    <3>. QED
      BY <1>2, <2>0, <2>1, <3>1, TryBacks DEF CountBacked
  <2>7. CountBacked(s[2].attempts + 1, s[2].id)'
    <3>1. CountBacked(s[2].attempts, s[2].id)
      BY <2>0, <2>1 DEF BatchBacked
    <3>. QED
      BY <1>2, <2>0, <2>1, <3>1, TryBacks
  <2>8. Head(Tail(s)) = s[2]
    <3>1. Head(Tail(s)) = Tail(s)[1]
      BY <2>1
    <3>2. \A n \in Nat : 2 \in 1..n => 1 \in 1..(n - 1)
      OBVIOUS
    <3>3. 1 \in 1..Len(Tail(s))
      BY <2>1, <2>3, <3>2
    <3>. QED
      BY <2>3, <3>1, <3>3
  <2>9. batch'[p] = Tail(s)
    BY <2>0, <1>2 DEF TypeOK
  <2>10. Row(p)' = s[2]
    BY <2>8, <2>9 DEF Row
  <2>11. \A i \in 1..Len(Tail(s)) : CountBacked(Tail(s)[i].attempts, Tail(s)[i].id)'
    BY <2>5, <2>6
  <2>12. BatchBacked(p)'
    BY <2>7, <2>9, <2>10, <2>11, Zenon DEF BatchBacked, CountBacked
  <2>. QED
    BY <2>0, <1>2, <2>1, <2>12 DEF TypeOK
<1>3. \/ EndDrain(p)
      \/ /\ Len(batch[p]) # 1
         /\ batch' = [batch EXCEPT ![p] = Tail(@)]
         /\ pc'    = [pc EXCEPT ![p] = "publish"]
         /\ Try(batch[p][2].id)
  BY DEF NextRow
<1>. QED
  BY <1>1, <1>2, <1>3

(* A claim copies backed counts, and the attempt it begins backs one more   *)
(* of the first.                                                            *)
LEMMA ClaimBacked ==
  ASSUME TypeOK, BudgetInv, NEW p \in Publishers, ClaimDue(p)
  PROVE  /\ BatchBacked(p)' /\ \E e \in Event : Try(e)
<1>1. /\ Len(due) \in Nat \ {0}
      /\ \A i \in 1..Len(due) : due[i] \in Event
      /\ Head(due) = due[1]
  BY DEF ClaimDue, TypeOK
<1>2. Smaller(BatchSize, Len(due)) \in 1..Len(due)
  BY <1>1, BudgetAssumption DEF Smaller
<1>. DEFINE k == Smaller(BatchSize, Len(due))
<1>0. PICK claim : claim = [i \in 1..k |-> [id |-> due[i], attempts |-> attempts[due[i]]]]
  OBVIOUS
<1>3. Try(due[1]) /\ due[1] \in Event
  BY <1>1 DEF ClaimDue
<1>4. batch'[p] = claim
  BY <1>0 DEF ClaimDue, TypeOK
<1>5. k \in Nat \ {0} /\ \A i \in 1..k : i \in 1..Len(due)
  BY <1>1, <1>2
<1>. HIDE DEF k
<1>6. Len(claim) = k /\ claim # <<>> /\ Head(claim) = claim[1] /\ 1 \in 1..k /\ DOMAIN claim = 1..k
  BY <1>0, <1>5
<1>7. ASSUME NEW i \in 1..k
      PROVE  /\ CountBacked(claim[i].attempts, claim[i].id)'
             /\ i = 1 => CountBacked(claim[i].attempts + 1, claim[i].id)'
  <2>1. /\ due[i] \in Event /\ attempts[due[i]] \in Nat
        /\ claim[i].id = due[i] /\ claim[i].attempts = attempts[due[i]]
        /\ CountBacked(attempts[due[i]], due[i])
    BY <1>0, <1>1, <1>5 DEF TypeOK, BudgetInv
  <2>. QED
    BY <1>3, <2>1, TryBacks DEF CountBacked
<1>8. Row(p)' = claim[1]
  BY <1>4, <1>6 DEF Row
<1>9. BatchBacked(p)'
  BY <1>4, <1>6, <1>7, <1>8, Zenon DEF BatchBacked, CountBacked
<1>. QED
  BY <1>3, <1>9

(* Every step keeps every copy of an attempt count backed, and writes       *)
(* 'failed' only with a count that is.                                      *)
LEMMA NextBudget == TypeOK /\ BudgetInv /\ [Next]_vars => BudgetInv'
<1>. SUFFICES ASSUME TypeOK, BudgetInv, [Next]_vars PROVE BudgetInv'
  OBVIOUS
<1>. USE DEF tableVars, publisherVars, streamVars
<1>0. ASSUME UNCHANGED tries \/ \E e \in Event : Try(e),
             NEW n \in Nat, NEW f \in Event, CountBacked(n, f)
      PROVE  CountBacked(n, f)'
  BY <1>0, CountsKept, TryBacks DEF CountBacked
<1>a. ASSUME UNCHANGED tries \/ \E e \in Event : Try(e), NEW f \in Event
      PROVE  /\ tries[f] \in 0..MaxAttempts /\ tries'[f] \in 0..MaxAttempts
             /\ tries'[f] >= tries[f]
  BY <1>a, TryType, BudgetAssumption DEF TypeOK
<1>b. \A f \in Event : rowStatus[f] = "failed" => tries[f] >= MaxAttempts
  BY DEF BudgetInv, GivenUpAfterBudget
<1>1. ASSUME UNCHANGED attempts,
             \A f \in Event : rowStatus'[f] = "failed" => rowStatus[f] = "failed",
             UNCHANGED tries \/ \E e \in Event : Try(e),
             \A p \in Publishers : BatchBacked(p)'
      PROVE  BudgetInv'
  <2>1. \A e \in Event : CountBacked(attempts[e], e)'
    BY <1>0, <1>1 DEF BudgetInv, TypeOK
  <2>2. GivenUpAfterBudget'
    BY <1>1, <1>a, <1>b, BudgetAssumption DEF GivenUpAfterBudget
  <2>. QED
    BY <1>1, <2>1, <2>2 DEF BudgetInv
<1>2. ASSUME UNCHANGED <<attempts, tries>>,
             \A f \in Event : rowStatus'[f] = "failed" => rowStatus[f] = "failed",
             \A q \in Publishers : /\ batch'[q] = batch[q]
                                   /\ \/ pc'[q] = pc[q]
                                      \/ pc'[q] \in {"idle", "down"}
                                      \/ pc[q] = "publish" /\ pc'[q] \in {"mark", "record"}
                                      \/ pc[q] = "mark" /\ pc'[q] = "unsure"
      PROVE  BudgetInv'
  BY <1>1, <1>2, OthersBacked DEF BudgetInv
<1>3. ASSUME NEW e \in Event,
             BackoffElapses(e) \/ LateArrival(e) \/ Forgets(e)
      PROVE  BudgetInv'
  BY <1>2, <1>3 DEF BackoffElapses, LateArrival, Forgets
<1>4. ASSUME NEW e \in Event, Enqueue(e) PROVE BudgetInv'
  <2>1. /\ UNCHANGED <<attempts, tries, batch, pc>>
        /\ \A f \in Event : rowStatus'[f] = "failed" => rowStatus[f] = "failed"
    BY <1>4 DEF Enqueue, TypeOK
  <2>. QED
    BY <2>1, OthersBacked DEF BudgetInv, GivenUpAfterBudget, CountBacked
<1>5. ASSUME NEW p \in Publishers, ClaimDue(p) PROVE BudgetInv'
  <2>1. BatchBacked(p)' /\ \E e \in Event : Try(e)
    BY <1>5, ClaimBacked
  <2>2. ASSUME NEW q \in Publishers \ {p} PROVE BatchBacked(q)'
    BY <1>5, <2>1, OthersBacked DEF ClaimDue, TypeOK, BudgetInv
  <2>. QED
    BY <1>1, <1>5, <2>1, <2>2 DEF ClaimDue
<1>6. ASSUME NEW p \in Publishers, Publish(p) PROVE BudgetInv'
  BY <1>2, <1>6 DEF Publish, To, TypeOK
<1>7. ASSUME NEW p \in Publishers, MarkPublished(p) PROVE BudgetInv'
  <2>1. batch[p] # <<>> /\ Row(p).id \in Event
    BY <1>7, RowType DEF MarkPublished, TypeOK
  <2>2. CASE SetPublished(Row(p).id) /\ NextRow(p, TRUE)
    <3>1. /\ BatchBacked(p)'
          /\ UNCHANGED tries \/ \E e \in Event : Try(e)
          /\ \A q \in Publishers \ {p} : batch'[q] = batch[q] /\ pc'[q] = pc[q]
      BY <2>1, <2>2, NextRowBacked DEF BudgetInv
    <3>2. \A q \in Publishers : BatchBacked(q)'
      BY <3>1, OthersBacked DEF BudgetInv
    <3>3. \A f \in Event : /\ attempts'[f] = attempts[f]
                           /\ rowStatus'[f] = "failed" => rowStatus[f] = "failed"
      BY <2>2 DEF SetPublished, TypeOK
    <3>4. \A f \in Event : CountBacked(attempts[f], f)'
      BY <1>0, <3>1, <3>3 DEF BudgetInv, TypeOK
    <3>5. GivenUpAfterBudget'
      BY <3>1, <3>3, <1>a, <1>b, BudgetAssumption DEF GivenUpAfterBudget
    <3>. QED
      BY <3>2, <3>4, <3>5 DEF BudgetInv
  <2>3. CASE To(p, "unsure") /\ (SetPublished(Row(p).id) \/ UNCHANGED tableVars)
    <3>1. /\ UNCHANGED attempts
          /\ \A f \in Event : rowStatus'[f] = "failed" => rowStatus[f] = "failed"
      BY <2>3 DEF SetPublished, TypeOK
    <3>. QED
      BY <1>2, <1>7, <2>3, <3>1 DEF To, MarkPublished, TypeOK
  <2>. QED
    BY <1>7, <2>2, <2>3 DEF MarkPublished
<1>8. ASSUME NEW p \in Publishers, RecordFailure(p) PROVE BudgetInv'
  <2>. DEFINE e == Row(p).id
              n == Row(p).attempts + 1
  <2>1. batch[p] # <<>> /\ e \in Event /\ n \in Nat /\ CountBacked(n, e)
    BY <1>8, RowType DEF RecordFailure, TypeOK, BudgetInv, BatchBacked
  <2>a. ASSUME BatchBacked(p)', UNCHANGED tries \/ \E f \in Event : Try(f),
               \A q \in Publishers \ {p} : batch'[q] = batch[q] /\ pc'[q] = pc[q]
        PROVE  \A q \in Publishers : BatchBacked(q)'
    BY <2>a, OthersBacked DEF BudgetInv
  <2>b. /\ \A q \in Publishers : BatchBacked(q)'
        /\ UNCHANGED tries \/ \E f \in Event : Try(f)
    <3>1. CASE NextRow(p, FALSE)
      BY <2>1, <2>a, <3>1, NextRowBacked DEF BudgetInv
    <3>2. CASE EndDrain(p)
      BY <2>a, <3>2, EndDrainBacked
    <3>. QED
      BY <1>8, <3>1, <3>2 DEF RecordFailure
  <2>2. CASE SetFailure(e, n)
    <3>3. \A f \in Event :
            /\ attempts'[f] \in Nat /\ CountBacked(attempts'[f], f)
            /\ rowStatus'[f] = "failed" => tries[f] >= MaxAttempts
      <4>. HIDE DEF e, n
      <4>. QED
        BY <2>1, <2>2, BudgetAssumption
           DEF SetFailure, Exhausted, BudgetInv, GivenUpAfterBudget, CountBacked, TypeOK
    <3>4. \A f \in Event : tries'[f] >= tries[f] /\ tries'[f] \in 0..MaxAttempts
      BY <1>a, <2>b
    <3>5. \A f \in Event : CountBacked(attempts[f], f)'
      BY <1>0, <2>b, <3>3 DEF CountBacked
    <3>6. GivenUpAfterBudget'
      BY <3>3, <3>4, BudgetAssumption DEF GivenUpAfterBudget, TypeOK
    <3>. QED
      BY <2>b, <3>5, <3>6 DEF BudgetInv
  <2>3. CASE UNCHANGED tableVars
    BY <1>1, <2>3, <2>b
  <2>. QED
    BY <1>8, <2>2, <2>3 DEF RecordFailure
<1>9. ASSUME NEW p \in Publishers, Start(p) \/ Stop(p) PROVE BudgetInv'
  BY <1>2, <1>9 DEF Start, Stop, TypeOK
<1>10. ASSUME NEW p \in Publishers, Crash(p) PROVE BudgetInv'
  <2>1. batch'[p] = <<>> /\ pc'[p] = "down"
    BY <1>10 DEF Crash, TypeOK
  <2>2. Len(batch'[p]) = 0
    BY <2>1
  <2>3. 1..Len(batch'[p]) = {}
    BY <2>2
  <2>4. BatchBacked(p)'
    BY <2>1, <2>3 DEF BatchBacked
  <2>5. \A q \in Publishers : BatchBacked(q)'
    BY <1>10, <2>4, OthersBacked DEF Crash, TypeOK, BudgetInv
  <2>. QED
    BY <1>1, <1>10, <2>5 DEF Crash
<1>11. CASE UNCHANGED vars
  BY <1>2, <1>11 DEF vars
<1>. QED
  BY <1>3, <1>4, <1>5, <1>6, <1>7, <1>8, <1>9, <1>10, <1>11 DEF Next, Progress

(* No event is given up on before OUTBOX_MAX_ATTEMPTS attempts at it have   *)
(* begun, although replicas read, hold and write back stale copies of the   *)
(* count, crash in the middle of a batch and repeat each other's attempts.  *)
THEOREM GiveUpIsEarned == Spec => []GivenUpAfterBudget
<1>1. BudgetInv => GivenUpAfterBudget
  BY DEF BudgetInv
<1>. QED
  BY <1>1, InitBudget, NextBudget, TypeCorrect, PTL DEF Spec

-----------------------------------------------------------------------------
(* Stored once, and in order.                                               *)

(* What removing an element leaves where.                                   *)
LEMMA RemoveAtElements ==
  ASSUME NEW S, NEW s \in Seq(S), NEW k \in 1..Len(s)
  PROVE  /\ Len(RemoveAt(s, k)) = Len(s) - 1
         /\ \A i \in 1..(Len(s) - 1) : RemoveAt(s, k)[i] = IF i < k THEN s[i] ELSE s[i + 1]
<1>. DEFINE left  == SubSeq(s, 1, k - 1)
            right == SubSeq(s, k + 1, Len(s))
<1>1. /\ Len(s) \in Nat /\ k \in Nat /\ 1 <= k /\ k <= Len(s)
      /\ \A i \in 1..Len(s) : s[i] \in S
  OBVIOUS
<1>2. /\ left \in Seq(S) /\ Len(left) = k - 1
      /\ \A i \in 1..(k - 1) : left[i] = s[i]
  <2>1. \A i \in 1..(k - 1) : s[i] \in S
    BY <1>1
  <2>2. /\ left \in Seq(S)
        /\ Len(left) = IF 1 <= k - 1 THEN (k - 1) - 1 + 1 ELSE 0
        /\ \A i \in 1..((k - 1) - 1 + 1) : left[i] = s[1 + i - 1]
    BY <1>1, <2>1, SubSeqProperties
  <2>. HIDE DEF left
  <2>. QED
    BY <1>1, <2>2
<1>3. /\ right \in Seq(S) /\ Len(right) = Len(s) - k
      /\ \A i \in 1..(Len(s) - k) : right[i] = s[k + i]
  <2>1. \A i \in (k + 1)..Len(s) : s[i] \in S
    BY <1>1
  <2>2. /\ right \in Seq(S)
        /\ Len(right) = IF k + 1 <= Len(s) THEN Len(s) - (k + 1) + 1 ELSE 0
        /\ \A i \in 1..(Len(s) - (k + 1) + 1) : right[i] = s[k + 1 + i - 1]
    BY <1>1, <2>1, SubSeqProperties
  <2>. HIDE DEF right
  <2>. QED
    BY <1>1, <2>2
<1>4. RemoveAt(s, k) = left \o right
  BY DEF RemoveAt
<1>. HIDE DEF left, right
<1>5. /\ Len(left \o right) = Len(left) + Len(right)
      /\ \A i \in 1..(Len(left) + Len(right)) :
           (left \o right)[i] = IF i <= Len(left) THEN left[i] ELSE right[i - Len(left)]
  BY <1>2, <1>3, ConcatProperties
<1>6. ASSUME NEW i \in 1..(Len(s) - 1)
      PROVE  RemoveAt(s, k)[i] = IF i < k THEN s[i] ELSE s[i + 1]
  <2>1. (left \o right)[i] = IF i <= k - 1 THEN left[i] ELSE right[i - (k - 1)]
    BY <1>1, <1>2, <1>3, <1>5
  <2>2. CASE i < k
    BY <1>1, <1>2, <1>4, <2>1, <2>2
  <2>3. CASE ~(i < k)
    <3>1. i - (k - 1) \in 1..(Len(s) - k) /\ k + (i - (k - 1)) = i + 1 /\ ~(i <= k - 1)
      BY <1>1, <2>3
    <3>. QED
      BY <1>3, <1>4, <2>1, <2>3, <3>1
  <2>. QED
    BY <2>2, <2>3
<1>. QED
  BY <1>1, <1>2, <1>3, <1>4, <1>5, <1>6

(* The stream after a message was stored.                                   *)
LEMMA StoreElements ==
  ASSUME TypeOK, NEW e \in Event, Store(e)
  PROVE  \/ e \in window /\ stream' = stream
         \/ /\ e \notin window
            /\ Len(stream') = Len(stream) + 1
            /\ stream'[Len(stream) + 1] = e
            /\ \A i \in 1..Len(stream) : stream'[i] = stream[i]
  BY AppendProperties DEF Store, TypeOK

(* Every other step leaves the stream alone.                                *)
LEMMA StreamSteps ==
  ASSUME TypeOK, [Next]_vars
  PROVE  \/ UNCHANGED <<stream, window>>
         \/ \E e \in Event : Store(e) /\ (e \in late \/ e \notin Corrupt)
         \/ \E e \in Event : Forgets(e)
<1>. USE DEF tableVars, publisherVars, streamVars
<1>1. ASSUME NEW p \in Publishers, Publish(p)
      PROVE  \/ UNCHANGED <<stream, window>>
             \/ \E e \in Event : Store(e) /\ (e \in late \/ e \notin Corrupt)
  <2>1. Row(p).id \in Event
    BY <1>1, RowType DEF Publish, TypeOK
  <2>. QED
    BY <1>1, <2>1 DEF Publish
<1>2. CASE UNCHANGED vars
  BY <1>2 DEF vars
<1>. QED
  BY <1>1, <1>2 DEF Next, Progress, Enqueue, BackoffElapses, LateArrival, ClaimDue, MarkPublished,
                    RecordFailure, Start, Stop, Crash

WindowLasts == "forgets" \notin Faults

(* While nothing is forgotten the window knows the whole stream.            *)
OnceInv == StoredOnce /\ \A i \in 1..Len(stream) : stream[i] \in window

(* Every step preserves it.                                                 *)
LEMMA NextOnce ==
  ASSUME WindowLasts
  PROVE  TypeOK /\ OnceInv /\ [Next]_vars => OnceInv'
<1>. SUFFICES ASSUME TypeOK, OnceInv, [Next]_vars PROVE OnceInv'
  OBVIOUS
<1>1. CASE UNCHANGED <<stream, window>>
  BY <1>1 DEF OnceInv, StoredOnce
<1>2. ASSUME NEW e \in Event, Store(e) PROVE OnceInv'
  <2>1. CASE e \in window /\ stream' = stream
    BY <1>2, <2>1 DEF OnceInv, StoredOnce, Store
  <2>2. CASE /\ e \notin window
             /\ Len(stream') = Len(stream) + 1
             /\ stream'[Len(stream) + 1] = e
             /\ \A i \in 1..Len(stream) : stream'[i] = stream[i]
    <3>1. /\ DOMAIN stream = 1..Len(stream) /\ Len(stream) \in Nat
          /\ DOMAIN stream' = 1..Len(stream') /\ window' = window \cup {e}
      BY <1>2, StoreType DEF TypeOK, Store
    <3>2. \A i \in 1..Len(stream) : stream[i] # e
      BY <2>2 DEF OnceInv
    <3>3. \A i \in 1..Len(stream') : i \in 1..Len(stream) \/ i = Len(stream) + 1
      BY <2>2, <3>1
    <3>4. StoredOnce'
      BY <2>2, <3>1, <3>2, <3>3 DEF OnceInv, StoredOnce
    <3>. QED
      BY <2>2, <3>1, <3>3, <3>4 DEF OnceInv
  <2>. QED
    BY <1>2, <2>1, <2>2, StoreElements
<1>3. ASSUME NEW e \in Event, Forgets(e) PROVE FALSE
  BY <1>3 DEF Forgets, Mishap, WindowLasts
<1>. QED
  BY <1>1, <1>2, <1>3, StreamSteps

(* While the duplicate window lasts, the stream has one copy of an event at *)
(* most, for any number of publishers and whatever is refused, times out,   *)
(* arrives late, fails or crashes.                                          *)
THEOREM NoDuplicates ==
  ASSUME WindowLasts
  PROVE  Spec => []StoredOnce
<1>1. Init => OnceInv
  BY DEF Init, OnceInv, StoredOnce
<1>2. OnceInv => StoredOnce
  BY DEF OnceInv
<1>. QED
  BY <1>1, <1>2, NextOnce, TypeCorrect, PTL DEF Spec

-----------------------------------------------------------------------------
(* First copies in order.  It needs next_attempt_at to follow the commits   *)
(* and every publish to reach the broker when it is made; then whoever      *)
(* holds events holds them in order, but for those that are stored already. *)
(* A row is behind later ones only once an attempt at it has been counted,  *)
(* and by then its event is stored.                                         *)

InOrder(s) ==
  \A i \in 1..Len(s) : \A e \in 1..(s[i] - 1) : Stored(e) \/ \E j \in 1..(i - 1) : s[j] = e

Ids(p) == [i \in 1..Len(batch[p]) |-> batch[p][i].id]

PublishesArrive == Corrupt = {} /\ {"refused", "late"} \cap Faults = {}
StampsFollowCommits == "stamps" \notin Faults

OrderInv ==
  /\ FirstCopiesInOrder
  /\ late = {}
  /\ \A e \in window : Stored(e)
  /\ \A e \in Event : rowStatus[e] # "absent" => Stored(e) \/ \E i \in 1..Len(due) : due[i] = e
  /\ InOrder(due)
  /\ \A e \in waiting : Stored(e)
  /\ \A e \in Event : attempts[e] > 0 => Stored(e)
  /\ \A p \in Publishers :
       InOrder(Ids(p)) /\ (pc[p] \in {"mark", "record", "unsure"} => Stored(Row(p).id))

(* What a step may take away from the due rows is stored.                   *)
LEMMA NoLongerDueOrder ==
  ASSUME TypeOK, OrderInv, NEW e \in Event, Stored(e), NoLongerDue(e), UNCHANGED stream
  PROVE  /\ InOrder(due)'
         /\ \A f \in Event : (\E i \in 1..Len(due) : due[i] = f) =>
              Stored(f) \/ \E i \in 1..Len(due') : due'[i] = f
<1>0. /\ due \in Seq(Event) /\ Len(due) \in Nat /\ DOMAIN due = 1..Len(due)
      /\ \A f : Stored(f)' <=> Stored(f)
  BY DEF TypeOK, Stored
<1>1. CASE UNCHANGED due
  BY <1>0, <1>1 DEF OrderInv, InOrder
<1>2. ASSUME NEW k \in 1..Len(due), due[k] = e, due' = RemoveAt(due, k)
      PROVE  /\ InOrder(due)'
             /\ \A f \in Event : (\E i \in 1..Len(due) : due[i] = f) =>
                  Stored(f) \/ \E i \in 1..Len(due') : due'[i] = f
  <2>1. /\ Len(due') = Len(due) - 1
        /\ \A i \in 1..(Len(due) - 1) : due'[i] = IF i < k THEN due[i] ELSE due[i + 1]
    BY <1>0, <1>2, RemoveAtElements
  <2>2. ASSUME NEW n \in 1..(Len(due) + 1), NEW m \in Nat, m = IF n <= k THEN n ELSE n - 1,
               NEW i \in 1..(n - 1), i # k
        PROVE  \E j \in 1..(m - 1) : j \in 1..(Len(due) - 1) /\ due'[j] = due[i]
    <3>1. CASE i < k
      <4>1. i \in 1..(m - 1) /\ i \in 1..(Len(due) - 1)
        BY <1>0, <2>2, <3>1
      <4>. QED
        BY <2>1, <3>1, <4>1
    <3>2. CASE i > k
      <4>1. i - 1 \in 1..(m - 1) /\ i - 1 \in 1..(Len(due) - 1) /\ ~(i - 1 < k) /\ (i - 1) + 1 = i
        BY <1>0, <2>2, <3>2
      <4>. QED
        BY <2>1, <4>1
    <3>. QED
      BY <1>0, <2>2, <3>1, <3>2
  <2>3. ASSUME NEW i \in 1..Len(due'), NEW f \in 1..(due'[i] - 1)
        PROVE  Stored(f) \/ \E j \in 1..(i - 1) : due'[j] = f
    <3>. DEFINE n == IF i < k THEN i ELSE i + 1
    <3>1. /\ n \in 1..Len(due) /\ n \in 1..(Len(due) + 1) /\ due'[i] = due[n]
          /\ i \in Nat /\ i = IF n <= k THEN n ELSE n - 1
      BY <1>0, <2>1, <2>3
    <3>2. CASE Stored(f)
      BY <3>2
    <3>3. CASE ~Stored(f)
      <4>1. PICK j \in 1..(n - 1) : due[j] = f
        BY <2>3, <3>1, <3>3 DEF OrderInv, InOrder
      <4>2. j # k
        BY <1>2, <3>3, <4>1
      <4>. HIDE DEF n
      <4>. QED
        BY <2>2, <3>1, <4>1, <4>2
    <3>. QED
      BY <3>2, <3>3
  <2>4. ASSUME NEW f \in Event, NEW i \in 1..Len(due), due[i] = f, ~Stored(f)
        PROVE  \E j \in 1..Len(due') : due'[j] = f
    <3>1. i # k
      BY <1>2, <2>4
    <3>2. CASE i < k
      <4>1. i \in 1..(Len(due) - 1)
        BY <1>0, <3>2
      <4>. QED
        BY <2>1, <2>4, <3>2, <4>1
    <3>3. CASE i > k
      <4>1. i - 1 \in 1..(Len(due) - 1) /\ ~(i - 1 < k) /\ (i - 1) + 1 = i
        BY <1>0, <3>3
      <4>. QED
        BY <2>1, <2>4, <4>1
    <3>. QED
      BY <1>0, <3>1, <3>2, <3>3
  <2>. QED
    BY <1>0, <2>3, <2>4 DEF InOrder
<1>. QED
  BY <1>0, <1>1, <1>2 DEF NoLongerDue

(* A row that becomes due, ahead of stored rows at most, with every earlier *)
(* event stored or due already.                                             *)
LEMMA DueOrder ==
  ASSUME StampsFollowCommits,
         TypeOK, OrderInv, NEW e \in Event, NEW overtaken, JoinsDue(e, overtaken),
         UNCHANGED stream, \A f \in overtaken : Stored(f),
         \A f \in 1..(e - 1) : Stored(f) \/ \E i \in 1..Len(due) : due[i] = f
  PROVE  /\ InOrder(due)'
         /\ \E i \in 1..Len(due') : due'[i] = e
         /\ \A f \in Event : (\E i \in 1..Len(due) : due[i] = f) => \E i \in 1..Len(due') : due'[i] = f
<1>1. /\ Len(due) \in Nat /\ Len(due') = Len(due) + 1
      /\ \A f : Stored(f)' <=> Stored(f)
  BY JoinsDueElements DEF Stored
<1>2. PICK k \in 1..(Len(due) + 1) :
        /\ \A j \in k..Len(due) : due[j] \in overtaken
        /\ \A i \in 1..(Len(due) + 1) :
             due'[i] = IF i < k THEN due[i] ELSE IF i = k THEN e ELSE due[i - 1]
  BY JoinsDueElements DEF StampsFollowCommits
<1>3. ASSUME NEW j \in 1..Len(due), NEW n \in Nat, j < n \/ (j < k /\ j <= n)
      PROVE  \E i \in 1..n : i \in 1..Len(due') /\ due'[i] = due[j]
  <2>1. CASE j < k
    <3>1. j \in 1..n /\ j \in 1..Len(due') /\ j \in 1..(Len(due) + 1)
      BY <1>1, <1>3
    <3>. QED
      BY <1>2, <2>1, <3>1
  <2>2. CASE ~(j < k)
    <3>1. /\ j + 1 \in 1..n /\ j + 1 \in 1..Len(due') /\ j + 1 \in 1..(Len(due) + 1)
          /\ ~(j + 1 < k) /\ j + 1 # k /\ (j + 1) - 1 = j
      BY <1>1, <1>3, <2>2
    <3>. QED
      BY <1>2, <3>1
  <2>. QED
    BY <2>1, <2>2
<1>4. ASSUME NEW i \in 1..Len(due'), NEW f \in 1..(due'[i] - 1), ~Stored(f)
      PROVE  \E j \in 1..(i - 1) : due'[j] = f
  <2>0. i \in 1..(Len(due) + 1)
    BY <1>1
  <2>1. CASE i < k
    <3>1. i \in 1..Len(due) /\ due'[i] = due[i]
      BY <1>1, <1>2, <2>0, <2>1
    <3>2. PICK j \in 1..(i - 1) : due[j] = f
      BY <1>4, <3>1 DEF OrderInv, InOrder
    <3>3. j \in 1..Len(due) /\ i - 1 \in Nat /\ j < k /\ j <= i - 1
      BY <1>1, <2>1, <3>1
    <3>. QED
      BY <1>3, <3>2, <3>3
  <2>2. CASE i = k
    <3>1. due'[i] = e
      BY <1>2, <2>0, <2>2
    <3>2. PICK j \in 1..Len(due) : due[j] = f
      BY <1>4, <3>1
    <3>3. j < k
      <4>. SUFFICES ASSUME ~(j < k) PROVE FALSE
        OBVIOUS
      <4>1. j \in k..Len(due)
        BY <1>1
      <4>. QED
        BY <1>2, <1>4, <3>2, <4>1
    <3>4. i - 1 \in Nat /\ j <= i - 1
      BY <1>1, <2>0, <2>2, <3>3
    <3>. QED
      BY <1>3, <3>2, <3>3, <3>4
  <2>3. CASE i > k
    <3>1. i - 1 \in 1..Len(due) /\ due'[i] = due[i - 1]
      <4>1. ~(i < k) /\ i # k /\ i - 1 \in 1..Len(due)
        BY <1>1, <2>0, <2>3
      <4>. QED
        BY <1>2, <2>0, <4>1
    <3>2. PICK j \in 1..((i - 1) - 1) : due[j] = f
      BY <1>4, <3>1 DEF OrderInv, InOrder
    <3>3. j \in 1..Len(due) /\ i - 1 \in Nat /\ j < i - 1
      BY <1>1, <3>1
    <3>. QED
      BY <1>3, <3>2, <3>3
  <2>4. i < k \/ i = k \/ i > k
    BY <1>1
  <2>. QED
    BY <2>1, <2>2, <2>3, <2>4
<1>5. \E i \in 1..Len(due') : due'[i] = e
  <2>1. k \in 1..Len(due') /\ ~(k < k)
    BY <1>1
  <2>. QED
    BY <1>2, <2>1
<1>6. ASSUME NEW f \in Event, NEW j \in 1..Len(due), due[j] = f
      PROVE  \E i \in 1..Len(due') : due'[i] = f
  <2>1. Len(due') \in Nat /\ j < Len(due')
    BY <1>1
  <2>. QED
    BY <1>3, <1>6, <2>1
<1>. QED
  BY <1>1, <1>4, <1>5, <1>6 DEF InOrder

(* Storing an event whose earlier ones are stored keeps the first copies in *)
(* order, and whatever was in order.                                        *)
LEMMA StoreOrder ==
  ASSUME TypeOK, OrderInv, NEW e \in Event, Store(e), \A f \in 1..(e - 1) : Stored(f)
  PROVE  /\ FirstCopiesInOrder'
         /\ Stored(e)' /\ \A f : Stored(f) => Stored(f)'
         /\ \A f \in window' : Stored(f)'
<1>1. CASE e \in window /\ stream' = stream
  BY <1>1 DEF OrderInv, FirstCopiesInOrder, Stored, Store
<1>2. CASE /\ e \notin window
           /\ Len(stream') = Len(stream) + 1
           /\ stream'[Len(stream) + 1] = e
           /\ \A i \in 1..Len(stream) : stream'[i] = stream[i]
  <2>1. /\ DOMAIN stream = 1..Len(stream) /\ Len(stream) \in Nat
        /\ DOMAIN stream' = 1..Len(stream') /\ window' = window \cup {e}
    BY StoreType DEF TypeOK, Store
  <2>2. ASSUME NEW f, Stored(f) PROVE Stored(f)'
    <3>1. PICK i \in 1..Len(stream) : stream[i] = f
      BY <2>1, <2>2 DEF Stored
    <3>2. i \in 1..Len(stream')
      BY <1>2, <2>1
    <3>. QED
      BY <1>2, <2>1, <3>1, <3>2 DEF Stored
  <2>3. Stored(e)'
    BY <1>2, <2>1 DEF Stored
  <2>4. ASSUME NEW i \in 1..Len(stream'), NEW f \in 1..(stream'[i] - 1)
        PROVE  \E j \in 1..(i - 1) : stream'[j] = f
    <3>1. CASE i \in 1..Len(stream)
      <4>1. PICK j \in 1..(i - 1) : stream[j] = f
        BY <1>2, <2>1, <2>4, <3>1 DEF OrderInv, FirstCopiesInOrder
      <4>2. j \in 1..Len(stream)
        BY <2>1, <3>1
      <4>. QED
        BY <1>2, <4>1, <4>2
    <3>2. CASE i = Len(stream) + 1
      <4>1. PICK j \in 1..Len(stream) : stream[j] = f
        BY <1>2, <2>1, <2>4, <3>2 DEF Stored
      <4>2. j \in 1..(i - 1)
        BY <2>1, <3>2
      <4>. QED
        BY <1>2, <4>1, <4>2
    <3>3. i \in 1..Len(stream) \/ i = Len(stream) + 1
      BY <1>2, <2>1
    <3>. QED
      BY <3>1, <3>2, <3>3
  <2>5. FirstCopiesInOrder'
    BY <2>1, <2>4 DEF FirstCopiesInOrder
  <2>. QED
    BY <2>1, <2>2, <2>3, <2>5 DEF OrderInv
<1>. QED
  BY <1>1, <1>2, StoreElements

(* What precedes a stored event is stored.                                  *)
LEMMA StoredBehind ==
  ASSUME TypeOK, OrderInv, NEW e \in Event, Stored(e)
  PROVE  \A f \in 1..(e - 1) : Stored(f)
<1>1. DOMAIN stream = 1..Len(stream) /\ Len(stream) \in Nat
  BY DEF TypeOK
<1>2. PICK i \in 1..Len(stream) : stream[i] = e
  BY <1>1 DEF Stored
<1>3. ASSUME NEW f \in 1..(e - 1) PROVE Stored(f)
  <2>1. PICK j \in 1..(i - 1) : stream[j] = f
    BY <1>1, <1>2 DEF OrderInv, FirstCopiesInOrder
  <2>2. j \in 1..Len(stream)
    BY <1>1
  <2>. QED
    BY <1>1, <2>1, <2>2 DEF Stored
<1>. QED
  BY <1>3

(* What is stored stays stored, so what was in order stays so.              *)
LEMMA OrderKept ==
  ASSUME NEW s, InOrder(s), \A f : Stored(f) => Stored(f)', NEW t, t = s
  PROVE  \A i \in 1..Len(t) : \A e \in 1..(t[i] - 1) : Stored(e)' \/ \E j \in 1..(i - 1) : t[j] = e
  BY DEF InOrder

(* The claimed rows are the first of the due rows.                          *)
LEMMA ClaimOrder ==
  ASSUME TypeOK, OrderInv, NEW p \in Publishers, ClaimDue(p)
  PROVE  InOrder(Ids(p))'
<1>. DEFINE k == Smaller(BatchSize, Len(due))
<1>1. /\ Len(due) \in Nat \ {0}
      /\ \A i \in 1..Len(due) : due[i] \in Event
      /\ UNCHANGED stream
  BY DEF ClaimDue, TypeOK, streamVars
<1>2. k \in Nat /\ k <= Len(due)
  BY <1>1, BudgetAssumption DEF Smaller
<1>3. PICK claim : claim = [i \in 1..k |-> [id |-> due[i], attempts |-> attempts[due[i]]]]
  OBVIOUS
<1>4. batch'[p] = claim
  BY <1>3 DEF ClaimDue, TypeOK
<1>. HIDE DEF k
<1>5. Len(claim) = k
  BY <1>2, <1>3
<1>7. PICK s : s = [i \in 1..k |-> due[i]]
  OBVIOUS
<1>6. Ids(p)' = s
  <2>1. \A i \in 1..k : claim[i].id = due[i]
    BY <1>3
  <2>2. Ids(p)' = [i \in 1..k |-> claim[i].id]
    BY <1>4, <1>5 DEF Ids
  <2>. QED
    BY <1>7, <2>1, <2>2
<1>8. Len(s) = k
  BY <1>2, <1>7
<1>9. ASSUME NEW i \in 1..k, NEW e \in 1..(s[i] - 1), ~Stored(e)
      PROVE  \E j \in 1..(i - 1) : s[j] = e
  <2>1. i \in 1..Len(due) /\ s[i] = due[i]
    BY <1>1, <1>2, <1>7
  <2>2. PICK j \in 1..(i - 1) : due[j] = e
    BY <1>9, <2>1 DEF OrderInv, InOrder
  <2>3. j \in 1..k
    BY <1>2
  <2>. QED
    BY <1>7, <2>2, <2>3
<1>10. \A f : Stored(f)' <=> Stored(f)
  BY <1>1 DEF Stored
<1>11. \A i \in 1..Len(s) : \A e \in 1..(s[i] - 1) : Stored(e)' \/ \E j \in 1..(i - 1) : s[j] = e
  BY <1>8, <1>9, <1>10
<1>. QED
  BY <1>6, <1>11 DEF InOrder

(* The rest of a batch whose first row is stored is in order.               *)
LEMMA RestOrder ==
  ASSUME TypeOK, OrderInv, NEW p \in Publishers, batch[p] # <<>>, Stored(Row(p).id),
         NEW published \in BOOLEAN, NextRow(p, published), UNCHANGED stream
  PROVE  InOrder(Ids(p))' /\ pc'[p] \notin {"mark", "record", "unsure"}
<1>0. \A f : Stored(f)' <=> Stored(f)
  BY DEF Stored
<1>1. CASE EndDrain(p)
  <2>1. batch'[p] = <<>> /\ pc'[p] \notin {"mark", "record", "unsure"}
    BY <1>1 DEF EndDrain, TypeOK
  <2>2. Ids(p)' = [i \in 1..0 |-> <<>>[i].id] /\ 1..0 = {}
    BY <2>1 DEF Ids
  <2>3. PICK s : s = [i \in 1..0 |-> <<>>[i].id]
    OBVIOUS
  <2>4. Len(s) = 0
    BY <2>3
  <2>. QED
    BY <2>1, <2>2, <2>3, <2>4 DEF InOrder
<1>2. CASE /\ Len(batch[p]) # 1
           /\ batch' = [batch EXCEPT ![p] = Tail(@)]
           /\ pc'    = [pc EXCEPT ![p] = "publish"]
  <2>0. PICK s : s = batch[p]
    OBVIOUS
  <2>1. s \in Seq(Claimed) /\ s # <<>> /\ batch'[p] = Tail(s) /\ Len(s) \in Nat
    BY <1>2, <2>0 DEF TypeOK
  <2>2. /\ Len(Tail(s)) = Len(s) - 1
        /\ \A i \in 1..Len(Tail(s)) : Tail(s)[i] = s[i + 1]
    BY <2>1, HeadTailProperties
  <2>3. Stored(s[1].id)
    BY <2>0, RowType
  <2>4. PICK t : t = [i \in 1..(Len(s) - 1) |-> s[i + 1].id]
    OBVIOUS
  <2>5. Len(s) - 1 \in Nat
    BY <2>1
  <2>6. Len(t) = Len(s) - 1
    BY <2>4, <2>5
  <2>7. Ids(p)' = t
    BY <2>1, <2>2, <2>4 DEF Ids
  <2>8. ASSUME NEW i \in 1..(Len(s) - 1), NEW e \in 1..(t[i] - 1), ~Stored(e)
        PROVE  \E j \in 1..(i - 1) : t[j] = e
    <3>1. i + 1 \in 1..Len(s) /\ t[i] = s[i + 1].id
      BY <2>1, <2>4
    <3>2. PICK j \in 1..i : s[j].id = e
      <4>1. PICK u : u = Ids(p)
        OBVIOUS
      <4>2. Len(u) = Len(s) /\ \A n \in 1..Len(s) : u[n] = s[n].id
        BY <2>0, <2>1, <4>1 DEF Ids
      <4>5. InOrder(u) /\ i + 1 \in 1..Len(u) /\ e \in 1..(u[i + 1] - 1)
        BY <2>8, <3>1, <4>1, <4>2 DEF OrderInv
      <4>3. \E j \in 1..((i + 1) - 1) : u[j] = e
        BY <2>8, <4>5 DEF InOrder
      <4>4. (i + 1) - 1 = i /\ \A j \in 1..i : j \in 1..Len(s)
        BY <2>1
      <4>. QED
        BY <4>2, <4>3, <4>4
    <3>3. j # 1
      BY <2>3, <2>8, <3>2
    <3>4. j - 1 \in 1..(i - 1) /\ j - 1 \in 1..(Len(s) - 1) /\ (j - 1) + 1 = j
      BY <2>1, <3>3
    <3>. QED
      BY <2>4, <3>2, <3>4
  <2>9. pc'[p] \notin {"mark", "record", "unsure"}
    BY <1>2 DEF TypeOK
  <2>. QED
    BY <1>0, <2>6, <2>7, <2>8, <2>9 DEF InOrder
<1>. QED
  BY <1>1, <1>2 DEF NextRow

(* Another publisher, or the same one with its batch as it was.             *)
LEMMA SameBatchOrder ==
  ASSUME TypeOK, OrderInv, NEW q \in Publishers, batch'[q] = batch[q],
         \A f : Stored(f) => Stored(f)'
  PROVE  InOrder(Ids(q))'
<1>1. Ids(q)' = Ids(q)
  BY DEF Ids
<1>2. PICK t : t = Ids(q)
  OBVIOUS
<1>3. InOrder(t)
  BY <1>2 DEF OrderInv
<1>. QED
  BY <1>1, <1>2, <1>3, OrderKept DEF InOrder

(* An empty batch is in order.                                              *)
LEMMA NoBatchOrder ==
  ASSUME NEW q \in Publishers, batch'[q] = <<>>
  PROVE  InOrder(Ids(q))'
<1>1. PICK s : s = [i \in 1..0 |-> <<>>[i].id]
  OBVIOUS
<1>2. Ids(q)' = s /\ Len(s) = 0
  BY <1>1 DEF Ids
<1>. QED
  BY <1>2 DEF InOrder

(* Every step preserves the order.                                          *)
LEMMA NextOrder ==
  ASSUME PublishesArrive, StampsFollowCommits
  PROVE  TypeOK /\ OrderInv /\ [Next]_vars => OrderInv'
<1>. SUFFICES ASSUME TypeOK, OrderInv, [Next]_vars PROVE OrderInv'
  OBVIOUS
<1>. USE DEF tableVars, publisherVars, streamVars
<1>0. UNCHANGED stream => /\ \A f : Stored(f)' <=> Stored(f)
                          /\ FirstCopiesInOrder'
                          /\ InOrder(due) /\ UNCHANGED due => InOrder(due)'
  BY DEF Stored, OrderInv, FirstCopiesInOrder, InOrder
<1>a. Event \subseteq Nat /\ \A e \in Event : \A f \in 1..(e - 1) : f \in Event
  BY EventAssumption DEF Event
<1>1. ASSUME NEW e \in Event, Enqueue(e) PROVE OrderInv'
  <2>1. \A f \in 1..(e - 1) : Stored(f) \/ \E i \in 1..Len(due) : due[i] = f
    BY <1>1, <1>a DEF Enqueue, OrderInv
  <2>2. /\ InOrder(due)'
        /\ \E i \in 1..Len(due') : due'[i] = e
        /\ \A f \in Event : (\E i \in 1..Len(due) : due[i] = f) => \E i \in 1..Len(due') : due'[i] = f
    <3>1. \A f \in {g \in Event : attempts[g] > 0} : Stored(f)
      BY DEF OrderInv
    <3>. QED
      BY <1>1, <2>1, <3>1, DueOrder DEF Enqueue
  <2>3. \A f \in Event \ {e} : rowStatus'[f] = rowStatus[f]
    BY <1>1 DEF Enqueue, TypeOK
  <2>4. \A q \in Publishers : InOrder(Ids(q))'
    BY <1>0, <1>1, SameBatchOrder DEF Enqueue
  <2>. QED
    BY <1>0, <1>1, <2>2, <2>3, <2>4 DEF Enqueue, OrderInv, Row
<1>2. ASSUME NEW e \in Event, BackoffElapses(e) PROVE OrderInv'
  <2>1. \A f \in 1..(e - 1) : Stored(f)
    BY <1>2, StoredBehind DEF BackoffElapses, OrderInv
  <2>2. /\ InOrder(due)'
        /\ \A f \in Event : (\E i \in 1..Len(due) : due[i] = f) => \E i \in 1..Len(due') : due'[i] = f
    <3>1. \A f \in {} : Stored(f)
      OBVIOUS
    <3>. QED
      BY <1>2, <2>1, <3>1, DueOrder DEF BackoffElapses
  <2>3. \A q \in Publishers : InOrder(Ids(q))'
    BY <1>0, <1>2, SameBatchOrder DEF BackoffElapses
  <2>. QED
    BY <1>0, <1>2, <2>2, <2>3 DEF BackoffElapses, OrderInv, Row
<1>3. ASSUME NEW e \in Event, LateArrival(e) PROVE OrderInv'
  BY <1>3 DEF LateArrival, OrderInv
<1>4. ASSUME NEW e \in Event, Forgets(e) PROVE OrderInv'
  <2>1. \A q \in Publishers : InOrder(Ids(q))'
    BY <1>0, <1>4, SameBatchOrder DEF Forgets
  <2>. QED
    BY <1>0, <1>4, <2>1 DEF Forgets, OrderInv, Row
<1>5. ASSUME NEW p \in Publishers, ClaimDue(p) PROVE OrderInv'
  <2>1. \A q \in Publishers \ {p} : batch'[q] = batch[q] /\ pc'[q] = pc[q]
    BY <1>5 DEF ClaimDue, TypeOK
  <2>2. \A q \in Publishers : InOrder(Ids(q))'
    BY <1>0, <1>5, <2>1, ClaimOrder, SameBatchOrder DEF ClaimDue
  <2>3. pc'[p] = "publish"
    BY <1>5 DEF ClaimDue, TypeOK
  <2>4. \A q \in Publishers : pc'[q] \in {"mark", "record", "unsure"} => Stored(Row(q).id)'
    BY <1>0, <1>5, <2>1, <2>3 DEF ClaimDue, OrderInv, Row
  <2>. QED
    BY <1>0, <1>5, <2>2, <2>4 DEF ClaimDue, OrderInv
<1>6. ASSUME NEW p \in Publishers, Publish(p) PROVE OrderInv'
  <2>0. PICK e : e = Row(p).id
    OBVIOUS
  <2>1. /\ e \in Event /\ batch[p] # <<>> /\ 1 \in 1..Len(batch[p]) /\ Row(p) = batch[p][1]
    BY <1>6, <2>0, RowType DEF Publish, TypeOK
  <2>2. \A f \in 1..(e - 1) : Stored(f)
    <3>1. PICK s : s = Ids(p)
      OBVIOUS
    <3>2. Len(s) = Len(batch[p]) /\ s[1] = e
      <4>1. Len(batch[p]) \in Nat
        BY DEF TypeOK
      <4>. QED
        BY <2>0, <2>1, <3>1, <4>1 DEF Ids
    <3>3. \A f \in 1..(s[1] - 1) : Stored(f) \/ \E j \in 1..(1 - 1) : s[j] = f
      BY <2>1, <3>1, <3>2 DEF OrderInv, InOrder
    <3>. QED
      BY <3>2, <3>3
  <2>3. Store(e) /\ UNCHANGED late /\ (To(p, "mark") \/ To(p, "record"))
    BY <1>6, <2>0 DEF Publish, PublishesArrive
  <2>4. /\ FirstCopiesInOrder'
        /\ Stored(e)' /\ \A f : Stored(f) => Stored(f)'
        /\ \A f \in window' : Stored(f)'
    BY <2>1, <2>2, <2>3, StoreOrder
  <2>5. \A q \in Publishers : InOrder(Ids(q))'
    BY <2>3, <2>4, SameBatchOrder DEF To
  <2>6. \A q \in Publishers : pc'[q] \in {"mark", "record", "unsure"} => Stored(Row(q).id)'
    BY <2>0, <2>3, <2>4 DEF To, OrderInv, Row, TypeOK
  <2>7. InOrder(due)'
    BY <1>6, <2>4, OrderKept DEF Publish, OrderInv, InOrder
  <2>. QED
    BY <1>6, <2>3, <2>4, <2>5, <2>6, <2>7 DEF Publish, OrderInv
<1>7. ASSUME NEW p \in Publishers, MarkPublished(p) \/ RecordFailure(p) PROVE OrderInv'
  <2>. DEFINE e == Row(p).id
  <2>1. batch[p] # <<>> /\ e \in Event /\ Stored(e) /\ UNCHANGED streamVars
    BY <1>7, RowType DEF MarkPublished, RecordFailure, TypeOK, OrderInv
  <2>2. /\ \A q \in Publishers : InOrder(Ids(q))'
        /\ \A q \in Publishers : pc'[q] \in {"mark", "record", "unsure"} => Stored(Row(q).id)'
    <3>1. CASE To(p, "unsure") \/ EndDrain(p)
      <4>1. \A q \in Publishers : InOrder(Ids(q))'
        BY <1>0, <2>1, <3>1, SameBatchOrder, NoBatchOrder DEF To, EndDrain, TypeOK
      <4>2. \A q \in Publishers : pc'[q] \in {"mark", "record", "unsure"} => Stored(Row(q).id)'
        BY <1>0, <2>1, <3>1 DEF To, EndDrain, OrderInv, Row, TypeOK
      <4>. QED
        BY <4>1, <4>2
    <3>2. ASSUME NEW published \in BOOLEAN, NextRow(p, published)
          PROVE  /\ \A q \in Publishers : InOrder(Ids(q))'
                 /\ \A q \in Publishers :
                      pc'[q] \in {"mark", "record", "unsure"} => Stored(Row(q).id)'
      <4>1. InOrder(Ids(p))' /\ pc'[p] \notin {"mark", "record", "unsure"}
        BY <2>1, <3>2, RestOrder
      <4>2. \A q \in Publishers \ {p} : batch'[q] = batch[q] /\ pc'[q] = pc[q]
        BY <3>2, NextRowStore
      <4>3. \A q \in Publishers : InOrder(Ids(q))'
        BY <1>0, <2>1, <4>1, <4>2, SameBatchOrder
      <4>4. \A q \in Publishers : pc'[q] \in {"mark", "record", "unsure"} => Stored(Row(q).id)'
        BY <1>0, <2>1, <4>1, <4>2 DEF OrderInv, Row
      <4>. QED
        BY <4>3, <4>4
    <3>. QED
      BY <1>7, <3>1, <3>2 DEF MarkPublished, RecordFailure
  <2>3. CASE UNCHANGED tableVars
    BY <1>0, <2>1, <2>2, <2>3 DEF OrderInv
  <2>4. CASE /\ NoLongerDue(e) /\ waiting' \subseteq waiting \cup {e}
             /\ \E s \in {"published", "failed", "pending"} : rowStatus' = [rowStatus EXCEPT ![e] = s]
             /\ \A f \in Event \ {e} : attempts'[f] = attempts[f]
    <3>1. /\ InOrder(due)'
          /\ \A f \in Event : (\E i \in 1..Len(due) : due[i] = f) =>
               Stored(f) \/ \E i \in 1..Len(due') : due'[i] = f
      BY <2>1, <2>4, NoLongerDueOrder
    <3>2. \A f \in Event : rowStatus'[f] # "absent" => rowStatus[f] # "absent" \/ f = e
      BY <2>1, <2>4 DEF TypeOK
    <3>3. \A f \in waiting' : Stored(f)
      BY <2>1, <2>4 DEF OrderInv
    <3>4. \A f \in Event : attempts'[f] > 0 => Stored(f)
      BY <2>1, <2>4 DEF OrderInv
    <3>. QED
      BY <1>0, <2>1, <2>2, <3>1, <3>2, <3>3, <3>4 DEF OrderInv
  <2>5. CASE SetPublished(e)
    BY <2>4, <2>5 DEF SetPublished
  <2>6. ASSUME NEW n, SetFailure(e, n) PROVE OrderInv'
    <3>1. \A f \in Event \ {e} : attempts'[f] = attempts[f]
      BY <2>6 DEF SetFailure, TypeOK
    <3>. QED
      BY <2>4, <2>6, <3>1 DEF SetFailure
  <2>. QED
    BY <1>7, <2>3, <2>5, <2>6 DEF MarkPublished, RecordFailure
<1>8. ASSUME NEW p \in Publishers, Start(p) \/ Stop(p) \/ Crash(p) PROVE OrderInv'
  <2>1. /\ UNCHANGED <<tableVars, streamVars>>
        /\ \A q \in Publishers : batch'[q] \in {batch[q], <<>>}
        /\ \A q \in Publishers : pc'[q] \in {"mark", "record", "unsure"} =>
             pc'[q] = pc[q] /\ batch'[q] = batch[q]
    BY <1>8 DEF Start, Stop, Crash, TypeOK
  <2>2. \A q \in Publishers : InOrder(Ids(q))'
    BY <1>0, <2>1, SameBatchOrder, NoBatchOrder
  <2>. QED
    BY <1>0, <2>1, <2>2 DEF OrderInv, Row
<1>9. CASE UNCHANGED vars
  <2>1. \A q \in Publishers : InOrder(Ids(q))'
    BY <1>0, <1>9, SameBatchOrder DEF vars
  <2>. QED
    BY <1>0, <1>9, <2>1 DEF vars, OrderInv, Row
<1>. QED
  BY <1>1, <1>2, <1>3, <1>4, <1>5, <1>6, <1>7, <1>8, <1>9 DEF Next, Progress

(* As long as next_attempt_at follows the commits, every row parses and     *)
(* every publish reaches the broker when it is made, first copies are       *)
(* stored in the order of the commits, for any number of publishers that    *)
(* overlap, lose acknowledgements, fail to mark or to reschedule rows,      *)
(* crash and restart, and any duplicate window: retries, which come in      *)
(* behind later rows, are of stored events (outbox-publisher.ts:143-147).   *)
THEOREM CommitOrderKept ==
  ASSUME PublishesArrive, StampsFollowCommits
  PROVE  Spec => []FirstCopiesInOrder
<1>1. Init => OrderInv
  <2>. SUFFICES ASSUME Init PROVE OrderInv
    OBVIOUS
  <2>1. due = <<>> /\ Len(due) = 0 /\ stream = <<>> /\ DOMAIN stream = {}
    BY DEF Init
  <2>2. ASSUME NEW p \in Publishers PROVE InOrder(Ids(p))
    <3>1. PICK s : s = [i \in 1..0 |-> <<>>[i].id]
      OBVIOUS
    <3>2. Ids(p) = s /\ Len(s) = 0
      BY <3>1 DEF Ids, Init
    <3>. QED
      BY <3>2 DEF InOrder
  <2>. QED
    BY <2>1, <2>2 DEF Init, OrderInv, FirstCopiesInOrder, InOrder
<1>2. OrderInv => FirstCopiesInOrder
  BY DEF OrderInv
<1>. QED
  BY <1>1, <1>2, NextOrder, TypeCorrect, PTL DEF Spec

-----------------------------------------------------------------------------
(* Rows move forward.  A single publisher works on rows that are pending,   *)
(* on each once, and with the count the table has; the row in hand may be   *)
(* published only while the catch of its own markPublished is to come.      *)

OnePublisherAssumption == \A p, q \in Publishers : p = q

Distinct(s) == \A i, j \in 1..Len(s) : s[i] = s[j] => i = j

DueInv ==
  /\ Distinct(due)
  /\ \A i \in 1..Len(due) : rowStatus[due[i]] = "pending" /\ due[i] \notin waiting
  /\ \A e \in waiting : rowStatus[e] = "pending"

BatchInv(p) ==
  /\ \A i, j \in 1..Len(batch[p]) : batch[p][i].id = batch[p][j].id => i = j
  /\ \A i \in 1..Len(batch[p]) :
       /\ attempts[batch[p][i].id] = batch[p][i].attempts
       /\ \/ rowStatus[batch[p][i].id] = "pending"
          \/ i = 1 /\ pc[p] = "unsure" /\ rowStatus[batch[p][i].id] = "published"

ForwardInv == DueInv /\ \A p \in Publishers : BatchInv(p)

Forward ==
  \A e \in Event : /\ rowStatus[e] = "failed" => rowStatus'[e] = "failed"
                   /\ rowStatus[e] = "published" /\ ~Unsure(e) => rowStatus'[e] = "published"
                   /\ attempts'[e] >= attempts[e]

(* A row that is no longer due is gone from the due rows, and nothing comes *)
(* in its place.                                                            *)
LEMMA NoLongerDueGone ==
  ASSUME TypeOK, Distinct(due), NEW e \in Event, NoLongerDue(e)
  PROVE  /\ Distinct(due')
         /\ \A i \in 1..Len(due') : due'[i] # e /\ \E j \in 1..Len(due) : due'[i] = due[j]
<1>0. due \in Seq(Event) /\ Len(due) \in Nat /\ DOMAIN due = 1..Len(due)
  BY DEF TypeOK
<1>1. CASE UNCHANGED due /\ \A i \in DOMAIN due : due[i] # e
  BY <1>0, <1>1 DEF Distinct
<1>2. ASSUME NEW k \in 1..Len(due), due[k] = e, due' = RemoveAt(due, k)
      PROVE  /\ Distinct(due')
             /\ \A i \in 1..Len(due') : due'[i] # e /\ \E j \in 1..Len(due) : due'[i] = due[j]
  <2>1. /\ Len(due') = Len(due) - 1
        /\ \A i \in 1..(Len(due) - 1) : due'[i] = IF i < k THEN due[i] ELSE due[i + 1]
    BY <1>0, <1>2, RemoveAtElements
  <2>. DEFINE from(i) == IF i < k THEN i ELSE i + 1
  <2>2. ASSUME NEW i \in 1..Len(due')
        PROVE  from(i) \in 1..Len(due) /\ from(i) # k /\ due'[i] = due[from(i)]
    BY <1>0, <2>1
  <2>3. \A i, j \in 1..Len(due') : from(i) = from(j) => i = j
    BY <1>0, <2>1
  <2>. HIDE DEF from
  <2>4. ASSUME NEW i \in 1..Len(due'), NEW j \in 1..Len(due'), due'[i] = due'[j] PROVE i = j
    <3>1. due[from(i)] = due[from(j)] /\ from(i) \in 1..Len(due) /\ from(j) \in 1..Len(due)
      BY <2>2, <2>4
    <3>2. from(i) = from(j)
      BY <3>1 DEF Distinct
    <3>. QED
      BY <2>3, <3>2
  <2>5. ASSUME NEW i \in 1..Len(due')
        PROVE  due'[i] # e /\ \E j \in 1..Len(due) : due'[i] = due[j]
    <3>1. from(i) \in 1..Len(due) /\ from(i) # k /\ due'[i] = due[from(i)]
      BY <2>2
    <3>. QED
      BY <1>2, <3>1 DEF Distinct
  <2>. QED
    BY <2>4, <2>5 DEF Distinct
<1>. QED
  BY <1>0, <1>1, <1>2 DEF NoLongerDue

(* A row that becomes due once more was not due.                            *)
LEMMA DueGrows ==
  ASSUME TypeOK, Distinct(due), NEW e \in Event, NEW overtaken, JoinsDue(e, overtaken),
         \A i \in 1..Len(due) : due[i] # e
  PROVE  /\ Distinct(due')
         /\ \A i \in 1..Len(due') : due'[i] = e \/ \E j \in 1..Len(due) : due'[i] = due[j]
<1>1. Len(due) \in Nat /\ Len(due') = Len(due) + 1
  BY JoinsDueElements
<1>2. PICK k \in 1..(Len(due) + 1) :
        \A i \in 1..(Len(due) + 1) :
          due'[i] = IF i < k THEN due[i] ELSE IF i = k THEN e ELSE due[i - 1]
  BY JoinsDueElements
<1>. DEFINE from(i) == IF i < k THEN i ELSE i - 1
<1>3. ASSUME NEW i \in 1..Len(due'), i # k
      PROVE  from(i) \in 1..Len(due) /\ due'[i] = due[from(i)]
  BY <1>1, <1>2, <1>3
<1>4. \A i, j \in 1..Len(due') : i # k /\ j # k /\ from(i) = from(j) => i = j
  BY <1>1
<1>5. due'[k] = e
  BY <1>1, <1>2
<1>. HIDE DEF from
<1>6. ASSUME NEW i \in 1..Len(due'), NEW j \in 1..Len(due'), due'[i] = due'[j] PROVE i = j
  <2>1. CASE i # k /\ j # k
    <3>1. due[from(i)] = due[from(j)] /\ from(i) \in 1..Len(due) /\ from(j) \in 1..Len(due)
      BY <1>3, <1>6, <2>1
    <3>2. from(i) = from(j)
      BY <3>1 DEF Distinct
    <3>. QED
      BY <1>4, <2>1, <3>2
  <2>2. CASE i = k \/ j = k
    <3>. SUFFICES ASSUME i # j PROVE FALSE
      OBVIOUS
    <3>1. PICK n \in 1..Len(due') : n # k /\ due'[n] = e
      BY <1>5, <1>6, <2>2
    <3>. QED
      BY <1>3, <3>1
  <2>. QED
    BY <2>1, <2>2
<1>7. ASSUME NEW i \in 1..Len(due') PROVE due'[i] = e \/ \E j \in 1..Len(due) : due'[i] = due[j]
  BY <1>3, <1>5
<1>. QED
  BY <1>6, <1>7 DEF Distinct

(* The rest of a batch, once the status and count of its first row changed. *)
LEMMA RestForward ==
  ASSUME TypeOK, NEW p \in Publishers, batch[p] # <<>>, BatchInv(p),
         NEW published \in BOOLEAN, NextRow(p, published),
         \A f \in Event \ {Row(p).id} : rowStatus'[f] = rowStatus[f] /\ attempts'[f] = attempts[f]
  PROVE  BatchInv(p)'
<1>1. CASE EndDrain(p)
  <2>1. batch'[p] = <<>> /\ Len(<<>>) = 0
    BY <1>1 DEF EndDrain, TypeOK
  <2>2. 1..Len(batch'[p]) = {}
    BY <2>1
  <2>. QED
    BY <2>2 DEF BatchInv
<1>2. CASE batch' = [batch EXCEPT ![p] = Tail(@)]
  <2>0. PICK s : s = batch[p]
    OBVIOUS
  <2>1. s \in Seq(Claimed) /\ s # <<>> /\ batch'[p] = Tail(s) /\ Len(s) \in Nat
    BY <1>2, <2>0 DEF TypeOK
  <2>2. /\ Len(Tail(s)) = Len(s) - 1
        /\ \A i \in 1..Len(Tail(s)) : Tail(s)[i] = s[i + 1]
    BY <2>1, HeadTailProperties
  <2>3. Row(p).id = s[1].id /\ 1 \in 1..Len(s)
    BY <2>0, RowType
  <2>4. ASSUME NEW i \in 1..(Len(s) - 1)
        PROVE  /\ i + 1 \in 1..Len(s) /\ i + 1 # 1
               /\ s[i + 1].id \in Event
    BY <2>0, <2>1, ClaimedFields
  <2>5. \A i \in 1..(Len(s) - 1) : /\ s[i + 1].id # Row(p).id
                                   /\ rowStatus'[s[i + 1].id] = "pending"
                                   /\ attempts'[s[i + 1].id] = s[i + 1].attempts
    BY <2>0, <2>3, <2>4 DEF BatchInv
  <2>6. \A i, j \in 1..(Len(s) - 1) : s[i + 1].id = s[j + 1].id => i = j
    <3>1. ASSUME NEW i \in 1..(Len(s) - 1), NEW j \in 1..(Len(s) - 1), s[i + 1].id = s[j + 1].id
          PROVE  i = j
      <4>1. i + 1 = j + 1
        BY <2>0, <2>4, <3>1 DEF BatchInv
      <4>. QED
        BY <2>1, <4>1
    <3>. QED
      BY <3>1
  <2>7. PICK t : t = Tail(s)
    OBVIOUS
  <2>8. /\ batch'[p] = t /\ Len(t) = Len(s) - 1
        /\ \A i \in 1..(Len(s) - 1) : t[i] = s[i + 1]
    BY <2>1, <2>2, <2>7
  <2>9. /\ \A i, j \in 1..Len(t) : t[i].id = t[j].id => i = j
        /\ \A i \in 1..Len(t) : rowStatus'[t[i].id] = "pending" /\ attempts'[t[i].id] = t[i].attempts
    <3>1. ASSUME NEW i \in 1..(Len(s) - 1), NEW j \in 1..(Len(s) - 1), t[i].id = t[j].id
          PROVE  i = j
      <4>1. t[i] = s[i + 1] /\ t[j] = s[j + 1]
        BY <2>8
      <4>2. s[i + 1].id = s[j + 1].id
        BY <3>1, <4>1
      <4>. QED
        BY <2>6, <4>2
    <3>2. ASSUME NEW i \in 1..(Len(s) - 1)
          PROVE  rowStatus'[t[i].id] = "pending" /\ attempts'[t[i].id] = t[i].attempts
      <4>1. t[i] = s[i + 1]
        BY <2>8
      <4>. QED
        BY <2>5, <4>1
    <3>. QED
      BY <2>8, <3>1, <3>2
  <2>. QED
    BY <2>8, <2>9 DEF BatchInv
<1>. QED
  BY <1>1, <1>2 DEF NextRow

(* Claimed rows are due rows, each once, with the counts of the table.      *)
LEMMA ClaimForward ==
  ASSUME TypeOK, DueInv, NEW p \in Publishers, ClaimDue(p)
  PROVE  BatchInv(p)'
<1>. DEFINE k == Smaller(BatchSize, Len(due))
<1>1. /\ Len(due) \in Nat \ {0}
      /\ \A i \in 1..Len(due) : due[i] \in Event
      /\ UNCHANGED <<rowStatus, attempts>>
  BY DEF ClaimDue, TypeOK, tableVars
<1>2. k \in Nat /\ k <= Len(due)
  BY <1>1, BudgetAssumption DEF Smaller
<1>3. PICK claim : claim = [i \in 1..k |-> [id |-> due[i], attempts |-> attempts[due[i]]]]
  OBVIOUS
<1>4. batch'[p] = claim
  BY <1>3 DEF ClaimDue, TypeOK
<1>. HIDE DEF k
<1>5. Len(claim) = k
  BY <1>2, <1>3
<1>6. \A i \in 1..k : /\ i \in 1..Len(due)
                      /\ claim[i].id = due[i] /\ claim[i].attempts = attempts[due[i]]
  BY <1>1, <1>2, <1>3
<1>. QED
  BY <1>1, <1>4, <1>5, <1>6 DEF BatchInv, DueInv, Distinct

(* Every step of a system with one publisher moves the rows forward.        *)
LEMMA NextForward ==
  ASSUME OnePublisherAssumption
  PROVE  TypeOK /\ ForwardInv /\ [Next]_vars => ForwardInv' /\ Forward
<1>. SUFFICES ASSUME TypeOK, ForwardInv, [Next]_vars PROVE ForwardInv' /\ Forward
  OBVIOUS
<1>. USE DEF tableVars, publisherVars, streamVars
<1>0. ASSUME UNCHANGED <<rowStatus, attempts>> PROVE Forward
  BY <1>0 DEF Forward, TypeOK
<1>a. ASSUME UNCHANGED tableVars, \A p \in Publishers : BatchInv(p)' PROVE ForwardInv' /\ Forward
  BY <1>0, <1>a DEF ForwardInv, DueInv
<1>b. ASSUME UNCHANGED <<rowStatus, attempts, batch>>,
             \A p \in Publishers : pc[p] = "unsure" => pc'[p] = "unsure"
      PROVE  \A p \in Publishers : BatchInv(p)'
  BY <1>b DEF ForwardInv, BatchInv
<1>c. ASSUME NEW p \in Publishers, batch'[p] = <<>> PROVE BatchInv(p)'
  <2>1. Len(<<>>) = 0
    OBVIOUS
  <2>2. 1..Len(batch'[p]) = {}
    BY <1>c, <2>1
  <2>. QED
    BY <2>2 DEF BatchInv
<1>1. ASSUME NEW e \in Event, Enqueue(e) PROVE ForwardInv' /\ Forward
  <2>1. /\ rowStatus[e] = "absent" /\ rowStatus'[e] = "pending"
        /\ \A f \in Event \ {e} : rowStatus'[f] = rowStatus[f]
        /\ UNCHANGED <<attempts, waiting, batch, pc>>
        /\ JoinsDue(e, {f \in Event : attempts[f] > 0})
    BY <1>1 DEF Enqueue, TypeOK
  <2>2. /\ \A i \in 1..Len(due) : due[i] # e
        /\ e \notin waiting
    BY <2>1 DEF ForwardInv, DueInv
  <2>3. /\ Distinct(due')
        /\ \A i \in 1..Len(due') : due'[i] = e \/ \E j \in 1..Len(due) : due'[i] = due[j]
    BY <2>1, <2>2, DueGrows DEF ForwardInv, DueInv
  <2>4. DueInv'
    <3>1. \A i \in 1..Len(due) : rowStatus'[due[i]] = "pending" /\ due[i] \notin waiting
      <4>1. \A i \in 1..Len(due) : due[i] \in Event
        BY DEF TypeOK
      <4>. QED
        BY <2>1, <2>2, <4>1 DEF ForwardInv, DueInv
    <3>2. \A f \in waiting : rowStatus'[f] = "pending"
      BY <2>1, <2>2 DEF ForwardInv, DueInv, TypeOK
    <3>. QED
      BY <2>1, <2>2, <2>3, <3>1, <3>2 DEF DueInv
  <2>5. \A p \in Publishers : BatchInv(p)'
    <3>1. \A p \in Publishers : \A i \in 1..Len(batch[p]) :
            batch[p][i].id \in Event /\ batch[p][i].id # e
      BY <2>1, ClaimedFields DEF ForwardInv, BatchInv
    <3>. QED
      BY <2>1, <3>1 DEF ForwardInv, BatchInv
  <2>6. Forward
    BY <2>1 DEF Forward, TypeOK
  <2>. QED
    BY <2>4, <2>5, <2>6 DEF ForwardInv
<1>2. ASSUME NEW e \in Event, BackoffElapses(e) PROVE ForwardInv' /\ Forward
  <2>1. \A i \in 1..Len(due) : due[i] # e
    BY <1>2 DEF BackoffElapses, ForwardInv, DueInv
  <2>2. /\ Distinct(due')
        /\ \A i \in 1..Len(due') : due'[i] = e \/ \E j \in 1..Len(due) : due'[i] = due[j]
    BY <1>2, <2>1, DueGrows DEF BackoffElapses, ForwardInv, DueInv
  <2>3. DueInv'
    BY <1>2, <2>2 DEF BackoffElapses, ForwardInv, DueInv
  <2>. QED
    BY <1>0, <1>2, <1>b, <2>3 DEF BackoffElapses, ForwardInv
<1>3. ASSUME NEW e \in Event, LateArrival(e) \/ Forgets(e) PROVE ForwardInv' /\ Forward
  BY <1>3, <1>a, <1>b DEF LateArrival, Forgets
<1>4. ASSUME NEW p \in Publishers, ClaimDue(p) PROVE ForwardInv' /\ Forward
  <2>1. BatchInv(p)'
    BY <1>4, ClaimForward DEF ForwardInv
  <2>. QED
    BY <1>4, <1>a, <2>1 DEF ClaimDue, OnePublisherAssumption
<1>5. ASSUME NEW p \in Publishers, Publish(p) PROVE ForwardInv' /\ Forward
  BY <1>5, <1>a, <1>b DEF Publish, To, TypeOK
<1>6. ASSUME NEW p \in Publishers, MarkPublished(p) \/ RecordFailure(p) PROVE ForwardInv' /\ Forward
  <2>1. /\ batch[p] # <<>> /\ Row(p).id \in Event /\ Row(p).attempts \in Nat
        /\ Row(p) = batch[p][1] /\ 1 \in 1..Len(batch[p])
    BY <1>6, RowType DEF MarkPublished, RecordFailure, TypeOK
  <2>0. PICK e : e = Row(p).id
    OBVIOUS
  <2>2. /\ e \in Event /\ attempts[e] = Row(p).attempts
        /\ rowStatus[e] = "pending" \/ (rowStatus[e] = "published" /\ Unsure(e))
        /\ pc[p] = "mark" => rowStatus[e] = "pending"
    BY <2>0, <2>1 DEF ForwardInv, BatchInv, Unsure
  <2>3. CASE /\ NoLongerDue(e)
             /\ \A f \in Event \ {e} : rowStatus'[f] = rowStatus[f] /\ attempts'[f] = attempts[f]
             /\ rowStatus'[e] \in {"published", "failed", "pending"}
             /\ waiting' \ {e} \subseteq waiting /\ (e \in waiting' => rowStatus'[e] = "pending")
             /\ attempts'[e] \in {attempts[e], attempts[e] + 1}
    <3>1. /\ Distinct(due')
          /\ \A i \in 1..Len(due') : due'[i] # e /\ \E j \in 1..Len(due) : due'[i] = due[j]
      BY <2>2, <2>3, NoLongerDueGone DEF ForwardInv, DueInv
    <3>2. \A i \in 1..Len(due) : due[i] \in Event
      BY DEF TypeOK
    <3>3. DueInv'
      <4>1. ASSUME NEW i \in 1..Len(due')
            PROVE  rowStatus'[due'[i]] = "pending" /\ due'[i] \notin waiting'
        BY <2>3, <3>1, <3>2 DEF ForwardInv, DueInv
      <4>2. \A f \in waiting' : rowStatus'[f] = "pending"
        BY <2>3 DEF ForwardInv, DueInv, TypeOK
      <4>. QED
        BY <3>1, <4>1, <4>2 DEF DueInv
    <3>4. Forward
      <4>1. \A f \in Event : attempts[f] \in Nat
        BY DEF TypeOK
      <4>. QED
        BY <2>2, <2>3, <4>1 DEF Forward
    <3>5. ASSUME NEW published \in BOOLEAN, NextRow(p, published) PROVE BatchInv(p)'
      BY <2>0, <2>1, <2>3, <3>5, RestForward DEF ForwardInv
    <3>6. ASSUME EndDrain(p) PROVE BatchInv(p)'
      BY <1>c, <3>6 DEF EndDrain, TypeOK
    <3>7. ASSUME To(p, "unsure"), rowStatus'[e] = "published", attempts'[e] = attempts[e]
          PROVE  BatchInv(p)'
      <4>0. PICK s : s = batch[p]
        OBVIOUS
      <4>1. batch'[p] = s /\ pc'[p] = "unsure"
        BY <3>7, <4>0 DEF To, TypeOK
      <4>2. s[1].id = e /\ \A i \in 1..Len(s) : s[i].id \in Event
        BY <2>0, <2>1, <4>0, ClaimedFields
      <4>3. /\ \A i, j \in 1..Len(s) : s[i].id = s[j].id => i = j
            /\ \A i \in 1..Len(s) :
                 /\ attempts[s[i].id] = s[i].attempts
                 /\ i # 1 => rowStatus[s[i].id] = "pending"
        BY <4>0 DEF ForwardInv, BatchInv
      <4>4. ASSUME NEW i \in 1..Len(s)
            PROVE  /\ attempts'[s[i].id] = s[i].attempts
                   /\ rowStatus'[s[i].id] = "pending" \/ (i = 1 /\ rowStatus'[s[i].id] = "published")
        <5>0. PICK f : f = s[i].id
          OBVIOUS
        <5>1. f \in Event /\ attempts[f] = s[i].attempts /\ (i # 1 => rowStatus[f] = "pending")
          BY <4>2, <4>3, <5>0
        <5>2. CASE i = 1
          <6>1. f = e
            BY <4>2, <5>0, <5>2
          <6>. QED
            BY <3>7, <5>0, <5>1, <5>2, <6>1
        <5>3. CASE i # 1
          <6>1. f # e
            BY <2>1, <4>0, <4>2, <4>3, <5>0, <5>3
          <6>2. rowStatus'[f] = rowStatus[f] /\ attempts'[f] = attempts[f]
            BY <2>3, <5>1, <6>1
          <6>. QED
            BY <5>0, <5>1, <5>3, <6>2
        <5>. QED
          BY <5>2, <5>3
      <4>. QED
        BY <4>1, <4>3, <4>4 DEF BatchInv
    <3>8. \/ \E published \in BOOLEAN : NextRow(p, published)
          \/ EndDrain(p)
          \/ To(p, "unsure") /\ (SetPublished(e) \/ UNCHANGED tableVars)
      BY <1>6, <2>0 DEF MarkPublished, RecordFailure
    <3>9. CASE To(p, "unsure") /\ SetPublished(e)
      <4>1. rowStatus'[e] = "published" /\ attempts'[e] = attempts[e]
        BY <2>2, <3>9 DEF SetPublished, TypeOK
      <4>2. BatchInv(p)'
        BY <3>7, <3>9, <4>1
      <4>. QED
        BY <3>3, <3>4, <4>2 DEF ForwardInv, OnePublisherAssumption
    <3>10. CASE To(p, "unsure") /\ UNCHANGED tableVars
      BY <1>a, <1>b, <3>10 DEF To, TypeOK
    <3>11. CASE \/ \E published \in BOOLEAN : NextRow(p, published)
                \/ EndDrain(p)
      BY <3>3, <3>4, <3>5, <3>6, <3>11 DEF ForwardInv, OnePublisherAssumption
    <3>. QED
      BY <3>8, <3>9, <3>10, <3>11
  <2>4. CASE UNCHANGED tableVars /\ To(p, "unsure")
    BY <1>a, <1>b, <2>4 DEF To, TypeOK
  <2>5. CASE UNCHANGED tableVars /\ EndDrain(p)
    BY <1>a, <1>c, <2>5 DEF EndDrain, TypeOK, OnePublisherAssumption
  <2>6. CASE SetPublished(e)
    <3>1. /\ NoLongerDue(e)
          /\ \A f \in Event \ {e} : rowStatus'[f] = rowStatus[f] /\ attempts'[f] = attempts[f]
          /\ rowStatus'[e] \in {"published", "failed", "pending"}
          /\ waiting' \ {e} \subseteq waiting /\ e \notin waiting'
          /\ attempts'[e] = attempts[e]
      BY <2>2, <2>6 DEF SetPublished, TypeOK
    <3>. QED
      BY <2>3, <3>1
  <2>7. CASE SetFailure(e, Row(p).attempts + 1)
    <3>1. /\ NoLongerDue(e)
          /\ \A f \in Event \ {e} : rowStatus'[f] = rowStatus[f] /\ attempts'[f] = attempts[f]
          /\ rowStatus'[e] \in {"published", "failed", "pending"}
          /\ waiting' \ {e} \subseteq waiting /\ (e \in waiting' => rowStatus'[e] = "pending")
          /\ attempts'[e] \in {attempts[e], attempts[e] + 1}
      BY <2>2, <2>7 DEF SetFailure, TypeOK
    <3>. QED
      BY <2>3, <3>1
  <2>. QED
    BY <1>6, <2>0, <2>4, <2>5, <2>6, <2>7 DEF MarkPublished, RecordFailure
<1>7. ASSUME NEW p \in Publishers, Start(p) \/ Stop(p) PROVE ForwardInv' /\ Forward
  BY <1>7, <1>a, <1>b DEF Start, Stop, TypeOK
<1>8. ASSUME NEW p \in Publishers, Crash(p) PROVE ForwardInv' /\ Forward
  BY <1>8, <1>a, <1>c DEF Crash, TypeOK, OnePublisherAssumption
<1>9. CASE UNCHANGED vars
  BY <1>9, <1>a, <1>b DEF vars
<1>. QED
  BY <1>1, <1>2, <1>3, <1>4, <1>5, <1>6, <1>7, <1>8, <1>9 DEF Next, Progress

(* No row is due and no batch claimed at first.                             *)
LEMMA InitForward == Init => ForwardInv
<1>. SUFFICES ASSUME Init PROVE ForwardInv
  OBVIOUS
<1>1. due = <<>> /\ Len(due) = 0 /\ waiting = {}
  BY DEF Init
<1>2. ASSUME NEW p \in Publishers PROVE BatchInv(p)
  <2>1. batch[p] = <<>> /\ Len(<<>>) = 0
    BY DEF Init
  <2>2. 1..Len(batch[p]) = {}
    BY <2>1
  <2>. QED
    BY <2>2 DEF BatchInv
<1>3. 1..Len(due) = {}
  BY <1>1
<1>. QED
  BY <1>1, <1>2, <1>3 DEF ForwardInv, DueInv, Distinct

(* With one publisher 'failed' is final and no attempt count goes back,     *)
(* whatever the broker and the table refuse, whether or not a statement     *)
(* that throws took effect, and however the process stops, crashes and      *)
(* restarts; 'published' is taken back only by the catch of this row's own  *)
(* markPublished (outbox-publisher.ts:191-199).                             *)
THEOREM OnePublisherMovesForward ==
  ASSUME OnePublisherAssumption
  PROVE  Spec => RowsMoveForward
<1>. QED
  BY InitForward, NextForward, TypeCorrect, PTL DEF Spec, RowsMoveForward, Forward

-----------------------------------------------------------------------------
(* Nothing is invented: whatever is due, claimed, on its way to the stream  *)
(* or on it was committed, for any number of publishers.                    *)

Committed == {e \in Event : rowStatus[e] # "absent"}
CommittedRow == [id : Committed, attempts : Nat]

OriginInv ==
  /\ due \in Seq(Committed) /\ stream \in Seq(Committed)
  /\ waiting \subseteq Committed /\ late \subseteq Committed
  /\ \A p \in Publishers : batch[p] \in Seq(CommittedRow)

(* A sequence of committed things stays one while more is committed.        *)
LEMMA SeqGrows ==
  ASSUME NEW S, NEW T, S \subseteq T, NEW s \in Seq(S)
  PROVE  s \in Seq(T)
<1>1. PICK n \in Nat : s \in [1..n -> S]
  BY SeqDef
<1>2. s \in [1..n -> T]
  BY <1>1
<1>. QED
  BY <1>2, SeqDef

(* No transaction is taken back.                                            *)
LEMMA CommittedGrows == TypeOK /\ [Next]_vars => Committed \subseteq Committed'
<1>. SUFFICES ASSUME TypeOK, [Next]_vars, NEW e \in Event, rowStatus[e] # "absent"
              PROVE  rowStatus'[e] # "absent"
  BY DEF Committed
<1>1. CASE UNCHANGED rowStatus
  BY <1>1
<1>2. ASSUME NEW f \in Event, NEW to \in {"pending", "published", "failed"},
             rowStatus' = [rowStatus EXCEPT ![f] = to]
      PROVE  rowStatus'[e] # "absent"
  BY <1>2 DEF TypeOK
<1>3. ASSUME NEW p \in Publishers, MarkPublished(p) \/ RecordFailure(p)
      PROVE  rowStatus'[e] # "absent"
  <2>1. Row(p).id \in Event
    BY <1>3, RowType DEF MarkPublished, RecordFailure, TypeOK
  <2>. QED
    BY <1>1, <1>2, <1>3, <2>1 DEF MarkPublished, RecordFailure, SetPublished, SetFailure, tableVars
<1>. QED
  BY <1>1, <1>2, <1>3 DEF Next, Progress, Enqueue, BackoffElapses, LateArrival, Forgets, ClaimDue,
     Publish, Start, Stop, Crash, tableVars, vars

(* What a publisher has in hand was committed.                              *)
LEMMA RowCommitted ==
  ASSUME TypeOK, OriginInv, NEW p \in Publishers, batch[p] # <<>>
  PROVE  Row(p).id \in Committed /\ Tail(batch[p]) \in Seq(CommittedRow)
<1>1. batch[p] \in Seq(CommittedRow)
  BY DEF OriginInv
<1>2. Head(batch[p]) \in CommittedRow /\ Tail(batch[p]) \in Seq(CommittedRow)
  BY <1>1
<1>. QED
  BY <1>2 DEF Row, CommittedRow

(* What is claimed is due, and so committed.                                *)
LEMMA ClaimCommitted ==
  ASSUME TypeOK, OriginInv, NEW p \in Publishers, ClaimDue(p)
  PROVE  batch'[p] \in Seq(CommittedRow)
<1>. DEFINE n == Smaller(BatchSize, Len(due))
<1>1. Len(due) \in Nat \ {0} /\ \A i \in 1..Len(due) : due[i] \in Committed
  BY DEF ClaimDue, OriginInv, TypeOK
<1>2. n \in Nat /\ n <= Len(due)
  BY <1>1, BudgetAssumption DEF Smaller
<1>. HIDE DEF n
<1>3. ASSUME NEW i \in 1..n
      PROVE  [id |-> due[i], attempts |-> attempts[due[i]]] \in CommittedRow
  <2>1. i \in 1..Len(due)
    BY <1>1, <1>2
  <2>2. due[i] \in Committed /\ due[i] \in Event
    BY <1>1, <2>1 DEF Committed
  <2>. QED
    BY <2>2 DEF CommittedRow, TypeOK
<1>4. [i \in 1..n |-> [id |-> due[i], attempts |-> attempts[due[i]]]] \in Seq(CommittedRow)
  <2>1. [i \in 1..n |-> [id |-> due[i], attempts |-> attempts[due[i]]]] \in [1..n -> CommittedRow]
    BY <1>3
  <2>. QED
    BY <1>2, <2>1, SeqDef
<1>. QED
  BY <1>4 DEF ClaimDue, TypeOK, n

(* Nothing is there at first.                                               *)
LEMMA InitOrigin == Init => OriginInv
  BY DEF Init, OriginInv

(* Every step preserves the origin of things.                               *)
LEMMA NextOrigin == TypeOK /\ OriginInv /\ [Next]_vars => OriginInv'
<1>. SUFFICES ASSUME TypeOK, OriginInv, [Next]_vars PROVE OriginInv'
  OBVIOUS
<1>. USE DEF tableVars, publisherVars, streamVars
<1>0. Committed \subseteq Committed' /\ CommittedRow \subseteq CommittedRow'
  BY CommittedGrows DEF CommittedRow
<1>1. /\ \A s \in Seq(Committed) : s \in Seq(Committed')
      /\ \A s \in Seq(CommittedRow) : s \in Seq(CommittedRow')
  BY <1>0, SeqGrows
<1>2. /\ due \in Seq(Committed') /\ stream \in Seq(Committed')
      /\ waiting \subseteq Committed' /\ late \subseteq Committed'
      /\ \A p \in Publishers : batch[p] \in Seq(CommittedRow')
  BY <1>0, <1>1 DEF OriginInv
<1>3. ASSUME NEW e \in Committed', NEW overtaken, JoinsDue(e, overtaken)
      PROVE  due' \in Seq(Committed')
  <2>1. PICK k \in 1..(Len(due) + 1) : due' = InsertAt(due, k, e)
    BY <1>3 DEF JoinsDue
  <2>. QED
    BY <1>2, <2>1, InsertAtElements
<1>4. ASSUME NEW e \in Committed', Store(e) PROVE stream' \in Seq(Committed')
  BY <1>2, <1>4 DEF Store
<1>5. ASSUME NEW e, NoLongerDue(e) PROVE due' \in Seq(Committed')
  BY <1>2, <1>5, RemoveAtType DEF NoLongerDue, TypeOK
<1>6. ASSUME NEW e \in Event, Enqueue(e) PROVE OriginInv'
  <2>1. e \in Committed'
    BY <1>6 DEF Enqueue, Committed, TypeOK
  <2>. QED
    BY <1>2, <1>3, <1>6, <2>1 DEF Enqueue, OriginInv
<1>7. ASSUME NEW e \in Event, BackoffElapses(e) \/ LateArrival(e) \/ Forgets(e) PROVE OriginInv'
  BY <1>2, <1>3, <1>4, <1>7 DEF BackoffElapses, LateArrival, Forgets, OriginInv
<1>8. ASSUME NEW p \in Publishers, ClaimDue(p) PROVE OriginInv'
  <2>1. batch'[p] \in Seq(CommittedRow')
    BY <1>1, <1>8, ClaimCommitted
  <2>2. \A q \in Publishers \ {p} : batch'[q] = batch[q]
    BY <1>8 DEF ClaimDue, TypeOK
  <2>. QED
    BY <1>2, <1>8, <2>1, <2>2 DEF ClaimDue, OriginInv
<1>9. ASSUME NEW p \in Publishers, pc[p] \in InHand
      PROVE  Row(p).id \in Committed' /\ Tail(batch[p]) \in Seq(CommittedRow')
  BY <1>0, <1>1, <1>9, RowCommitted DEF TypeOK
<1>10. ASSUME NEW p \in Publishers, Publish(p) PROVE OriginInv'
  <2>1. stream' \in Seq(Committed')
    BY <1>2, <1>4, <1>9, <1>10 DEF Publish
  <2>2. late' \subseteq Committed' /\ UNCHANGED <<tableVars, batch>>
    BY <1>2, <1>9, <1>10 DEF Publish, To
  <2>. QED
    BY <1>2, <2>1, <2>2 DEF OriginInv
<1>11. ASSUME NEW p \in Publishers,
              \/ batch' = [batch EXCEPT ![p] = <<>>]
              \/ /\ batch' = [batch EXCEPT ![p] = Tail(@)]
                 /\ pc[p] \in InHand
       PROVE  \A q \in Publishers : batch'[q] \in Seq(CommittedRow')
  <2>0. batch \in [Publishers -> Seq(Claimed)]
    BY DEF TypeOK
  <2>1. ASSUME NEW q \in Publishers
        PROVE  batch'[q] \in {batch[q], <<>>} \/ (q = p /\ batch'[q] = Tail(batch[q]))
    BY <1>11, <2>0
  <2>2. <<>> \in Seq(CommittedRow')
    OBVIOUS
  <2>3. batch' # [batch EXCEPT ![p] = <<>>] => Tail(batch[p]) \in Seq(CommittedRow')
    BY <1>9, <1>11
  <2>4. batch' = [batch EXCEPT ![p] = <<>>] => \A q \in Publishers : batch'[q] \in {batch[q], <<>>}
    BY <2>0
  <2>. QED
    BY <1>2, <2>1, <2>2, <2>3, <2>4
<1>12. ASSUME NEW p \in Publishers, MarkPublished(p) \/ RecordFailure(p) PROVE OriginInv'
  <2>1. pc[p] \in InHand /\ UNCHANGED <<stream, late>> /\ Row(p).id \in Committed'
    BY <1>9, <1>12 DEF MarkPublished, RecordFailure
  <2>2. due' \in Seq(Committed') /\ waiting' \subseteq Committed'
    BY <1>2, <1>5, <1>12, <2>1 DEF MarkPublished, RecordFailure, SetPublished, SetFailure
  <2>3. \A q \in Publishers : batch'[q] \in Seq(CommittedRow')
    BY <1>2, <1>11, <1>12, <2>1 DEF MarkPublished, RecordFailure, NextRow, EndDrain, To
  <2>. QED
    BY <1>2, <2>1, <2>2, <2>3 DEF OriginInv
<1>13. ASSUME NEW p \in Publishers, Start(p) \/ Stop(p) PROVE OriginInv'
  BY <1>2, <1>13 DEF Start, Stop, OriginInv
<1>14. ASSUME NEW p \in Publishers, Crash(p) PROVE OriginInv'
  BY <1>2, <1>11, <1>14 DEF Crash, OriginInv
<1>15. CASE UNCHANGED vars
  BY <1>2, <1>15 DEF vars, OriginInv
<1>. QED
  BY <1>6, <1>7, <1>8, <1>10, <1>12, <1>13, <1>14, <1>15 DEF Next, Progress

(* What is on the stream stays there.                                       *)
LEMMA StoredForGood == TypeOK /\ StoreInv /\ [Next]_vars => \A e \in Event : Stored(e) => Stored(e)'
<1>. QED
  BY StreamSteps, StoreStores, KeepsStored DEF Forgets

(* An event on the stream was committed with its transaction and stays      *)
(* there, whatever crashes, is repeated or comes late.                      *)
THEOREM NothingInvented ==
  Spec => /\ [](\A e \in Event : Stored(e) => rowStatus[e] # "absent")
          /\ [][\A e \in Event : Stored(e) => Stored(e)']_vars
<1>1. OriginInv => \A e \in Event : Stored(e) => rowStatus[e] # "absent"
  <2>. SUFFICES ASSUME stream \in Seq(Committed), NEW i \in DOMAIN stream
                PROVE  stream[i] \in Committed
    BY DEF OriginInv, Stored, Committed
  <2>. QED
    OBVIOUS
<1>. QED
  BY <1>1, InitOrigin, NextOrigin, InitStore, NextStore, StoredForGood, TypeCorrect, PTL DEF Spec

-----------------------------------------------------------------------------
(* The producer's half of EventLedger: what a step shows of the events.     *)

SameStored == \A f \in Event : Stored(f)' <=> Stored(f)

(* A step commits a new event, or resolves the pending row of one, or goes  *)
(* back to a published one, or gives up on either, or puts a committed      *)
(* event on the stream, or shows nothing.                                   *)
LedgerStep ==
  \/ \E e \in Event :
       /\ SameStored
       /\ \/ rowStatus[e] = "absent" /\ rowStatus' = [rowStatus EXCEPT ![e] = "pending"]
          \/ /\ rowStatus[e] = "pending" /\ Stored(e)
             /\ rowStatus' = [rowStatus EXCEPT ![e] = "published"]
          \/ rowStatus[e] = "published" /\ rowStatus' = [rowStatus EXCEPT ![e] = "pending"]
          \/ /\ rowStatus[e] \in {"pending", "published"}
             /\ rowStatus' = [rowStatus EXCEPT ![e] = "failed"]
  \/ \E e \in Event :
       /\ rowStatus[e] # "absent" /\ UNCHANGED rowStatus
       /\ \A f \in Event : Stored(f)' <=> Stored(f) \/ f = e
  \/ UNCHANGED rowStatus /\ SameStored

(* Storing a message adds its event to the stream and no other.             *)
LEMMA StoreAdds ==
  ASSUME TypeOK, StoreInv, NEW e \in Event, Store(e)
  PROVE  \A f : Stored(f)' <=> Stored(f) \/ f = e
<1>1. /\ Len(stream) \in Nat /\ DOMAIN stream = 1..Len(stream)
      /\ stream' \in Seq(Event) /\ DOMAIN stream' = 1..Len(stream')
  BY StoreType DEF TypeOK
<1>2. CASE e \in window /\ stream' = stream
  BY <1>2 DEF Stored, StoreInv
<1>3. CASE /\ Len(stream') = Len(stream) + 1
           /\ stream'[Len(stream) + 1] = e
           /\ \A i \in 1..Len(stream) : stream'[i] = stream[i]
  BY <1>1, <1>3 DEF Stored
<1>. QED
  BY <1>2, <1>3, StoreElements

(* With one publisher every step is a step of the ledger.                   *)
LEMMA NextLedger ==
  ASSUME OnePublisherAssumption
  PROVE  TypeOK /\ StoreInv /\ ForwardInv /\ OriginInv /\ [Next]_vars => LedgerStep
<1>. SUFFICES ASSUME TypeOK, StoreInv, ForwardInv, OriginInv, [Next]_vars
              PROVE  LedgerStep
  OBVIOUS
<1>. USE DEF tableVars, publisherVars, streamVars
<1>0. UNCHANGED stream => SameStored
  BY DEF SameStored, Stored
<1>a. ASSUME UNCHANGED <<rowStatus, stream>> PROVE LedgerStep
  BY <1>0, <1>a DEF LedgerStep
<1>b. ASSUME NEW e \in Event, rowStatus[e] # "absent", UNCHANGED rowStatus,
             Store(e)
      PROVE  LedgerStep
  BY <1>b, StoreAdds DEF LedgerStep
<1>1. ASSUME NEW e \in Event, Enqueue(e) PROVE LedgerStep
  <2>1. /\ rowStatus[e] = "absent" /\ rowStatus' = [rowStatus EXCEPT ![e] = "pending"]
        /\ SameStored
    BY <1>0, <1>1 DEF Enqueue
  <2>. QED
    BY <2>1 DEF LedgerStep
<1>2. ASSUME NEW e \in Event, BackoffElapses(e) \/ Forgets(e) PROVE LedgerStep
  BY <1>2, <1>a DEF BackoffElapses, Forgets
<1>3. ASSUME NEW e \in Event, LateArrival(e) PROVE LedgerStep
  BY <1>3, <1>b DEF LateArrival, OriginInv, Committed
<1>4. ASSUME NEW p \in Publishers, ClaimDue(p) \/ Start(p) \/ Stop(p) \/ Crash(p)
      PROVE  LedgerStep
  BY <1>4, <1>a DEF ClaimDue, Start, Stop, Crash
<1>5. ASSUME NEW p \in Publishers, pc[p] \in InHand
      PROVE  /\ Row(p).id \in Event /\ Row(p).attempts \in Nat
             /\ rowStatus[Row(p).id] \in {"pending", "published"}
             /\ pc[p] # "unsure" => rowStatus[Row(p).id] = "pending"
  <2>1. batch[p] # <<>>
    BY <1>5 DEF TypeOK
  <2>2. /\ Row(p).id \in Event /\ Row(p).attempts \in Nat
        /\ Row(p) = batch[p][1] /\ 1 \in 1..Len(batch[p])
    BY <2>1, RowType
  <2>. QED
    BY <2>2 DEF ForwardInv, BatchInv
<1>6. ASSUME NEW p \in Publishers, Publish(p) PROVE LedgerStep
  <2>. DEFINE e == Row(p).id
  <2>1. e \in Event /\ rowStatus[e] = "pending" /\ UNCHANGED rowStatus
    BY <1>5, <1>6 DEF Publish
  <2>2. CASE Store(e)
    BY <1>b, <2>1, <2>2
  <2>3. CASE UNCHANGED stream
    BY <1>a, <2>1, <2>3
  <2>. QED
    BY <1>6, <2>2, <2>3 DEF Publish
<1>7. ASSUME NEW p \in Publishers, MarkPublished(p) PROVE LedgerStep
  <2>. DEFINE e == Row(p).id
  <2>1. e \in Event /\ rowStatus[e] = "pending" /\ Stored(e) /\ SameStored
    BY <1>0, <1>5, <1>7 DEF MarkPublished, StoreInv
  <2>2. CASE rowStatus' = [rowStatus EXCEPT ![e] = "published"]
    BY <2>1, <2>2 DEF LedgerStep
  <2>. QED
    BY <1>7, <1>a, <2>2 DEF MarkPublished, SetPublished
<1>8. ASSUME NEW p \in Publishers, RecordFailure(p) PROVE LedgerStep
  <2>. DEFINE e == Row(p).id
  <2>1. /\ e \in Event /\ rowStatus[e] \in {"pending", "published"}
        /\ SameStored /\ UNCHANGED stream
    BY <1>0, <1>5, <1>8 DEF RecordFailure
  <2>2. CASE rowStatus' = [rowStatus EXCEPT ![e] = "failed"]
    BY <2>1, <2>2 DEF LedgerStep
  <2>3. CASE rowStatus' = [rowStatus EXCEPT ![e] = "pending"]
    <3>1. CASE rowStatus[e] = "pending"
      <4>1. UNCHANGED rowStatus
        BY <2>1, <2>3, <3>1 DEF TypeOK
      <4>. QED
        BY <1>a, <2>1, <4>1
    <3>2. CASE rowStatus[e] = "published"
      BY <2>1, <2>3, <3>2 DEF LedgerStep
    <3>. QED
      BY <2>1, <3>1, <3>2
  <2>. QED
    BY <1>8, <1>a, <2>1, <2>2, <2>3 DEF RecordFailure, SetFailure
<1>9. CASE UNCHANGED vars
  BY <1>9, <1>a DEF vars
<1>. QED
  BY <1>1, <1>2, <1>3, <1>4, <1>6, <1>7, <1>8, <1>9 DEF Next, Progress

(* With one publisher the outbox keeps the producer's half of the ledger:   *)
(* what is on the stream was committed and stays there, each event is       *)
(* confirmed only while it is, and one that is given up on is never         *)
(* confirmed nor tried again.                                               *)
THEOREM ProducerKeepsLedger ==
  ASSUME OnePublisherAssumption
  PROVE  Spec => /\ [](TypeOK /\ StoreInv /\ ForwardInv /\ OriginInv)
                 /\ [][LedgerStep]_vars
<1>. QED
  BY InitOrigin, NextOrigin, InitForward, NextForward, NextLedger, InitStore, NextStore, TypeCorrect,
     PTL DEF Spec
=============================================================================
