--------------------------- MODULE PipelineProofs ---------------------------
(***************************************************************************)
(* Proofs about Pipeline.  Seen by the consumer alone, the pipeline is a   *)
(* Delivery whose messages come when the outbox has stored them, so what   *)
(* was proved of Delivery holds of it; seen by the producer alone it is an *)
(* Outbox.  Both together keep the promise of EventLedger.                 *)
(***************************************************************************)
EXTENDS Pipeline, DeliveryProofs, FiniteSetTheorems

(* The theorems about Outbox, for the instance of it that Pipeline has.     *)
OP == INSTANCE OutboxProofs WITH pc <- publisher, batch <- claimed, Faults <- OutboxFaults

-----------------------------------------------------------------------------
(* The consumer.                                                            *)

(* A step of the pipeline is a step of the consumer or leaves it alone.     *)
LEMMA ConsumerSteps == [PipelineNext]_pipelineVars => [Next]_vars
<1>. SUFFICES ASSUME [PipelineNext]_pipelineVars PROVE [Next]_vars
  OBVIOUS
<1>1. CASE Produce
  BY <1>1 DEF Produce
<1>2. CASE PullStored
  BY <1>2 DEF PullStored, Next, Pull
<1>3. ASSUME NEW m \in Messages, AckWaitEnds(m) PROVE Next
  BY <1>3 DEF AckWaitEnds, Next
<1>4. ASSUME NEW w \in Workers, Consume(w) PROVE Next
  BY <1>4 DEF Consume, Next
<1>5. CASE UNCHANGED pipelineVars
  BY <1>5 DEF pipelineVars
<1>. QED
  BY <1>1, <1>2, <1>3, <1>4, <1>5 DEF PipelineNext

(* The pipeline implements Delivery (hiding the producer): the stream of    *)
(* Delivery, from which any message may be pulled at any time, is one that  *)
(* no timing of the outbox leaves.                                          *)
THEOREM ImplementsDelivery == PipelineSpec => Spec
<1>1. PipelineInit => Init
  BY DEF PipelineInit
<1>. QED
  BY <1>1, ConsumerSteps, PTL DEF PipelineSpec, Spec

(* What is acknowledged was mailed and what is terminated has its record,   *)
(* with the outbox, its duplicates and its crashes upstream, and any number *)
(* of replicas.                                                             *)
THEOREM PipelinePersistsFirst ==
  PipelineSpec => [](AckedMeansEmailed /\ TermedMeansRecorded /\ CopyMeansRecorded)
<1>. QED
  BY ImplementsDelivery, PersistFirst, PTL

(* Whatever copies of an event the outbox stores, one replica mails it at   *)
(* most once.                                                               *)
THEOREM PipelineMailsOnce ==
  ASSUME OneReplicaAssumption, NoLostAttempt
  PROVE  PipelineSpec => []MailedAtMostOnce
<1>. QED
  BY ImplementsDelivery, OneReplicaMailsOnce, PTL

(* Nothing that the outbox stores is dropped silently by the consumer.      *)
THEOREM PipelineLosesNothing ==
  ASSUME BudgetFits, StaysUp
  PROVE  PipelineSpec => []NothingDroppedSilently
<1>. QED
  BY ImplementsDelivery, NothingLost, PTL

-----------------------------------------------------------------------------
(* The producer.                                                            *)

(* The two instances of Outbox are the same: the prover sees that once the  *)
(* definitions of both are expanded.                                        *)
LEMMA SameOutbox ==
  /\ O!Init <=> OP!Init
  /\ [O!Next]_outboxVars <=> [OP!Next]_(OP!vars)
<1>. USE DEF O!Event, OP!Event, O!tableVars, OP!tableVars, O!publisherVars, OP!publisherVars,
             O!streamVars, OP!streamVars
<1>1. O!Init <=> OP!Init
  BY DEF O!Init, OP!Init
<1>. USE DEF O!Row, OP!Row, O!To, OP!To, O!Mishap, OP!Mishap, O!Try, OP!Try, O!Store, OP!Store,
             O!Smaller, OP!Smaller, O!EndDrain, OP!EndDrain
<1>a. ASSUME NEW e, NEW overtaken PROVE O!JoinsDue(e, overtaken) <=> OP!JoinsDue(e, overtaken)
  BY DEF O!JoinsDue, OP!JoinsDue, O!InsertAt, OP!InsertAt
<1>2. ASSUME NEW e
      PROVE  /\ O!Enqueue(e) <=> OP!Enqueue(e)
             /\ O!BackoffElapses(e) <=> OP!BackoffElapses(e)
             /\ O!LateArrival(e) <=> OP!LateArrival(e)
             /\ O!Forgets(e) <=> OP!Forgets(e)
  BY <1>a DEF O!Enqueue, OP!Enqueue, O!BackoffElapses, OP!BackoffElapses, O!LateArrival,
              OP!LateArrival, O!Forgets, OP!Forgets
<1>3. ASSUME NEW p
      PROVE  /\ O!ClaimDue(p) <=> OP!ClaimDue(p)
             /\ O!Publish(p) <=> OP!Publish(p)
  BY DEF O!ClaimDue, OP!ClaimDue, O!Publish, OP!Publish
<1>4. ASSUME NEW p, NEW published PROVE O!NextRow(p, published) <=> OP!NextRow(p, published)
  BY DEF O!NextRow, OP!NextRow
<1>5. ASSUME NEW e PROVE O!NoLongerDue(e) <=> OP!NoLongerDue(e)
  BY DEF O!NoLongerDue, OP!NoLongerDue, O!RemoveAt, OP!RemoveAt
<1>6. ASSUME NEW p PROVE O!MarkPublished(p) <=> OP!MarkPublished(p)
  BY <1>4, <1>5 DEF O!MarkPublished, OP!MarkPublished, O!SetPublished, OP!SetPublished
<1>7. ASSUME NEW p PROVE O!RecordFailure(p) <=> OP!RecordFailure(p)
  BY <1>4, <1>5 DEF O!RecordFailure, OP!RecordFailure, O!SetFailure, OP!SetFailure,
                    O!Exhausted, OP!Exhausted
<1>8. ASSUME NEW p
      PROVE  /\ O!Stop(p) <=> OP!Stop(p)
             /\ O!Crash(p) <=> OP!Crash(p)
             /\ O!Start(p) <=> OP!Start(p)
  BY DEF O!Stop, OP!Stop, O!Crash, OP!Crash, O!Start, OP!Start
<1>9. O!Next <=> OP!Next
  BY <1>2, <1>3, <1>6, <1>7, <1>8 DEF O!Next, OP!Next, O!Progress, OP!Progress
<1>10. UNCHANGED outboxVars <=> UNCHANGED OP!vars
  BY DEF outboxVars, OP!vars
<1>. QED
  BY <1>1, <1>9, <1>10

(* A step of the pipeline is a step of the producer or leaves it alone.     *)
LEMMA ProducerSteps == [PipelineNext]_pipelineVars => [OP!Next]_(OP!vars)
<1>1. [PipelineNext]_pipelineVars => [O!Next]_outboxVars
  BY DEF PipelineNext, Produce, PullStored, Consume, AckWaitEnds, pipelineVars
<1>. QED
  BY <1>1, SameOutbox

(* The pipeline implements Outbox (hiding the consumer).                    *)
THEOREM ImplementsOutbox == PipelineSpec => OP!Spec
<1>1. PipelineInit => OP!Init
  BY SameOutbox DEF PipelineInit
<1>. QED
  BY <1>1, ProducerSteps, PTL DEF PipelineSpec, OP!Spec

(* In front of any number of replicas, a single publisher never leaves      *)
(* 'failed', takes 'published' back only when its own markPublished threw,  *)
(* and never lowers an attempt count.                                       *)
THEOREM PipelineRowsMoveForward ==
  ASSUME OP!OnePublisherAssumption
  PROVE  PipelineSpec => RowsMoveForward
<1>1. OP!Spec => OP!RowsMoveForward
  BY OP!OnePublisherMovesForward, OutboxAssumption DEF O!Event, OP!Event, O!FaultKinds, OP!FaultKinds
<1>2. O!RowsMoveForward <=> OP!RowsMoveForward
  BY DEF O!RowsMoveForward, OP!RowsMoveForward, O!Unsure, OP!Unsure, O!Row, OP!Row,
         O!Event, OP!Event, O!vars, OP!vars, O!tableVars, OP!tableVars, O!publisherVars, OP!publisherVars, O!streamVars, OP!streamVars
<1>. QED
  BY <1>1, <1>2, ImplementsOutbox, PTL DEF RowsMoveForward

-----------------------------------------------------------------------------
(* The promise of both.                                                     *)

(* What a replica has in hand, or has mailed or parked, is on the stream.   *)
PulledInv ==
  /\ \A w \in Workers : /\ \A d \in batch[w] : O!Stored(EventOf[d.msg])
                        /\ pc[w] \in Handling => O!Stored(Ev(w))
  /\ \A d \in emails \cup records : O!Stored(EventOf[d.msg])

(* What is about to be parked was not mailed: it does not parse, and so no  *)
(* copy of it does, or every attempt at it has failed.                      *)
UnmailedInv ==
  /\ \A d \in emails : d.msg \notin Malformed
  /\ \A w \in Workers : /\ pc[w] \in Handling \ {"park", "copy"} => cur[w].msg \notin Malformed
                        /\ pc[w] \in {"retry", "park"} => EmailsFor(Ev(w)) = {}

(* A message with a first copy on the stream is an event of the stream.     *)
LEMMA OnStreamStored ==
  ASSUME NEW m \in Messages, OnStream(m)
  PROVE  O!Stored(EventOf[m])
<1>. DEFINE S == {i \in DOMAIN stream : stream[i] = EventOf[m]}
<1>1. CopyNumber[m] \in Nat \ {0} /\ Cardinality({}) = 0
  BY CopyNumberAssumption, FS_EmptySet
<1>2. S # {}
  BY <1>1 DEF OnStream
<1>. QED
  BY <1>2 DEF O!Stored

(* Nothing leaves the stream, and a pull returns what is on it.             *)
LEMMA NextPulled ==
  TypeOK /\ PulledInv /\ [PipelineNext]_pipelineVars
         /\ (\A e \in Events : O!Stored(e) => O!Stored(e)') => PulledInv'
<1>. SUFFICES ASSUME TypeOK, PulledInv, [PipelineNext]_pipelineVars,
                     \A e \in Events : O!Stored(e) => O!Stored(e)'
              PROVE  PulledInv'
  OBVIOUS
<1>0. /\ \A w \in Workers : /\ \A d \in batch[w] : EventOf[d.msg] \in Events
                            /\ pc[w] \in Handling => EventOf[cur[w].msg] \in Events
      /\ \A d \in emails \cup records : EventOf[d.msg] \in Events
  BY DeliveryFields, EventOfAssumption DEF TypeOK
<1>1. CASE UNCHANGED vars
  BY <1>0, <1>1 DEF vars, workerVars, storeVars, PulledInv, Ev
<1>2. ASSUME NEW w \in Workers, NEW S \in SUBSET {m \in Messages : OnStream(m)}, Fetch(w, S)
      PROVE  PulledInv'
  <2>1. \A m \in S : EventOf[m] \in Events /\ O!Stored(EventOf[m])
    BY OnStreamStored, EventOfAssumption
  <2>2. /\ UNCHANGED <<pc, cur, emails, records>>
        /\ \A v \in Workers : \A d \in batch'[v] : d \in batch[v] \/ d.msg \in S
    BY <1>2 DEF Fetch, TypeOK, storeVars
  <2>. QED
    BY <1>0, <2>1, <2>2 DEF PulledInv, Ev
<1>3. ASSUME NEW m \in Messages, AckWaitExpires(m) PROVE PulledInv'
  BY <1>0, <1>3 DEF AckWaitExpires, workerVars, storeVars, PulledInv, Ev
<1>4. ASSUME NEW w \in Workers, Progress(w) PROVE PulledInv'
  <2>1. /\ \A v \in Workers : batch'[v] \subseteq batch[v]
        /\ \A v \in Workers : pc'[v] \in Handling =>
             \/ pc[v] \in Handling /\ cur'[v] = cur[v]
             \/ cur'[v] \in batch[v]
    <3>1. CASE Handle(w)
      BY <3>1 DEF Handle, Ack, RetryOrPark, Park, CopyAndTerm, HandlerThrows, Claim, ReadExisting,
         Send, MarkFailed, MarkSent, Done, Goto, TypeOK, Handling, PCs
    <3>2. ASSUME NEW d \in batch[w], Begin(w, d)
          PROVE  /\ \A v \in Workers : batch'[v] \subseteq batch[v]
                 /\ \A v \in Workers : pc'[v] \in Handling =>
                      \/ pc[v] \in Handling /\ cur'[v] = cur[v]
                      \/ cur'[v] \in batch[v]
      BY <3>2 DEF Begin, TypeOK
    <3>3. CASE LoopExits(w) \/ Start(w)
      BY <3>3 DEF LoopExits, Start, TypeOK, Handling, PCs
    <3>. QED
      BY <1>4, <3>1, <3>2, <3>3 DEF Progress
  <2>2. \A d \in emails' \cup records' :
          d \in emails \cup records \/ (pc[w] \in Handling /\ d = cur[w])
    BY <1>4 DEF Progress, Handle, Ack, RetryOrPark, Park, CopyAndTerm, HandlerThrows, Claim,
       ReadExisting, Send, MarkFailed, MarkSent, Begin, LoopExits, Start, storeVars, Handling, PCs
  <2>3. \A d \in emails' \cup records' : O!Stored(EventOf[d.msg])'
    BY <1>0, <2>2 DEF PulledInv, Ev
  <2>. QED
    BY <1>0, <2>1, <2>3 DEF PulledInv, Ev
<1>. QED
  BY <1>1, <1>2, <1>3, <1>4 DEF PipelineNext, Produce, PullStored, Consume, AckWaitEnds, pipelineVars

(* A single replica parks only what it could not mail.                      *)
LEMMA NextUnmailed ==
  ASSUME OneReplicaAssumption, NoLostAttempt
  PROVE  TypeOK /\ OnceInv /\ UnmailedInv /\ [Next]_vars => UnmailedInv'
<1>. SUFFICES ASSUME TypeOK, OnceInv, UnmailedInv, [Next]_vars PROVE UnmailedInv'
  OBVIOUS
<1>. USE DEF UnmailedInv, EmailsFor, TypeOK, Ev, brokerVars, storeVars, Handling, PCs
<1>1. CASE UNCHANGED <<pc, cur, emails>>
  BY <1>1
<1>2. ASSUME NEW w \in Workers, Handle(w) PROVE UnmailedInv'
  <2>. USE DEF Goto, Done, OneReplicaAssumption, NoLostAttempt
  <2>1. CASE Ack(w) \/ RetryOrPark(w)
    BY <2>1 DEF Ack, RetryOrPark
  <2>2. CASE Park(w) \/ CopyAndTerm(w)
    BY <2>2 DEF Park, CopyAndTerm
  <2>3. CASE HandlerThrows(w)
    BY <2>3 DEF HandlerThrows
  <2>4. CASE Claim(w) \/ ReadExisting(w)
    BY <2>4 DEF Claim, ReadExisting, Verdict
  <2>5. CASE Send(w)
    BY <2>5 DEF Send
  <2>6. CASE MarkFailed(w)
    BY <2>6 DEF MarkFailed, OnceInv
  <2>7. CASE MarkSent(w)
    BY <2>7 DEF MarkSent
  <2>. QED
    BY <1>2, <2>1, <2>2, <2>3, <2>4, <2>5, <2>6, <2>7 DEF Handle
<1>3. ASSUME NEW w \in Workers, NEW d \in batch[w], Begin(w, d) PROVE UnmailedInv'
  <2>1. d \in Delivery /\ d.msg \in Messages /\ \A c \in emails : c.msg \in Messages
    BY DeliveryFields
  <2>2. d.msg \in Malformed => EmailsFor(EventOf[d.msg]) = {}
    BY <2>1, PayloadAssumption
  <2>. QED
    BY <1>3, <2>2 DEF Begin
<1>4. ASSUME NEW w \in Workers, LoopExits(w) \/ Start(w) \/ Stop(w) \/ Crash(w)
      PROVE  UnmailedInv'
  BY <1>4 DEF LoopExits, Start, Stop, Crash
<1>5. ASSUME NEW w \in Workers, NEW S \in SUBSET Messages, Fetch(w, S) PROVE UnmailedInv'
  BY <1>1, <1>5 DEF Fetch
<1>6. ASSUME NEW m \in Messages, AckWaitExpires(m) PROVE UnmailedInv'
  BY <1>1, <1>6 DEF AckWaitExpires, workerVars
<1>7. CASE UNCHANGED vars
  BY <1>1, <1>7 DEF vars, workerVars
<1>. QED
  BY <1>2, <1>3, <1>4, <1>5, <1>6, <1>7 DEF Next, Pull, Progress

(* A step of the producer is a step of the ledger.                          *)
LEMMA ProducerKeepsPromise ==
  ASSUME OP!TypeOK, OP!LedgerStep, UNCHANGED vars
  PROVE  [Ledger!Next]_(Ledger!vars)
<1>0. rowStatus \in [Events -> {"absent", "pending", "published", "failed"}]
  BY EventsAssumption DEF OP!TypeOK, O!Event, OP!Event
<1>. USE EventsAssumption DEF O!Event, OP!Event, O!Stored, OP!Stored, OP!SameStored
<1>1. UNCHANGED <<[e \in Events |-> Cardinality(EmailsFor(e))],
                  {e \in Events : \E m \in Messages : EventOf[m] = e /\ Recorded(m)}>>
  BY DEF vars, storeVars, EmailsFor, Recorded
<1>2. CASE UNCHANGED rowStatus /\ OP!SameStored
  BY <1>1, <1>2 DEF Ledger!vars
<1>3. ASSUME OP!SameStored PROVE {e \in Events : O!Stored(e)}' = {e \in Events : O!Stored(e)}
  BY <1>3
<1>4. ASSUME NEW e \in Events, NEW to \in {"pending", "published", "failed"},
             rowStatus' = [rowStatus EXCEPT ![e] = to], NEW s, s # to, s # rowStatus[e]
      PROVE  {f \in Events : rowStatus[f] = s}' = {f \in Events : rowStatus[f] = s}
  BY <1>0, <1>4
<1>5. ASSUME NEW e \in Events, OP!SameStored, rowStatus[e] = "absent",
             rowStatus' = [rowStatus EXCEPT ![e] = "pending"]
      PROVE  Ledger!Commit(e)
  <2>1. {f \in Events : rowStatus[f] # "absent"}' = {f \in Events : rowStatus[f] # "absent"} \cup {e}
    BY <1>0, <1>5
  <2>. QED
    BY <1>1, <1>3, <1>4, <1>5, <2>1 DEF Ledger!Commit
<1>6. ASSUME NEW e \in Events, OP!SameStored, rowStatus[e] = "pending", OP!Stored(e),
             rowStatus' = [rowStatus EXCEPT ![e] = "published"]
      PROVE  Ledger!Confirm(e)
  <2>1. /\ {f \in Events : rowStatus[f] # "absent"}' = {f \in Events : rowStatus[f] # "absent"}
        /\ {f \in Events : rowStatus[f] = "published"}' = {f \in Events : rowStatus[f] = "published"} \cup {e}
    BY <1>0, <1>6
  <2>. QED
    BY <1>1, <1>3, <1>4, <1>6, <2>1 DEF Ledger!Confirm
<1>7. ASSUME NEW e \in Events, OP!SameStored, rowStatus[e] \in {"pending", "published"},
             rowStatus' = [rowStatus EXCEPT ![e] = "failed"]
      PROVE  Ledger!GiveUp(e)
  <2>1. /\ {f \in Events : rowStatus[f] # "absent"}' = {f \in Events : rowStatus[f] # "absent"}
        /\ {f \in Events : rowStatus[f] = "failed"}' = {f \in Events : rowStatus[f] = "failed"} \cup {e}
        /\ {f \in Events : rowStatus[f] = "published"}' = {f \in Events : rowStatus[f] = "published"} \ {e}
    BY <1>0, <1>7
  <2>. QED
    BY <1>1, <1>3, <1>7, <2>1 DEF Ledger!GiveUp
<1>9. ASSUME NEW e \in Events, OP!SameStored, rowStatus[e] = "published",
             rowStatus' = [rowStatus EXCEPT ![e] = "pending"]
      PROVE  Ledger!Retract(e)
  <2>1. /\ {f \in Events : rowStatus[f] # "absent"}' = {f \in Events : rowStatus[f] # "absent"}
        /\ {f \in Events : rowStatus[f] = "published"}' = {f \in Events : rowStatus[f] = "published"} \ {e}
    BY <1>0, <1>9
  <2>. QED
    BY <1>1, <1>3, <1>4, <1>9, <2>1 DEF Ledger!Retract
<1>8. ASSUME NEW e \in Events, rowStatus[e] # "absent", UNCHANGED rowStatus,
             \A f \in Events : OP!Stored(f)' <=> OP!Stored(f) \/ f = e
      PROVE  Ledger!Store(e)
  BY <1>1, <1>8 DEF Ledger!Store
<1>. QED
  BY <1>2, <1>5, <1>6, <1>7, <1>8, <1>9 DEF OP!LedgerStep, Ledger!Next

(* A step of the consumer is a step of the ledger: it mails an event that   *)
(* nobody has mailed, or parks one that will not be, or shows nothing.      *)
LEMMA ConsumerKeepsPromise ==
  ASSUME OneReplicaAssumption, NoLostAttempt,
         TypeOK, OnceInv, PulledInv, UnmailedInv, [Next]_vars, UNCHANGED outboxVars
  PROVE  [Ledger!Next]_(Ledger!vars)
<1>1. UNCHANGED <<rowStatus, stream>>
  BY DEF outboxVars
<1>2. ASSUME UNCHANGED emails
      PROVE  UNCHANGED [e \in Events |-> Cardinality(EmailsFor(e))]
  BY <1>2 DEF EmailsFor
<1>3. ASSUME UNCHANGED records
      PROVE  UNCHANGED {e \in Events : \E m \in Messages : EventOf[m] = e /\ Recorded(m)}
  BY <1>3 DEF Recorded
<1>4. CASE UNCHANGED <<emails, records>>
  BY <1>1, <1>2, <1>3, <1>4 DEF Ledger!vars, O!Stored
<1>5. ASSUME NEW w \in Workers, pc[w] \in Handling
      PROVE  cur[w] \in Delivery /\ cur[w].msg \in Messages /\ Ev(w) \in Events /\ O!Stored(Ev(w))
  BY <1>5, DeliveryFields, EvType DEF TypeOK, PulledInv
<1>6. ASSUME NEW w \in Workers, Send(w) PROVE [Ledger!Next]_(Ledger!vars)
  <2>1. pc[w] = "send" /\ pc[w] \in Handling /\ EmailsFor(Ev(w)) = {} /\ UNCHANGED records
    BY <1>6 DEF Send, OnceInv, Handling, PCs
  <2>2. CASE emails' = emails \cup {cur[w]}
    <3>0. PICK e : e = Ev(w)
      OBVIOUS
    <3>1. e \in Events /\ O!Stored(e) /\ EventOf[cur[w].msg] = e
      BY <1>5, <2>1, <3>0 DEF Ev
    <3>2. /\ EmailsFor(e)' = {cur[w]}
          /\ \A f \in Events \ {e} : EmailsFor(f)' = EmailsFor(f)
      BY <2>1, <2>2, <3>0, <3>1 DEF EmailsFor
    <3>3. Cardinality(EmailsFor(e)) = 0 /\ Cardinality(EmailsFor(e)') = 1
      BY <2>1, <3>0, <3>2, FS_EmptySet, FS_Singleton
    <3>4. [f \in Events |-> Cardinality(EmailsFor(f))]'
            = [[f \in Events |-> Cardinality(EmailsFor(f))] EXCEPT ![e] = 1]
      BY <3>1, <3>2, <3>3
    <3>5. Ledger!Mail(e)
      BY <1>1, <1>3, <2>1, <3>1, <3>3, <3>4 DEF Ledger!Mail, O!Stored
    <3>. QED
      BY <3>1, <3>5 DEF Ledger!Next
  <2>. QED
    BY <1>4, <1>6, <2>1, <2>2 DEF Send
<1>7. ASSUME NEW w \in Workers, Park(w) PROVE [Ledger!Next]_(Ledger!vars)
  <2>1. pc[w] = "park" /\ pc[w] \in Handling /\ EmailsFor(Ev(w)) = {} /\ UNCHANGED emails
    BY <1>7 DEF Park, UnmailedInv, Handling, PCs
  <2>2. CASE records' = records \cup {cur[w]}
    <3>0. PICK e : e = Ev(w)
      OBVIOUS
    <3>1. e \in Events /\ O!Stored(e) /\ cur[w].msg \in Messages /\ EventOf[cur[w].msg] = e
      BY <1>5, <2>1, <3>0 DEF Ev
    <3>2. \A m \in Messages : Recorded(m)' <=> Recorded(m) \/ m = cur[w].msg
      BY <2>2 DEF Recorded
    <3>3. {f \in Events : \E m \in Messages : EventOf[m] = f /\ Recorded(m)}'
            = {f \in Events : \E m \in Messages : EventOf[m] = f /\ Recorded(m)} \cup {e}
      BY <3>1, <3>2
    <3>4. [f \in Events |-> Cardinality(EmailsFor(f))][e] = 0
      BY <2>1, <3>0, <3>1, FS_EmptySet
    <3>5. Ledger!Park(e)
      BY <1>1, <1>2, <2>1, <3>1, <3>3, <3>4 DEF Ledger!Park, O!Stored
    <3>. QED
      BY <3>1, <3>5 DEF Ledger!Next
  <2>. QED
    BY <1>4, <1>7, <2>1, <2>2 DEF Park
<1>8. ASSUME NEW w \in Workers, Handle(w) PROVE [Ledger!Next]_(Ledger!vars)
  BY <1>4, <1>6, <1>7, <1>8 DEF Handle, Ack, RetryOrPark, CopyAndTerm, HandlerThrows, Claim,
     ReadExisting, MarkFailed, MarkSent, storeVars
<1>9. CASE UNCHANGED storeVars
  BY <1>4, <1>9 DEF storeVars
<1>. QED
  BY <1>8, <1>9 DEF Next, Pull, Progress, Fetch, AckWaitExpires, Begin, LoopExits, Start, Stop,
     Crash, vars

(* Nothing is committed, stored or mailed at first.                         *)
LEMMA InitPromise == PipelineInit => Ledger!Init /\ PulledInv /\ UnmailedInv
<1>. SUFFICES ASSUME PipelineInit PROVE Ledger!Init /\ PulledInv /\ UnmailedInv
  OBVIOUS
<1>1. /\ \A e \in Events : rowStatus[e] = "absent" /\ ~O!Stored(e)
      /\ \A e : EmailsFor(e) = {}
      /\ \A m : ~Recorded(m)
  BY EventsAssumption DEF PipelineInit, O!Init, O!Event, O!Stored, Init, EmailsFor, Recorded
<1>2. Ledger!Init
  BY <1>1, FS_EmptySet DEF Ledger!Init
<1>3. PulledInv /\ UnmailedInv
  BY DEF PipelineInit, Init, PulledInv, UnmailedInv, Handling, PCs
<1>. QED
  BY <1>2, <1>3

(* With one publisher and one replica the two services keep the promise of  *)
(* EventLedger, whatever the broker, the tables, the mail server and the    *)
(* processes of the User Service do, a write that takes effect and throws   *)
(* included: an event reaches the stream only after its transaction, is     *)
(* confirmed only while the stream has it, is never tried again once it is  *)
(* given up on, and is mailed at most once and never parked after that.     *)
THEOREM PromiseKept ==
  ASSUME OP!OnePublisherAssumption, OneReplicaAssumption, NoLostAttempt
  PROVE  PipelineSpec => KeepsPromise
<1>. DEFINE PInv == OP!TypeOK /\ OP!StoreInv /\ OP!ForwardInv /\ OP!OriginInv
            CInv == TypeOK /\ OnceInv /\ PulledInv /\ UnmailedInv
<1>1. OP!Spec => []PInv /\ [][OP!LedgerStep]_(OP!vars)
  BY OP!ProducerKeepsLedger, OutboxAssumption DEF O!Event, OP!Event, O!FaultKinds, OP!FaultKinds
<1>2. PipelineInit => CInv
  BY InitType, InitOnce, InitPromise DEF PipelineInit
<1>3. CInv /\ [PipelineNext]_pipelineVars /\ [OP!LedgerStep]_(OP!vars) => CInv'
  <2>. SUFFICES ASSUME CInv, [PipelineNext]_pipelineVars, [OP!LedgerStep]_(OP!vars) PROVE CInv'
    OBVIOUS
  <2>1. \A e \in Events : O!Stored(e) => O!Stored(e)'
    BY EventsAssumption DEF O!Event, OP!Event, OP!LedgerStep, OP!SameStored, O!Stored, OP!Stored, OP!vars, OP!streamVars
  <2>. QED
    BY <2>1, ConsumerSteps, NextType, NextOnce, NextUnmailed, NextPulled
<1>4. PInv /\ CInv /\ [PipelineNext]_pipelineVars /\ [OP!LedgerStep]_(OP!vars)
        => [Ledger!Next]_(Ledger!vars)
  <2>. SUFFICES ASSUME PInv, CInv, [PipelineNext]_pipelineVars, [OP!LedgerStep]_(OP!vars)
                PROVE  [Ledger!Next]_(Ledger!vars)
    OBVIOUS
  <2>1. CASE UNCHANGED outboxVars
    BY <2>1, ConsumerSteps, ConsumerKeepsPromise
  <2>2. CASE OP!LedgerStep /\ UNCHANGED vars
    BY <2>2, ProducerKeepsPromise
  <2>3. UNCHANGED OP!vars => UNCHANGED outboxVars
    BY DEF OP!vars, OP!tableVars, OP!publisherVars, OP!streamVars, outboxVars
  <2>. QED
    BY <2>1, <2>2, <2>3 DEF PipelineNext, Produce, PullStored, Consume, AckWaitEnds, pipelineVars
<1>. QED
  BY <1>1, <1>2, <1>3, <1>4, InitPromise, ImplementsOutbox, PTL DEF PipelineSpec, KeepsPromise, Ledger!Spec

(* No phantom mail: an event that was mailed or parked was published, and   *)
(* so its transaction committed, whatever number of publishers and replicas *)
(* there is and whatever faults they meet.                                  *)
ReachedSomeone(e) == EmailsFor(e) # {} \/ \E m \in Messages : EventOf[m] = e /\ Recorded(m)
NoPhantom == \A e \in Events : ReachedSomeone(e) => O!Stored(e) /\ rowStatus[e] # "absent"

THEOREM NoPhantomMail == PipelineSpec => []NoPhantom
<1>. DEFINE Committed   == \A e \in Events : O!Stored(e) => rowStatus[e] # "absent"
            StaysStored == \A e \in Events : O!Stored(e) => O!Stored(e)'
<1>1. OP!Spec => []Committed /\ [][StaysStored]_(OP!vars)
  <2>. USE EventsAssumption DEF O!Event, OP!Event, O!Stored, OP!Stored
  <2>1. OP!Spec => /\ [](\A e \in OP!Event : OP!Stored(e) => rowStatus[e] # "absent")
                   /\ [][\A e \in OP!Event : OP!Stored(e) => OP!Stored(e)']_(OP!vars)
    BY OP!NothingInvented, OutboxAssumption DEF O!FaultKinds, OP!FaultKinds
  <2>2. (\A e \in OP!Event : OP!Stored(e) => rowStatus[e] # "absent") => Committed
    OBVIOUS
  <2>3. (\A e \in OP!Event : OP!Stored(e) => OP!Stored(e)') => StaysStored
    OBVIOUS
  <2>. QED
    BY <2>1, <2>2, <2>3, PTL
<1>2. PulledInv /\ TypeOK /\ [PipelineNext]_pipelineVars /\ [StaysStored]_(OP!vars) => PulledInv'
  <2>1. UNCHANGED OP!vars => StaysStored
    BY DEF OP!vars, OP!streamVars, O!Stored
  <2>. QED
    BY <2>1, NextPulled
<1>3. PulledInv /\ Committed => NoPhantom
  <2>. SUFFICES ASSUME PulledInv, NEW e \in Events, ReachedSomeone(e) PROVE O!Stored(e)
    BY DEF NoPhantom
  <2>1. PICK d \in emails \cup records : EventOf[d.msg] = e
    BY DEF ReachedSomeone, EmailsFor, Recorded
  <2>. QED
    BY <2>1 DEF PulledInv
<1>4. PipelineInit => PulledInv
  BY InitPromise
<1>. QED
  BY <1>1, <1>2, <1>3, <1>4, ImplementsOutbox, ImplementsDelivery, TypeCorrect, PTL DEF PipelineSpec
=============================================================================
