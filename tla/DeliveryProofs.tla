--------------------------- MODULE DeliveryProofs ---------------------------
(* Proofs about Delivery, for every set of replicas, messages and events,   *)
(* every budget and every set of faults.                                    *)
EXTENDS Delivery, TLAPS

-----------------------------------------------------------------------------
(* Type correctness.                                                        *)

(* A delivery names a message and carries a delivery count in range.        *)
LEMMA DeliveryFields ==
  ASSUME NEW d \in Delivery
  PROVE  d.msg \in Messages /\ d.n \in 1..BrokerMaxDeliver
  BY DEF Delivery

(* A replica inside handle() works on a message of some event.              *)
LEMMA EvType ==
  ASSUME NEW w \in Workers, cur[w] \in Delivery
  PROVE  Ev(w) \in Events
  BY DeliveryFields, EventOfAssumption DEF Ev

(* The initial state is well typed.                                         *)
LEMMA InitType == Init => TypeOK
  BY BudgetAssumption, FaultAssumption
     DEF Init, TypeOK, PCs, Handling

(* An acknowledgement, lost or not, leaves a status.                        *)
LEMMA ReplyType ==
  ASSUME TypeOK, NEW m, NEW from,
         NEW to \in {"ready", "acked", "termed"}, Reply(m, from, to)
  PROVE  status' \in [Messages -> {"ready", "outstanding", "acked", "termed"}]
  BY DEF Reply, TypeOK

(* A fetch counts a delivery only of messages with deliveries left.         *)
LEMMA FetchType ==
  ASSUME TypeOK, NEW w \in Workers, NEW S \in SUBSET Messages, Fetch(w, S)
  PROVE  TypeOK'
<1>1. status' \in [Messages -> {"ready", "outstanding", "acked", "termed"}]
  BY DEF Fetch, TypeOK
<1>2. deliveries' \in [Messages -> 0..BrokerMaxDeliver]
  BY BudgetAssumption DEF Fetch, TypeOK, Spent
<1>3. {[msg |-> m, n |-> deliveries[m] + 1] : m \in S} \in SUBSET Delivery
  <2>1. ASSUME NEW m \in S
        PROVE  [msg |-> m, n |-> deliveries[m] + 1] \in Delivery
    <3>1. m \in Messages /\ deliveries[m] \in 0..BrokerMaxDeliver /\ ~Spent(m)
      BY DEF Fetch, TypeOK
    <3>2. deliveries[m] + 1 \in 1..BrokerMaxDeliver
      BY <3>1, BudgetAssumption DEF Spent
    <3>. QED
      BY <3>1, <3>2 DEF Delivery
  <2>. QED
    BY <2>1
<1>4. batch' \in [Workers -> SUBSET Delivery]
  BY <1>3 DEF Fetch, TypeOK
<1>. QED
  BY <1>1, <1>2, <1>4 DEF Fetch, TypeOK, storeVars

(* No step of handle() or of the handler disturbs a type.                   *)
LEMMA HandleType ==
  ASSUME TypeOK, NEW w \in Workers, Handle(w)
  PROVE  TypeOK'
<1>. USE DEF Goto, Done, brokerVars, storeVars, PCs, Handling
<1>0. pc[w] \in Handling => cur[w] \in Delivery
  BY DEF TypeOK
<1>1. CASE Ack(w)
  BY <1>1, ReplyType DEF Ack, TypeOK
<1>2. CASE RetryOrPark(w)
  BY <1>2, ReplyType DEF RetryOrPark, TypeOK
<1>3. CASE Park(w)
  BY <1>3, <1>0, ReplyType DEF Park, TypeOK
<1>4. CASE CopyAndTerm(w)
  BY <1>4, <1>0, ReplyType, DeliveryFields DEF CopyAndTerm, TypeOK
<1>5. CASE HandlerThrows(w)
  BY <1>5, <1>0, EvType DEF HandlerThrows, InsertRow, InsertedStatus, UpdateRow, TypeOK
<1>6. CASE Claim(w)
  BY <1>6, <1>0, EvType DEF Claim, TypeOK, InsertRow, InsertedStatus
<1>7. CASE ReadExisting(w)
  BY <1>7 DEF ReadExisting, TypeOK, Verdict
<1>8. CASE Send(w)
  BY <1>8, <1>0 DEF Send, TypeOK
<1>9. CASE MarkFailed(w)
  BY <1>9, <1>0, EvType DEF MarkFailed, UpdateRow, TypeOK
<1>10. CASE MarkSent(w)
  BY <1>10, <1>0, EvType DEF MarkSent, UpdateRow, TypeOK
<1>. QED
  BY <1>1, <1>2, <1>3, <1>4, <1>5, <1>6, <1>7, <1>8, <1>9, <1>10 DEF Handle

(* Taking a delivery out of the batch keeps both typed.                     *)
LEMMA BeginType ==
  ASSUME TypeOK, NEW w \in Workers, NEW d \in batch[w], Begin(w, d)
  PROVE  TypeOK'
<1>1. d \in Delivery /\ batch[w] \ {d} \in SUBSET Delivery
  BY DEF TypeOK
<1>. QED
  BY <1>1 DEF Begin, TypeOK, PCs, Handling, brokerVars, storeVars

(* Stopping, crashing and starting keep the types, and the bound on downs.  *)
LEMMA LifecycleType ==
  ASSUME TypeOK, NEW w \in Workers,
         LoopExits(w) \/ Start(w) \/ Stop(w) \/ Crash(w)
  PROVE  TypeOK'
<1>. USE DEF PCs, Handling, brokerVars, storeVars
<1>1. CASE LoopExits(w)
  BY <1>1 DEF LoopExits, TypeOK
<1>2. CASE Start(w)
  BY <1>2 DEF Start, TypeOK
<1>3. CASE Stop(w)
  BY <1>3, FaultAssumption DEF Stop, TypeOK
<1>4. CASE Crash(w)
  BY <1>4, FaultAssumption DEF Crash, TypeOK
<1>. QED
  BY <1>1, <1>2, <1>3, <1>4

(* Every step preserves type correctness.                                   *)
LEMMA NextType == TypeOK /\ [Next]_vars => TypeOK'
<1>. SUFFICES ASSUME TypeOK, [Next]_vars PROVE TypeOK'
  OBVIOUS
<1>1. CASE Pull
  BY <1>1, FetchType DEF Pull
<1>2. ASSUME NEW m \in Messages, AckWaitExpires(m) PROVE TypeOK'
  BY <1>2 DEF AckWaitExpires, TypeOK, workerVars, storeVars
<1>3. ASSUME NEW w \in Workers, Progress(w) \/ Stop(w) \/ Crash(w) PROVE TypeOK'
  BY <1>3, HandleType, BeginType, LifecycleType DEF Progress
<1>4. CASE UNCHANGED vars
  BY <1>4 DEF vars, brokerVars, workerVars, storeVars, TypeOK
<1>. QED
  BY <1>1, <1>2, <1>3, <1>4 DEF Next

(* The broker's counters, the replicas and the tables stay well formed: in  *)
(* particular no message is delivered more than max_deliver times.          *)
THEOREM TypeCorrect == Spec => []TypeOK
<1>. QED
  BY InitType, NextType, PTL DEF Spec

-----------------------------------------------------------------------------
(* Persist first, settle second.  The three invariants are not inductive:   *)
(* they need to know what a replica has done by the time it acknowledges,   *)
(* copies or confirms, and that a 'sent' row stands for a mail.             *)

ReplicaPersist(w) ==
  /\ pc[w] = "confirm" => cur[w] \in emails
  /\ pc[w] = "ack"     => EmailsFor(Ev(w)) # {}
  /\ pc[w] = "copy"    => cur[w] \in records

PersistInv ==
  /\ AckedMeansEmailed
  /\ TermedMeansRecorded
  /\ CopyMeansRecorded
  /\ \A e \in Events : row[e] = "sent" => EmailsFor(e) # {}
  /\ \A w \in Workers : ReplicaPersist(w)

(* Nothing is acknowledged, terminated or copied at first.                  *)
LEMMA InitPersist == Init => PersistInv
  BY DEF Init, PersistInv, AckedMeansEmailed, TermedMeansRecorded, CopyMeansRecorded,
         ReplicaPersist

(* Every step of handle() writes the mail or the record before it replies.  *)
LEMMA HandlePersist ==
  ASSUME TypeOK, PersistInv, NEW w \in Workers, Handle(w)
  PROVE  PersistInv'
<1>. USE DEF PersistInv, AckedMeansEmailed, TermedMeansRecorded, CopyMeansRecorded,
             ReplicaPersist, EmailsFor, Recorded,
             TypeOK, Goto, Done, Reply, brokerVars, storeVars, Ev, Handling, PCs
<1>0. pc[w] \in Handling => cur[w] \in Delivery /\ cur[w].msg \in Messages
  BY DeliveryFields
<1>1. CASE Ack(w)
  BY <1>0, <1>1 DEF Ack
<1>2. CASE RetryOrPark(w)
  BY <1>0, <1>2 DEF RetryOrPark
<1>3. CASE Park(w)
  BY <1>0, <1>3 DEF Park
<1>4. CASE CopyAndTerm(w)
  BY <1>0, <1>4 DEF CopyAndTerm
<1>5. CASE HandlerThrows(w)
  BY <1>0, <1>5 DEF HandlerThrows, InsertRow, InsertedStatus, UpdateRow
<1>6. CASE Claim(w)
  BY <1>0, <1>6 DEF Claim, InsertRow, InsertedStatus
<1>7. CASE ReadExisting(w)
  BY <1>0, <1>7, EventOfAssumption DEF ReadExisting, Verdict
<1>8. CASE Send(w)
  BY <1>0, <1>8 DEF Send
<1>9. CASE MarkFailed(w)
  BY <1>0, <1>9 DEF MarkFailed, UpdateRow
<1>10. CASE MarkSent(w)
  BY <1>0, <1>10 DEF MarkSent, UpdateRow
<1>. QED
  BY <1>1, <1>2, <1>3, <1>4, <1>5, <1>6, <1>7, <1>8, <1>9, <1>10 DEF Handle

(* Every step preserves the persist-first invariant.                        *)
LEMMA NextPersist == TypeOK /\ PersistInv /\ [Next]_vars => PersistInv'
<1>. SUFFICES ASSUME TypeOK, PersistInv, [Next]_vars PROVE PersistInv'
  OBVIOUS
<1>1. ASSUME NEW w \in Workers, Handle(w) PROVE PersistInv'
  BY <1>1, HandlePersist
<1>. USE DEF PersistInv, AckedMeansEmailed, TermedMeansRecorded, CopyMeansRecorded,
             ReplicaPersist, EmailsFor, Recorded, TypeOK, storeVars, brokerVars, Ev
<1>2. ASSUME NEW w \in Workers, NEW S \in SUBSET Messages, Fetch(w, S) PROVE PersistInv'
  BY <1>2 DEF Fetch
<1>3. ASSUME NEW m \in Messages, AckWaitExpires(m) PROVE PersistInv'
  BY <1>3 DEF AckWaitExpires, workerVars
<1>4. ASSUME NEW w \in Workers, NEW d \in batch[w], Begin(w, d) PROVE PersistInv'
  BY <1>4 DEF Begin
<1>5. ASSUME NEW w \in Workers, LoopExits(w) \/ Start(w) PROVE PersistInv'
  BY <1>5 DEF LoopExits, Start
<1>6. ASSUME NEW w \in Workers, Stop(w) \/ Crash(w) PROVE PersistInv'
  BY <1>6 DEF Stop, Crash
<1>7. CASE UNCHANGED vars
  BY <1>7 DEF vars, workerVars
<1>. QED
  BY <1>1, <1>2, <1>3, <1>4, <1>5, <1>6, <1>7 DEF Next, Pull, Progress

(* Whatever the replicas, the broker and the network do: an acknowledged    *)
(* message was mailed, a terminated one has its dead-letter row, and so has *)
(* every copy on the DLQ stream.                                            *)
THEOREM PersistFirst ==
  Spec => [](AckedMeansEmailed /\ TermedMeansRecorded /\ CopyMeansRecorded)
<1>1. PersistInv => AckedMeansEmailed /\ TermedMeansRecorded /\ CopyMeansRecorded
  BY DEF PersistInv
<1>. QED
  BY <1>1, InitPersist, NextPersist, TypeCorrect, PTL DEF Spec

-----------------------------------------------------------------------------
(* A delivered event stays delivered.                                       *)

(* No step of handle() sends, or fails, an event that is delivered.         *)
LEMMA HandleDelivered ==
  ASSUME TypeOK, NEW w \in Workers, Handle(w), NEW e \in Events, Delivered(e)
  PROVE  Delivered(e)' /\ EmailsFor(e)' = EmailsFor(e)
<1>. USE DEF Delivered, InFlight, EmailsFor, TypeOK, Goto, Done, brokerVars, storeVars,
             Ev, Handling, PCs
<1>0. pc[w] \in Handling => cur[w] \in Delivery /\ cur[w].msg \in Messages
  BY DeliveryFields
<1>1. CASE Ack(w) \/ RetryOrPark(w)
  BY <1>1 DEF Ack, RetryOrPark
<1>2. CASE Park(w) \/ CopyAndTerm(w)
  BY <1>2 DEF Park, CopyAndTerm
<1>3. CASE HandlerThrows(w)
  BY <1>0, <1>3, EventOfAssumption DEF HandlerThrows, InsertRow, UpdateRow
<1>4. CASE Claim(w)
  BY <1>0, <1>4, EventOfAssumption DEF Claim, InsertRow
<1>5. CASE ReadExisting(w)
  BY <1>5 DEF ReadExisting, Verdict
<1>6. CASE Send(w)
  BY <1>0, <1>6 DEF Send
<1>7. CASE MarkFailed(w)
  BY <1>0, <1>7, EventOfAssumption DEF MarkFailed, UpdateRow
<1>8. CASE MarkSent(w)
  BY <1>0, <1>8, EventOfAssumption DEF MarkSent, UpdateRow
<1>. QED
  BY <1>1, <1>2, <1>3, <1>4, <1>5, <1>6, <1>7, <1>8 DEF Handle

(* No step at all takes a delivered event back.                             *)
LEMMA NextDelivered ==
  TypeOK /\ [Next]_vars =>
    [\A e \in Events : Delivered(e) => Delivered(e)' /\ EmailsFor(e)' = EmailsFor(e)]_vars
<1>. SUFFICES ASSUME TypeOK, [Next]_vars, NEW e \in Events, Delivered(e)
              PROVE  Delivered(e)' /\ EmailsFor(e)' = EmailsFor(e)
  OBVIOUS
<1>1. ASSUME NEW w \in Workers, Handle(w)
      PROVE  Delivered(e)' /\ EmailsFor(e)' = EmailsFor(e)
  BY <1>1, HandleDelivered
<1>. USE DEF Delivered, InFlight, EmailsFor, TypeOK, Ev, brokerVars, storeVars
<1>2. ASSUME NEW w \in Workers, NEW S \in SUBSET Messages, Fetch(w, S)
      PROVE  Delivered(e)' /\ EmailsFor(e)' = EmailsFor(e)
  BY <1>2 DEF Fetch
<1>3. ASSUME NEW m \in Messages, AckWaitExpires(m)
      PROVE  Delivered(e)' /\ EmailsFor(e)' = EmailsFor(e)
  BY <1>3 DEF AckWaitExpires, workerVars
<1>4. ASSUME NEW w \in Workers, NEW d \in batch[w], Begin(w, d)
      PROVE  Delivered(e)' /\ EmailsFor(e)' = EmailsFor(e)
  BY <1>4 DEF Begin
<1>5. ASSUME NEW w \in Workers, LoopExits(w) \/ Start(w) \/ Stop(w) \/ Crash(w)
      PROVE  Delivered(e)' /\ EmailsFor(e)' = EmailsFor(e)
  BY <1>5 DEF LoopExits, Start, Stop, Crash
<1>6. CASE UNCHANGED vars
  BY <1>6 DEF vars, workerVars
<1>. QED
  BY <1>1, <1>2, <1>3, <1>4, <1>5, <1>6 DEF Next, Pull, Progress

(* Once an event is delivered and no attempt at it is under way, no step of *)
(* any replica, nor any crash, redelivery or duplicate, mails it again or   *)
(* takes its row back from 'sent'.                                          *)
THEOREM DeliveredOnceForAll == Spec => DeliveredForGood
<1>. QED
  BY TypeCorrect, NextDelivered, PTL DEF Spec, DeliveredForGood

-----------------------------------------------------------------------------
(* One replica mails every event at most once.                              *)

OneReplicaAssumption == \A v, w \in Workers : v = w
NoLostAttempt == {"crash", "db", "ambiguous"} \cap Faults = {}

(* With a single replica there is at most one attempt at a time, so between *)
(* claim() and the end of the attempt the row tells whether a mail is out.  *)
OnceInv ==
  /\ MailedAtMostOnce
  /\ \A e \in Events : row[e] # "sent" =>
       EmailsFor(e) = {} \/ \E w \in Workers : pc[w] = "confirm" /\ Ev(w) = e
  /\ \A w \in Workers : pc[w] \in {"send", "failTransient", "failPermanent"} =>
       EmailsFor(Ev(w)) = {}
  /\ \A w \in Workers : pc[w] \in {"read", "send", "failTransient", "failPermanent", "confirm"} =>
       row[Ev(w)] # "absent"

(* Nothing is mailed at first.                                              *)
LEMMA InitOnce == Init => OnceInv
  BY DEF Init, OnceInv, MailedAtMostOnce, EmailsFor

(* The one replica sends only from the row it found unsent, and once.       *)
LEMMA HandleOnce ==
  ASSUME TypeOK, OnceInv, OneReplicaAssumption, NoLostAttempt,
         NEW w \in Workers, Handle(w)
  PROVE  OnceInv'
<1>. USE DEF OnceInv, MailedAtMostOnce, EmailsFor, TypeOK, Goto, Done, brokerVars,
             storeVars, Ev, Handling, PCs, OneReplicaAssumption, NoLostAttempt
<1>0. pc[w] \in Handling => /\ cur[w] \in Delivery
                            /\ cur[w].msg \in Messages
                            /\ Ev(w) \in Events
  BY DeliveryFields, EventOfAssumption
<1>1. CASE Ack(w) \/ RetryOrPark(w)
  BY <1>1 DEF Ack, RetryOrPark
<1>2. CASE Park(w) \/ CopyAndTerm(w)
  BY <1>2 DEF Park, CopyAndTerm
<1>3. CASE HandlerThrows(w)
  BY <1>3 DEF HandlerThrows
<1>4. CASE Claim(w)
  BY <1>0, <1>4 DEF Claim, InsertRow, InsertedStatus
<1>5. CASE ReadExisting(w)
  BY <1>0, <1>5 DEF ReadExisting, Verdict
<1>6. CASE Send(w)
  <2>1. /\ pc[w] = "send" /\ UNCHANGED <<row, cur>>
        /\ \A v \in Workers : v = w
        /\ \A d \in emails : EventOf[d.msg] # Ev(w)
        /\ row[Ev(w)] # "absent"
    BY <1>6 DEF Send
  <2>2. \/ emails' = emails \cup {cur[w]} /\ pc'[w] = "confirm"
        \/ emails' = emails /\ pc'[w] \in {"failTransient", "failPermanent"}
    BY <1>6 DEF Send
  <2>3. MailedAtMostOnce'
    BY <2>1, <2>2
  <2>4. \A v \in Workers : pc'[v] \in {"send", "failTransient", "failPermanent"} =>
          EmailsFor(Ev(v))' = {}
    BY <2>1, <2>2
  <2>5. ASSUME NEW e \in Events, row'[e] # "sent"
        PROVE  EmailsFor(e)' = {} \/ (pc'[w] = "confirm" /\ Ev(w)' = e)
    BY <1>0, <2>1, <2>2, <2>5
  <2>. QED
    BY <2>1, <2>2, <2>3, <2>4, <2>5
<1>7. CASE MarkFailed(w)
  BY <1>0, <1>7 DEF MarkFailed, UpdateRow
<1>8. CASE MarkSent(w)
  BY <1>0, <1>8 DEF MarkSent, UpdateRow
<1>. QED
  BY <1>1, <1>2, <1>3, <1>4, <1>5, <1>6, <1>7, <1>8 DEF Handle

(* Every step preserves the once-only invariant.                            *)
LEMMA NextOnce ==
  ASSUME OneReplicaAssumption, NoLostAttempt
  PROVE  TypeOK /\ OnceInv /\ [Next]_vars => OnceInv'
<1>. SUFFICES ASSUME TypeOK, OnceInv, [Next]_vars PROVE OnceInv'
  OBVIOUS
<1>1. ASSUME NEW w \in Workers, Handle(w) PROVE OnceInv'
  BY <1>1, HandleOnce
<1>. USE DEF OnceInv, MailedAtMostOnce, EmailsFor, TypeOK, Ev, brokerVars, storeVars
<1>2. ASSUME NEW w \in Workers, NEW S \in SUBSET Messages, Fetch(w, S) PROVE OnceInv'
  BY <1>2 DEF Fetch
<1>3. ASSUME NEW m \in Messages, AckWaitExpires(m) PROVE OnceInv'
  BY <1>3 DEF AckWaitExpires, workerVars
<1>4. ASSUME NEW w \in Workers, NEW d \in batch[w], Begin(w, d) PROVE OnceInv'
  BY <1>4 DEF Begin
<1>5. ASSUME NEW w \in Workers, LoopExits(w) \/ Start(w) \/ Stop(w) \/ Crash(w)
      PROVE  OnceInv'
  BY <1>5 DEF LoopExits, Start, Stop, Crash, NoLostAttempt
<1>6. CASE UNCHANGED vars
  BY <1>6 DEF vars, workerVars
<1>. QED
  BY <1>1, <1>2, <1>3, <1>4, <1>5, <1>6 DEF Next, Pull, Progress

(* A single replica that does not crash, whose statements on the            *)
(* notifications table succeed and whose mail server never times out after  *)
(* accepting, mails an event at most once: redelivery during a slow send,   *)
(* duplicates on the stream, lost acknowledgements and graceful restarts    *)
(* are all absorbed.                                                        *)
THEOREM OneReplicaMailsOnce ==
  ASSUME OneReplicaAssumption, NoLostAttempt
  PROVE  Spec => []MailedAtMostOnce
<1>1. OnceInv => MailedAtMostOnce
  BY DEF OnceInv
<1>. QED
  BY <1>1, InitOnce, NextOnce, TypeCorrect, PTL DEF Spec

-----------------------------------------------------------------------------
(* Nothing is dropped silently.                                             *)

BudgetFits  == MaxDeliver <= BrokerMaxDeliver
StaysUp     == {"crash", "stop", "sink"} \cap Faults = {}

(* The last permitted delivery of m is still in the hands of replica w.     *)
LastInHand(w, m) ==
  LET last == [msg |-> m, n |-> BrokerMaxDeliver]
  IN  last \in batch[w] \/ (pc[w] \in Handling /\ cur[w] = last)

DropInv ==
  /\ \A w \in Workers : running[w] /\ pc[w] # "down"
  /\ \A m \in Messages : Spent(m) =>
       \/ EmailsFor(EventOf[m]) # {}
       \/ Recorded(m)
       \/ \E w \in Workers : LastInHand(w, m)

(* No message has spent its deliveries at first.                            *)
LEMMA InitDrop == Init => DropInv
  BY BudgetAssumption DEF Init, DropInv, Spent

(* A replica that has the last delivery of a message in hand holds it.      *)
LEMMA LastHeld ==
  ASSUME NEW w \in Workers, NEW m \in Messages, LastInHand(w, m)
  PROVE  Holds(w, m)
  BY DEF LastInHand, Holds

(* A step of one replica can only take the last delivery of m out of that   *)
(* replica's hands, so it is enough to look at the replica that has it.     *)
LEMMA HandleDrop ==
  ASSUME TypeOK, PersistInv, DropInv, BudgetFits, StaysUp,
         NEW w \in Workers, Handle(w)
  PROVE  DropInv'
<1>. USE DEF Goto, Done, brokerVars, storeVars, Handling, PCs, DropInv
<1>1. /\ running' = running /\ deliveries' = deliveries /\ batch' = batch
      /\ emails \subseteq emails' /\ records \subseteq records'
      /\ pc[w] \in Handling
      /\ \A v \in Workers \ {w} : pc'[v] = pc[v] /\ cur'[v] = cur[v]
  BY DEF Handle, Ack, RetryOrPark, Park, CopyAndTerm, HandlerThrows, Claim, ReadExisting,
         Send, MarkFailed, MarkSent, TypeOK
<1>2. \A v \in Workers : pc'[v] # "down"
  BY DEF Handle, Ack, RetryOrPark, Park, CopyAndTerm, HandlerThrows, Claim, ReadExisting,
         Send, MarkFailed, MarkSent, TypeOK, Verdict
<1>3. ASSUME NEW m \in Messages, cur[w] = [msg |-> m, n |-> BrokerMaxDeliver]
      PROVE  \/ EmailsFor(EventOf[m])' # {}
             \/ Recorded(m)'
             \/ pc'[w] \in Handling /\ cur'[w] = cur[w]
  <2>1. CASE Ack(w)
    BY <2>1, <1>1, <1>3 DEF Ack, PersistInv, ReplicaPersist, Ev, EmailsFor
  <2>2. CASE RetryOrPark(w)
    BY <2>2, <1>3, BudgetAssumption DEF RetryOrPark, BudgetSpent, BudgetFits, TypeOK
  <2>3. CASE Park(w)
    BY <2>3, <1>3 DEF Park, StaysUp, Recorded
  <2>4. CASE CopyAndTerm(w)
    BY <2>4, <1>1, <1>3 DEF CopyAndTerm, PersistInv, ReplicaPersist, Recorded
  <2>5. CASE Send(w)
    BY <2>5, <1>1 DEF Send, TypeOK
  <2>6. CASE HandlerThrows(w) \/ Claim(w) \/ ReadExisting(w) \/ MarkFailed(w) \/ MarkSent(w)
    BY <2>6, <1>1 DEF HandlerThrows, Claim, ReadExisting, Verdict, MarkFailed, MarkSent, TypeOK
  <2>. QED
    BY <2>1, <2>2, <2>3, <2>4, <2>5, <2>6 DEF Handle
<1>4. ASSUME NEW m \in Messages, Spent(m)'
      PROVE  \/ EmailsFor(EventOf[m])' # {}
             \/ Recorded(m)'
             \/ \E v \in Workers : LastInHand(v, m)'
  <2>1. Spent(m)
    BY <1>1, <1>4 DEF Spent
  <2>2. CASE EmailsFor(EventOf[m]) # {}
    BY <2>2, <1>1 DEF EmailsFor
  <2>3. CASE Recorded(m)
    BY <2>3, <1>1 DEF Recorded
  <2>4. ASSUME NEW v \in Workers, LastInHand(v, m)
        PROVE  \/ EmailsFor(EventOf[m])' # {}
               \/ Recorded(m)'
               \/ LastInHand(v, m)'
    BY <2>4, <1>1, <1>3 DEF LastInHand
  <2>. QED
    BY <2>1, <2>2, <2>3, <2>4
<1>. QED
  BY <1>1, <1>2, <1>4

(* Every step keeps the last delivery in hand, mailed or recorded.          *)
LEMMA NextDrop ==
  ASSUME BudgetFits, StaysUp
  PROVE  TypeOK /\ PersistInv /\ DropInv /\ [Next]_vars => DropInv'
<1>. SUFFICES ASSUME TypeOK, PersistInv, DropInv, [Next]_vars PROVE DropInv'
  OBVIOUS
<1>1. ASSUME NEW w \in Workers, Handle(w) PROVE DropInv'
  BY <1>1, HandleDrop
<1>. USE DEF DropInv, LastInHand, EmailsFor, Recorded, Spent, storeVars, brokerVars,
             Handling, PCs
<1>2. ASSUME NEW w \in Workers, NEW S \in SUBSET Messages, Fetch(w, S) PROVE DropInv'
  <2>1. ASSUME NEW m \in S, deliveries'[m] = BrokerMaxDeliver
        PROVE  [msg |-> m, n |-> BrokerMaxDeliver] \in batch'[w]
    BY <1>2, <2>1 DEF Fetch, TypeOK
  <2>2. ASSUME NEW m \in Messages \ S PROVE deliveries'[m] = deliveries[m]
    BY <1>2, <2>2 DEF Fetch, TypeOK
  <2>3. \A v \in Workers : batch[v] \subseteq batch'[v]
    BY <1>2 DEF Fetch, TypeOK
  <2>4. UNCHANGED <<running, pc, cur, emails, records>>
    BY <1>2 DEF Fetch
  <2>5. ASSUME NEW m \in Messages, Spent(m)'
        PROVE  \/ EmailsFor(EventOf[m])' # {}
               \/ Recorded(m)'
               \/ \E v \in Workers : LastInHand(v, m)'
    <3>1. CASE m \in S
      BY <3>1, <2>1, <2>5
    <3>2. CASE m \notin S
      BY <3>2, <2>2, <2>3, <2>4, <2>5
    <3>. QED
      BY <3>1, <3>2
  <2>. QED
    BY <2>4, <2>5
<1>3. ASSUME NEW m \in Messages, AckWaitExpires(m) PROVE DropInv'
  BY <1>3 DEF AckWaitExpires, workerVars
<1>4. ASSUME NEW w \in Workers, NEW d \in batch[w], Begin(w, d) PROVE DropInv'
  BY <1>4 DEF Begin, TypeOK
<1>5. ASSUME NEW w \in Workers, LoopExits(w) \/ Start(w) \/ Stop(w) \/ Crash(w)
      PROVE  DropInv'
  BY <1>5 DEF LoopExits, Start, Stop, Crash, StaysUp
<1>6. CASE UNCHANGED vars
  BY <1>6 DEF vars, workerVars
<1>. QED
  BY <1>1, <1>2, <1>3, <1>4, <1>5, <1>6 DEF Next, Pull, Progress

(* While the runtime's delivery budget does not exceed the broker's, no     *)
(* process goes down and dead_letters accepts rows, a message the broker    *)
(* gives up on was mailed, parked with a record, or is still in hand.       *)
THEOREM NothingLost ==
  ASSUME BudgetFits, StaysUp
  PROVE  Spec => []NothingDroppedSilently
<1>1. DropInv => NothingDroppedSilently
  BY LastHeld DEF DropInv, NothingDroppedSilently, Exhausted
<1>. QED
  BY <1>1, InitDrop, InitPersist, NextDrop, NextPersist, TypeCorrect, PTL DEF Spec
=============================================================================
