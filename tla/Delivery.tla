------------------------------ MODULE Delivery ------------------------------
(***************************************************************************)
(* The consuming half of the pipeline: the durable JetStream consumer on   *)
(* USER_EVENTS, the replicas of the Notification Service that pull from it *)
(* (packages/shared/src/nats/consumer.ts running the handler of            *)
(* services/notification-service/src/services/notification-handler.ts),    *)
(* the notifications and dead_letters tables, the DLQ stream and the       *)
(* outgoing mail channel.                                                  *)
(*                                                                         *)
(* Every await of the code is a separate step, so replicas, the broker's   *)
(* ack_wait timer, crashes and shutdowns interleave between them.          *)
(***************************************************************************)
EXTENDS Integers, FiniteSets

CONSTANTS
  Workers,           \* replicas of the Notification Service
  Messages,          \* messages on the stream: one streamSequence each
  Events,            \* event ids; two messages may carry copies of one event
  EventOf,           \* [Messages -> Events]
  Malformed,         \* the messages parseEvent rejects
  MaxDeliver,        \* maxDeliver of the runtime: the service's NOTIFICATION_MAX_DELIVER
  BrokerMaxDeliver,  \* max_deliver of the durable consumer, from the producer's config
  FetchBatch,        \* NOTIFICATION_FETCH_BATCH
  MaxAckPending,     \* max_ack_pending of the durable consumer
  Faults,            \* which faults the environment may inject, see FaultKinds
  MaxDowns           \* bound: crashes and shutdowns in one behaviour

(* "crash": a process dies anywhere.  "stop": SIGTERM, a graceful stop().      *)
(* "db": a statement on the notifications table throws, and may have taken     *)
(* effect.  "sink": so does the insert into dead_letters.  "dlq": the DLQ publish throws.  "lost": an ack,  *)
(* nak or term does not reach the broker.  "expiry": ack_wait runs out while a *)
(* live worker still holds the message.  "ambiguous": the mail server accepts  *)
(* the message but the channel times out.  "transient", "permanent": the mail  *)
(* server refuses.                                                             *)
FaultKinds == {"crash", "stop", "db", "sink", "dlq", "lost", "expiry",
               "ambiguous", "transient", "permanent"}

ASSUME EventOfAssumption   == EventOf \in [Messages -> Events]
ASSUME MalformedAssumption == Malformed \subseteq Messages
ASSUME BudgetAssumption    == MaxDeliver \in Nat \ {0} /\ BrokerMaxDeliver \in Nat \ {0}
ASSUME BatchAssumption     == FetchBatch \in Nat \ {0} /\ MaxAckPending \in Nat \ {0}
ASSUME FaultAssumption     == Faults \subseteq FaultKinds /\ MaxDowns \in Nat

VARIABLES
  \* the durable consumer
  status,      \* [Messages -> {"ready", "outstanding", "acked", "termed"}]
  deliveries,  \* [Messages -> Nat]: deliveryCount of the latest delivery
  \* the replicas
  running,     \* ConsumerRuntime.running
  pc,          \* the await a replica is at
  batch,       \* fetched and not yet handled: a set of deliveries
  cur,         \* the delivery handle() is working on
  \* the databases and the outside world
  row,         \* notifications table: status of the row of an event, if any
  records,     \* dead_letters table: the deliveries that inserted a row
  dlq,         \* messages copied onto the DLQ stream
  emails,      \* history: the deliveries whose send the channel accepted
  downs        \* history: crashes and shutdowns so far

brokerVars == <<status, deliveries>>
workerVars == <<running, pc, batch, cur>>
storeVars  == <<row, records, dlq, emails>>
vars == <<brokerVars, workerVars, storeVars, downs>>

-----------------------------------------------------------------------------
(* A delivery is a JsMsg: the message and its info.deliveryCount.           *)
Delivery   == [msg : Messages, n : 1..BrokerMaxDeliver]
NoDelivery == [msg |-> "none", n |-> 0]

Ev(w) == EventOf[cur[w].msg]

(* A live replica has the message in memory: in its batch or in handle().   *)
Holds(w, m) == cur[w].msg = m \/ \E d \in batch[w] : d.msg = m

(* The broker makes no further delivery of m.                               *)
Spent(m) == deliveries[m] = BrokerMaxDeliver
Exhausted(m) == status[m] = "ready" /\ Spent(m)

PCs == {"down", "pull", "claim", "read", "send", "failTransient", "failPermanent",
        "confirm", "ack", "retry", "park", "copy"}
Handling == PCs \ {"down", "pull"}

TypeOK ==
  /\ status     \in [Messages -> {"ready", "outstanding", "acked", "termed"}]
  /\ deliveries \in [Messages -> 0..BrokerMaxDeliver]
  /\ running    \in [Workers -> BOOLEAN]
  /\ pc         \in [Workers -> PCs]
  /\ batch      \in [Workers -> SUBSET Delivery]
  /\ cur        \in [Workers -> Delivery \cup {NoDelivery}]
  /\ \A w \in Workers : pc[w] \in Handling => cur[w] \in Delivery
  /\ row        \in [Events -> {"absent", "failed", "sent"}]
  /\ records    \subseteq Delivery
  /\ dlq        \subseteq Messages
  /\ emails     \subseteq Delivery
  /\ downs      \in 0..MaxDowns

Init ==
  /\ status     = [m \in Messages |-> "ready"]
  /\ deliveries = [m \in Messages |-> 0]
  /\ running    = [w \in Workers |-> TRUE]
  /\ pc         = [w \in Workers |-> "pull"]
  /\ batch      = [w \in Workers |-> {}]
  /\ cur        = [w \in Workers |-> NoDelivery]
  /\ row        = [e \in Events |-> "absent"]
  /\ records = {} /\ dlq = {} /\ emails = {} /\ downs = 0

-----------------------------------------------------------------------------
(* The durable consumer (external: NATS server).                            *)

(* A pull request returns up to max_messages deliverable messages, at once  *)
(* or while the loop is busy with the first of them, each with its next     *)
(* delivery count; max_ack_pending caps what is outstanding.  A request     *)
(* expires before ack_wait does, so it never returns what the replica has   *)
(* in hand, and a request issued before stop() may still be answered.       *)
Fetch(w, S) ==
  /\ pc[w] # "down"
  /\ S # {} /\ Cardinality(batch[w]) + Cardinality(S) <= FetchBatch
  /\ \A m \in S : status[m] = "ready" /\ ~Spent(m) /\ ~Holds(w, m)
  /\ Cardinality({m \in Messages : status[m] = "outstanding"} \cup S) <= MaxAckPending
  /\ status'     = [m \in Messages |-> IF m \in S THEN "outstanding" ELSE status[m]]
  /\ deliveries' = [m \in Messages |-> IF m \in S THEN deliveries[m] + 1 ELSE deliveries[m]]
  /\ batch'      = [batch EXCEPT ![w] = @ \cup {[msg |-> m, n |-> deliveries[m] + 1] : m \in S}]
  /\ UNCHANGED <<running, pc, cur, storeVars, downs>>

(* ack_wait runs out on an unacknowledged delivery.  Without the fault      *)
(* "expiry", ack_wait exceeds the time any replica spends on a batch.       *)
AckWaitExpires(m) ==
  /\ status[m] = "outstanding"
  /\ "expiry" \in Faults \/ \A w \in Workers : ~Holds(w, m)
  /\ status' = [status EXCEPT ![m] = "ready"]
  /\ UNCHANGED <<deliveries, workerVars, storeVars, downs>>

(* An acknowledgement is fire-and-forget: it settles the message unless it  *)
(* is lost or the message is settled already.                               *)
Reply(m, from, to) ==
  \/ status' = [status EXCEPT ![m] = IF @ \in from THEN to ELSE @]
  \/ "lost" \in Faults /\ UNCHANGED status

-----------------------------------------------------------------------------
(* ConsumerRuntime.                                                         *)

(* handle() has returned: the loop re-checks `running` between messages and *)
(* on a stop abandons the rest of the fetched batch.                        *)
Done(w) ==
  /\ cur' = [cur EXCEPT ![w] = NoDelivery]
  /\ pc'  = [pc EXCEPT ![w] = IF running[w] THEN "pull" ELSE "down"]
  /\ batch' = [batch EXCEPT ![w] = IF running[w] THEN @ ELSE {}]
  /\ UNCHANGED running

Goto(w, to) ==
  /\ pc' = [pc EXCEPT ![w] = to]
  /\ UNCHANGED <<running, batch, cur>>

(* The head of handle(): a message that does not parse is parked at once,   *)
(* any other reaches the handler, which renders and claims.                 *)
Begin(w, d) ==
  /\ pc[w] = "pull" /\ d \in batch[w]
  /\ cur'   = [cur EXCEPT ![w] = d]
  /\ batch' = [batch EXCEPT ![w] = @ \ {d}]
  /\ pc'    = [pc EXCEPT ![w] = IF d.msg \in Malformed THEN "park" ELSE "claim"]
  /\ UNCHANGED <<running, brokerVars, storeVars, downs>>

(* message.ack() on outcome 'ack'.                                          *)
Ack(w) ==
  /\ pc[w] = "ack"
  /\ Reply(cur[w].msg, {"ready", "outstanding"}, "acked")
  /\ Done(w)
  /\ UNCHANGED <<deliveries, storeVars, downs>>

BudgetSpentTooLate(n) == n > MaxDeliver
NeverSpent(n) == FALSE
BudgetSpent(n) == n >= MaxDeliver

(* outcome 'retry': nak with backoff, or park on the last permitted delivery. *)
RetryOrPark(w) ==
  /\ pc[w] = "retry"
  /\ \/ /\ BudgetSpent(cur[w].n)
        /\ Goto(w, "park")
        /\ UNCHANGED status
     \/ /\ ~BudgetSpent(cur[w].n)
        /\ Reply(cur[w].msg, {"outstanding"}, "ready")
        /\ Done(w)
  /\ UNCHANGED <<deliveries, storeVars, downs>>

(* deadLetter(), first await: the sink inserts the dead_letters row; if it   *)
(* throws, with the row inserted or not, the message is nak'd instead of    *)
(* terminated.                                                              *)
ParkCopiesAnyway(w) ==
  /\ pc[w] = "park"
  /\ \/ records' = records \cup {cur[w]}
     \/ "sink" \in Faults /\ UNCHANGED records
  /\ Goto(w, "copy")
  /\ UNCHANGED <<status, deliveries, row, dlq, emails, downs>>
Park(w) ==
  /\ pc[w] = "park"
  /\ \/ /\ records' = records \cup {cur[w]}
        /\ Goto(w, "copy")
        /\ UNCHANGED status
     \/ /\ "sink" \in Faults
        /\ records' \in {records, records \cup {cur[w]}}
        /\ Reply(cur[w].msg, {"outstanding"}, "ready")
        /\ Done(w)
  /\ UNCHANGED <<deliveries, row, dlq, emails, downs>>

(* The rest of the sink and of deadLetter(): the copy on the DLQ stream,     *)
(* whose failure the sink swallows, then message.term().                    *)
CopyAndTerm(w) ==
  /\ pc[w] = "copy"
  /\ \/ dlq' = dlq \cup {cur[w].msg}
     \/ "dlq" \in Faults /\ UNCHANGED dlq
  /\ Reply(cur[w].msg, {"ready", "outstanding"}, "termed")
  /\ Done(w)
  /\ UNCHANGED <<deliveries, row, records, emails, downs>>

-----------------------------------------------------------------------------
(* The notification handler.  A throw anywhere in it means 'retry'.         *)

InsertedAsSent == "sent"
InsertedAsPending == "pending"
InsertedStatus == "failed"
InsertRow(e) == row[e] = "absent" /\ row' = [row EXCEPT ![e] = InsertedStatus]

(* The updates are unconditional on the row's present status.               *)
UpdateRow(e, to) == row' = [row EXCEPT ![e] = IF @ = "absent" THEN @ ELSE to]

(* claim(): the INSERT, arbitrated by the UNIQUE index on event_id.         *)
Claim(w) ==
  /\ pc[w] = "claim"
  /\ \/ InsertRow(Ev(w)) /\ Goto(w, "send")
     \/ row[Ev(w)] # "absent" /\ Goto(w, "read") /\ UNCHANGED row
  /\ UNCHANGED <<brokerVars, records, dlq, emails, downs>>

(* claim() after a unique violation: the row found decides between           *)
(* 'already-sent' (acknowledge) and 'retry-existing' (send again).          *)
AlwaysSend(s) == "send"
ClaimAgain(s) == IF s = "sent" THEN "ack" ELSE "claim"
Verdict(s) == IF s = "sent" THEN "ack" ELSE "send"
ReadExisting(w) ==
  /\ pc[w] = "read"
  /\ Goto(w, Verdict(row[Ev(w)]))
  /\ UNCHANGED <<brokerVars, storeVars, downs>>

(* channel.send(): accepted, or refused for a reason classified transient or *)
(* permanent; a timeout after acceptance is classified transient too.       *)
Send(w) ==
  /\ pc[w] = "send"
  /\ \/ /\ emails' = emails \cup {cur[w]}
        /\ \/ Goto(w, "confirm")
           \/ "ambiguous" \in Faults /\ Goto(w, "failTransient")
     \/ /\ \/ "transient" \in Faults /\ Goto(w, "failTransient")
           \/ "permanent" \in Faults /\ Goto(w, "failPermanent")
        /\ UNCHANGED emails
  /\ UNCHANGED <<brokerVars, row, records, dlq, downs>>

MarkFailed(w) ==
  /\ pc[w] \in {"failTransient", "failPermanent"}
  /\ UpdateRow(Ev(w), "failed")
  /\ Goto(w, IF pc[w] = "failPermanent" THEN "park" ELSE "retry")
  /\ UNCHANGED <<brokerVars, records, dlq, emails, downs>>

MarkSent(w) ==
  /\ pc[w] = "confirm"
  /\ UpdateRow(Ev(w), "sent")
  /\ Goto(w, "ack")
  /\ UNCHANGED <<brokerVars, records, dlq, emails, downs>>

(* A statement of the handler throws: it had its effect all the same, or    *)
(* none.                                                                    *)
HandlerThrows(w) ==
  /\ "db" \in Faults
  /\ \/ pc[w] = "claim" /\ InsertRow(Ev(w))
     \/ pc[w] \in {"failTransient", "failPermanent"} /\ UpdateRow(Ev(w), "failed")
     \/ pc[w] = "confirm" /\ UpdateRow(Ev(w), "sent")
     \/ /\ pc[w] \in {"claim", "read", "failTransient", "failPermanent", "confirm"}
        /\ UNCHANGED row
  /\ Goto(w, "retry")
  /\ UNCHANGED <<brokerVars, records, dlq, emails, downs>>

-----------------------------------------------------------------------------
(* Process lifecycle.                                                       *)

Stop(w) ==
  /\ "stop" \in Faults /\ running[w] /\ downs < MaxDowns
  /\ running' = [running EXCEPT ![w] = FALSE]
  /\ downs' = downs + 1
  /\ UNCHANGED <<brokerVars, pc, batch, cur, storeVars>>

(* The last fetch of a stopping replica came back empty: stop() returns.    *)
LoopExits(w) ==
  /\ ~running[w] /\ pc[w] = "pull" /\ batch[w] = {}
  /\ pc' = [pc EXCEPT ![w] = "down"]
  /\ UNCHANGED <<brokerVars, running, batch, cur, storeVars, downs>>

Crash(w) ==
  /\ "crash" \in Faults /\ pc[w] # "down" /\ downs < MaxDowns
  /\ downs' = downs + 1
  /\ running' = [running EXCEPT ![w] = FALSE]
  /\ pc'      = [pc EXCEPT ![w] = "down"]
  /\ batch'   = [batch EXCEPT ![w] = {}]
  /\ cur'     = [cur EXCEPT ![w] = NoDelivery]
  /\ UNCHANGED <<brokerVars, storeVars>>

(* The process is started again and start() binds to the durable consumer.  *)
Start(w) ==
  /\ pc[w] = "down"
  /\ running' = [running EXCEPT ![w] = TRUE]
  /\ pc'      = [pc EXCEPT ![w] = "pull"]
  /\ UNCHANGED <<brokerVars, batch, cur, storeVars, downs>>

Handle(w) == \/ Ack(w) \/ RetryOrPark(w) \/ Park(w) \/ CopyAndTerm(w)
             \/ HandlerThrows(w) \/ Claim(w) \/ ReadExisting(w) \/ Send(w)
             \/ MarkFailed(w) \/ MarkSent(w)

(* What the runtime does by itself, as opposed to what happens to it.       *)
Progress(w) == Handle(w) \/ (\E d \in batch[w] : Begin(w, d)) \/ LoopExits(w) \/ Start(w)

Pull == \E w \in Workers, S \in SUBSET Messages : Fetch(w, S)

Next == \/ Pull
        \/ \E m \in Messages : AckWaitExpires(m)
        \/ \E w \in Workers : Progress(w) \/ Stop(w) \/ Crash(w)

Spec == Init /\ [][Next]_vars

-----------------------------------------------------------------------------
(* Properties.                                                              *)

EmailsFor(e) == {d \in emails : EventOf[d.msg] = e}
Recorded(m)  == \E d \in records : d.msg = m
InFlight(w, e) == pc[w] \in {"send", "failTransient", "failPermanent", "confirm"} /\ Ev(w) = e
Delivered(e) == row[e] = "sent" /\ \A w \in Workers : ~InFlight(w, e)
Settled(m)   == status[m] \in {"acked", "termed"} \/ Exhausted(m)

(* An acknowledged message has been accepted by the mail channel, through   *)
(* this or another copy of its event: no replica acknowledges on the        *)
(* strength of a claim alone (the reason claim() inserts the row as         *)
(* 'failed', notification-repository.ts:67-71).                             *)
AckedMeansEmailed ==
  \A m \in Messages : status[m] = "acked" => EmailsFor(EventOf[m]) # {}

(* A terminated message has a row in dead_letters, whatever crashes, sink   *)
(* failures and lost replies came before: deadLetter() persists first and   *)
(* terminates second (consumer.ts:290-299).                                 *)
TermedMeansRecorded ==
  \A m \in Messages : status[m] = "termed" => Recorded(m)

(* Every copy on the DLQ stream has its queryable row: the sink writes the  *)
(* database before the stream (main.ts:85-90 of the service).               *)
CopyMeansRecorded == \A m \in dlq : Recorded(m)

(* No message is dropped silently: when the broker will not deliver it any  *)
(* more it was mailed, or parked with a record, or a live replica still     *)
(* has it in hand (architecture.md:241-244).  It needs a runtime budget no  *)
(* larger than the broker's, a working dead_letters table and no process    *)
(* going down.                                                              *)
NothingDroppedSilently ==
  \A m \in Messages : Exhausted(m) =>
    EmailsFor(EventOf[m]) # {} \/ Recorded(m) \/ \E w \in Workers : Holds(w, m)

(* An event is mailed at most once, however often its messages are          *)
(* redelivered or duplicated on the stream (notification-handler.ts:35-38). *)
MailedAtMostOnce ==
  \A c, d \in emails : EventOf[c.msg] = EventOf[d.msg] => c = d

(* Once the row of an event says 'sent' and no replica is inside an attempt *)
(* it began earlier, the event stays that way: no redelivery, duplicate,    *)
(* crash or restart mails it again or turns the row back                    *)
(* (notification-handler.ts:88-96).                                         *)
DeliveredForGood ==
  [][\A e \in Events : Delivered(e) => Delivered(e)' /\ EmailsFor(e)' = EmailsFor(e)]_vars
=============================================================================
