------------------------------- MODULE Outbox -------------------------------
(***************************************************************************)
(* The producing half of the pipeline: the outbox_events table of the User *)
(* Service, the OutboxPublisher of each replica that drains it             *)
(* (services/user-service/src/services/outbox-publisher.ts over            *)
(* services/user-service/src/repositories/outbox-repository.ts), and the   *)
(* USER_EVENTS stream with its duplicate window.                           *)
(*                                                                         *)
(* Each await of publishOne is a step of its own.  Events are the numbers  *)
(* 1..LastEvent in the order their transactions commit; they are events of *)
(* one user, the order the publisher promises to keep.  The rows are        *)
(* ordered by next_attempt_at, which enqueue() reads off a clock before the *)
(* commit, and that order may be another one: see the fault "stamps".       *)
(***************************************************************************)
EXTENDS Integers, Sequences, SequencesExt

CONSTANTS
  Publishers,    \* replicas of the User Service, one OutboxPublisher each
  LastEvent,     \* bound: events committed in one behaviour
  Corrupt,       \* rows whose payload no longer parses
  BatchSize,     \* OUTBOX_BATCH_SIZE
  MaxAttempts,   \* OUTBOX_MAX_ATTEMPTS
  Faults,        \* which faults the environment may inject, see FaultKinds
  MaxMishaps     \* bound: crashes, shutdowns, database errors and forgotten msgIDs

Event == 1..LastEvent

(* "refused": the broker is down, or the stream is full (discard: new), and *)
(* does not store the message.  "ackLost": it does, and publish() times out. *)
(* "late": publish() times out and the message, buffered by the client,     *)
(* reaches the broker afterwards.  "forgets": the duplicate window of an    *)
(* event ends.  "db": a statement on outbox_events throws, and may have     *)
(* taken effect (the connection is lost before the reply).  "stamps": the   *)
(* clock readings do not follow the commits: a deletion enqueues before its *)
(* statement waits for the row lock (user-service.ts:200-219) that an       *)
(* update with a later reading holds, the clocks of two replicas differ, or *)
(* two readings fall into one millisecond.                                  *)
FaultKinds == {"refused", "ackLost", "late", "forgets", "db", "stamps", "crash", "stop"}

ASSUME EventAssumption   == LastEvent \in Nat \ {0} /\ Corrupt \subseteq Event
ASSUME BudgetAssumption  == BatchSize \in Nat \ {0} /\ MaxAttempts \in Nat \ {0}
ASSUME FaultAssumption   == Faults \subseteq FaultKinds /\ MaxMishaps \in Nat

VARIABLES
  \* outbox_events
  rowStatus,  \* [Event -> {"absent", "pending", "published", "failed"}]
  attempts,   \* [Event -> Nat]
  due,        \* pending rows with next_attempt_at <= now, in that order
  waiting,    \* pending rows whose next_attempt_at is in the future
  \* the publishers
  pc,         \* "idle", "publish", "mark", "down", or in the catch of publishOne:
              \* "record" after publish() threw, "unsure" after markPublished() did
  batch,      \* rows claimed and not finished, as read: <<event, attempts>>
  progressed, \* published > 0 in this drain
  stopping,   \* OutboxPublisher.stopping
  \* the stream
  stream,     \* the events stored, in order
  window,     \* msgIDs the broker remembers
  late,       \* messages timed out at the publisher and still on their way
  \* history and bounds
  tries,      \* [Event -> Nat]: times publishOne began on the row, up to MaxAttempts
  mishaps

tableVars     == <<rowStatus, attempts, due, waiting>>
publisherVars == <<pc, batch, progressed, stopping>>
streamVars    == <<stream, window, late>>
vars == <<tableVars, publisherVars, streamVars, tries, mishaps>>

-----------------------------------------------------------------------------
Claimed == [id : Event, attempts : Nat]
Row(p) == Head(batch[p])
InHand == {"publish", "mark", "record", "unsure"}

TypeOK ==
  /\ rowStatus  \in [Event -> {"absent", "pending", "published", "failed"}]
  /\ attempts   \in [Event -> Nat]
  /\ due        \in Seq(Event)
  /\ waiting    \subseteq Event
  /\ pc         \in [Publishers -> {"idle", "down"} \cup InHand]
  /\ batch      \in [Publishers -> Seq(Claimed)]
  /\ \A p \in Publishers : pc[p] \in InHand => batch[p] # <<>>
  /\ progressed \in [Publishers -> BOOLEAN]
  /\ stopping   \in [Publishers -> BOOLEAN]
  /\ stream     \in Seq(Event)
  /\ window     \subseteq Event
  /\ late       \subseteq Event
  /\ tries      \in [Event -> 0..MaxAttempts]
  /\ mishaps    \in 0..MaxMishaps

Init ==
  /\ rowStatus  = [e \in Event |-> "absent"]
  /\ attempts   = [e \in Event |-> 0]
  /\ due = <<>> /\ waiting = {}
  /\ pc         = [p \in Publishers |-> "idle"]
  /\ batch      = [p \in Publishers |-> <<>>]
  /\ progressed = [p \in Publishers |-> FALSE]
  /\ stopping   = [p \in Publishers |-> FALSE]
  /\ stream = <<>> /\ window = {} /\ late = {}
  /\ tries      = [e \in Event |-> 0]
  /\ mishaps = 0

Smaller(a, b) == IF a < b THEN a ELSE b

Try(e) == tries' = [tries EXCEPT ![e] = Smaller(@ + 1, MaxAttempts)]

Mishap(kind) ==
  /\ kind \in Faults /\ mishaps < MaxMishaps
  /\ mishaps' = mishaps + 1

-----------------------------------------------------------------------------
(* The table.                                                               *)

(* A row takes its place by next_attempt_at: in front of rows that are due  *)
(* already only if they are among the given ones, or the clock readings do  *)
(* not follow the events.                                                   *)
JoinsDue(e, overtaken) ==
  \E i \in 1..(Len(due) + 1) :
    /\ "stamps" \in Faults \/ \A j \in i..Len(due) : due[j] \in overtaken
    /\ due' = InsertAt(due, i, e)

(* The transaction of a domain change commits, with the row enqueue() wrote *)
(* in it: due at once, as of a moment before the commit, so that a row back *)
(* from its backoff in between comes after it.                              *)
Enqueue(e) ==
  /\ rowStatus[e] = "absent" /\ \A f \in 1..(e - 1) : rowStatus[f] # "absent"
  /\ rowStatus' = [rowStatus EXCEPT ![e] = "pending"]
  /\ JoinsDue(e, {f \in Event : attempts[f] > 0})
  /\ UNCHANGED <<attempts, waiting, publisherVars, streamVars, tries, mishaps>>

(* next_attempt_at passes.                                                  *)
BackoffElapses(e) ==
  /\ e \in waiting
  /\ waiting' = waiting \ {e}
  /\ JoinsDue(e, {})
  /\ UNCHANGED <<rowStatus, attempts, publisherVars, streamVars, tries, mishaps>>

NoLongerDue(e) ==
  \/ \E i \in DOMAIN due : due[i] = e /\ due' = RemoveAt(due, i)
  \/ (\A i \in DOMAIN due : due[i] # e) /\ UNCHANGED due

(* UPDATE ... SET status = 'published' WHERE id = e, whatever the status.   *)
SetPublishedStillDue(e) ==
  /\ rowStatus' = [rowStatus EXCEPT ![e] = "published"]
  /\ UNCHANGED <<attempts, due, waiting>>
SetPublished(e) ==
  /\ rowStatus' = [rowStatus EXCEPT ![e] = "published"]
  /\ NoLongerDue(e)
  /\ waiting' = waiting \ {e}
  /\ UNCHANGED attempts

(* recordFailure(): the attempt count comes from the row as it was claimed, *)
(* and the status is overwritten whatever it is now.                        *)
ExhaustedEarly(n) == n >= MaxAttempts - 1
Exhausted(n) == n >= MaxAttempts
SetFailureUnscheduled(e, n) ==
  /\ attempts'  = [attempts EXCEPT ![e] = n]
  /\ rowStatus' = [rowStatus EXCEPT ![e] = IF Exhausted(n) THEN "failed" ELSE "pending"]
  /\ NoLongerDue(e)
  /\ UNCHANGED waiting
SetFailure(e, n) ==
  /\ attempts'  = [attempts EXCEPT ![e] = n]
  /\ rowStatus' = [rowStatus EXCEPT ![e] = IF Exhausted(n) THEN "failed" ELSE "pending"]
  /\ waiting'   = IF Exhausted(n) THEN waiting \ {e} ELSE waiting \cup {e}
  /\ NoLongerDue(e)

-----------------------------------------------------------------------------
(* The stream (external: NATS JetStream).                                   *)

(* A message is stored unless its msgID is in the duplicate window.         *)
Store(e) ==
  /\ stream' = IF e \in window THEN stream ELSE Append(stream, e)
  /\ window' = window \cup {e}

LateArrival(e) ==
  /\ e \in late
  /\ late' = late \ {e}
  /\ Store(e)
  /\ UNCHANGED <<tableVars, publisherVars, tries, mishaps>>

Forgets(e) ==
  /\ e \in window /\ Mishap("forgets")
  /\ window' = window \ {e}
  /\ UNCHANGED <<tableVars, publisherVars, stream, late, tries>>

-----------------------------------------------------------------------------
(* OutboxPublisher.                                                         *)

(* drain() begins: claimDue() reads the oldest due rows.  Nothing locks     *)
(* them, so another replica may read them too.                              *)
ClaimNewest(p) ==
  /\ pc[p] = "idle" /\ ~stopping[p] /\ due # <<>>
  /\ batch' = [batch EXCEPT ![p] =
       [i \in 1..Smaller(BatchSize, Len(due)) |->
          [id |-> Reverse(due)[i], attempts |-> attempts[Reverse(due)[i]]]]]
  /\ pc' = [pc EXCEPT ![p] = "publish"]
  /\ progressed' = [progressed EXCEPT ![p] = FALSE]
  /\ Try(Last(due))
  /\ UNCHANGED <<tableVars, stopping, streamVars, mishaps>>
ClaimDue(p) ==
  /\ pc[p] = "idle" /\ ~stopping[p] /\ due # <<>>
  /\ batch' = [batch EXCEPT ![p] =
       [i \in 1..Smaller(BatchSize, Len(due)) |->
          [id |-> due[i], attempts |-> attempts[due[i]]]]]
  /\ pc' = [pc EXCEPT ![p] = "publish"]
  /\ progressed' = [progressed EXCEPT ![p] = FALSE]
  /\ Try(Head(due))
  /\ UNCHANGED <<tableVars, stopping, streamVars, mishaps>>

To(p, where) ==
  /\ pc' = [pc EXCEPT ![p] = where]
  /\ UNCHANGED <<batch, progressed, stopping, tries>>

(* The rest of the batch is left `pending`.                                 *)
EndDrainStays(p) ==
  /\ batch' = [batch EXCEPT ![p] = <<>>]
  /\ UNCHANGED <<pc, stopping, tries>>
EndDrain(p) ==
  /\ batch' = [batch EXCEPT ![p] = <<>>]
  /\ pc'    = [pc EXCEPT ![p] = IF stopping[p] THEN "down" ELSE "idle"]
  /\ UNCHANGED <<stopping, tries>>

(* publishOne() has returned: the loop goes on to the next claimed row      *)
(* unless stop() was called and something was published in this drain.      *)
NextRow(p, published) ==
  /\ progressed' = [progressed EXCEPT ![p] = @ \/ published]
  /\ IF Len(batch[p]) = 1 \/ (stopping[p] /\ (progressed[p] \/ published))
     THEN EndDrain(p)
     ELSE /\ batch' = [batch EXCEPT ![p] = Tail(@)]
          /\ pc'    = [pc EXCEPT ![p] = "publish"]
          /\ Try(batch[p][2].id)
          /\ UNCHANGED stopping

(* publisher.publish(), with msgID = event.id: it resolves only on the      *)
(* broker's ack, for a stored message or a recognised duplicate alike.      *)
MarkUnacked(p) ==
  /\ pc[p] = "publish"
  /\ \/ Row(p).id \notin Corrupt /\ Store(Row(p).id) /\ To(p, "mark") /\ UNCHANGED late
     \/ "refused" \in Faults /\ To(p, "mark") /\ UNCHANGED streamVars
     \/ Row(p).id \in Corrupt /\ To(p, "record") /\ UNCHANGED streamVars
  /\ UNCHANGED <<tableVars, mishaps>>
PublishWithoutId(p) ==
  /\ pc[p] = "publish"
  /\ stream' = Append(stream, Row(p).id) /\ UNCHANGED <<window, late>>
  /\ To(p, "mark") \/ ("ackLost" \in Faults /\ To(p, "record"))
  /\ UNCHANGED <<tableVars, mishaps>>
Publish(p) ==
  /\ pc[p] = "publish"
  /\ LET e == Row(p).id IN
     \/ /\ e \in Corrupt
        /\ To(p, "record") /\ UNCHANGED streamVars
     \/ /\ e \notin Corrupt
        /\ Store(e) /\ UNCHANGED late
        /\ To(p, "mark") \/ ("ackLost" \in Faults /\ To(p, "record"))
     \/ /\ e \notin Corrupt /\ "refused" \in Faults
        /\ To(p, "record") /\ UNCHANGED streamVars
     \/ /\ e \notin Corrupt /\ "late" \in Faults
        /\ late' = late \cup {e}
        /\ To(p, "record") /\ UNCHANGED <<stream, window>>
  /\ UNCHANGED <<tableVars, mishaps>>

(* markPublished(); if it throws, with the row published or not, the same   *)
(* catch records a failed attempt.                                          *)
MarkPublished(p) ==
  /\ pc[p] = "mark"
  /\ \/ /\ SetPublished(Row(p).id)
        /\ NextRow(p, TRUE)
        /\ UNCHANGED mishaps
     \/ /\ Mishap("db")
        /\ To(p, "unsure")
        /\ SetPublished(Row(p).id) \/ UNCHANGED tableVars
  /\ UNCHANGED streamVars

(* recordFailure(); if it throws too, whether or not the row was written,   *)
(* drain() gives up on the batch.                                           *)
RecordFailure(p) ==
  /\ pc[p] \in {"record", "unsure"}
  /\ \/ /\ SetFailure(Row(p).id, Row(p).attempts + 1)
        /\ NextRow(p, FALSE)
        /\ UNCHANGED mishaps
     \/ /\ Mishap("db")
        /\ EndDrain(p)
        /\ SetFailure(Row(p).id, Row(p).attempts + 1) \/ UNCHANGED tableVars
        /\ UNCHANGED progressed
  /\ UNCHANGED streamVars

-----------------------------------------------------------------------------
(* Process lifecycle.                                                       *)

(* stop() waits while a drain is under way and returns at once otherwise.   *)
Stop(p) ==
  /\ pc[p] # "down" /\ ~stopping[p]
  /\ Mishap("stop")
  /\ stopping' = [stopping EXCEPT ![p] = TRUE]
  /\ pc' = [pc EXCEPT ![p] = IF @ = "idle" THEN "down" ELSE @]
  /\ UNCHANGED <<tableVars, batch, progressed, streamVars, tries>>

(* Also the forced exit 15 s into a shutdown that does not finish.          *)
Crash(p) ==
  /\ pc[p] # "down"
  /\ Mishap("crash")
  /\ pc'    = [pc EXCEPT ![p] = "down"]
  /\ batch' = [batch EXCEPT ![p] = <<>>]
  /\ UNCHANGED <<tableVars, progressed, stopping, streamVars, tries>>

Start(p) ==
  /\ pc[p] = "down"
  /\ pc'       = [pc EXCEPT ![p] = "idle"]
  /\ stopping' = [stopping EXCEPT ![p] = FALSE]
  /\ UNCHANGED <<tableVars, batch, progressed, streamVars, tries, mishaps>>

Progress(p) == ClaimDue(p) \/ Publish(p) \/ MarkPublished(p) \/ RecordFailure(p) \/ Start(p)

Next ==
  \/ \E e \in Event : Enqueue(e) \/ BackoffElapses(e) \/ LateArrival(e) \/ Forgets(e)
  \/ \E p \in Publishers : Progress(p) \/ Stop(p) \/ Crash(p)

Spec == Init /\ [][Next]_vars

(* The poll timer and the awaits of a live process fire, a dead process is  *)
(* restarted, and a backoff delay ends.                                     *)
FairSpec == /\ Spec
            /\ \A p \in Publishers : WF_vars(Progress(p))
            /\ \A e \in Event : WF_vars(BackoffElapses(e))

-----------------------------------------------------------------------------
(* Properties.                                                              *)

Stored(e) == \E i \in DOMAIN stream : stream[i] = e

(* A row is marked published only when the stream has the event, whatever   *)
(* is lost, refused, delayed or crashes: publish() resolves on the broker's *)
(* ack alone and markPublished comes after it (outbox-publisher.ts:189-192).*)
PublishedMeansStored == \A e \in Event : rowStatus[e] = "published" => Stored(e)

(* An event is given up on only after OUTBOX_MAX_ATTEMPTS real attempts,    *)
(* even when replicas work on the same row from stale copies of its count.  *)
GivenUpAfterBudget == \A e \in Event : rowStatus[e] = "failed" => tries[e] >= MaxAttempts

(* A user's events reach the stream in the order they were committed        *)
(* (outbox-publisher.ts:143-147): every stored event comes after the first  *)
(* copies of all earlier ones.  So it is as long as next_attempt_at follows *)
(* the commits and the broker takes every publish at once.                  *)
FirstCopiesInOrder ==
  \A i \in DOMAIN stream : \A e \in 1..(stream[i] - 1) : \E j \in 1..(i - 1) : stream[j] = e

(* While the duplicate window lasts an event is stored once, however often  *)
(* replicas, retries and late arrivals publish it: msgID is the event id    *)
(* (architecture.md:179-182).                                               *)
StoredOnce == \A i, j \in DOMAIN stream : stream[i] = stream[j] => i = j

(* With one publisher 'failed' is final, 'published' is taken back only by  *)
(* the catch that follows this row's own markPublished, which threw after   *)
(* it took effect, and the attempt count never goes back, although          *)
(* markPublished and recordFailure write unconditionally                    *)
(* (outbox-publisher.ts:191-199).                                           *)
Unsure(e) == \E p \in Publishers : pc[p] = "unsure" /\ Row(p).id = e
RowsMoveForward ==
  [][\A e \in Event :
       /\ rowStatus[e] = "failed" => rowStatus'[e] = "failed"
       /\ rowStatus[e] = "published" /\ ~Unsure(e) => rowStatus'[e] = "published"
       /\ attempts'[e] >= attempts[e]]_vars

(* Every committed event is eventually and for good published or given up   *)
(* on: no row is forgotten by crashes, aborted batches or overlapping       *)
(* publishers.                                                              *)
EveryRowResolved ==
  \A e \in Event : rowStatus[e] = "pending" ~> [](rowStatus[e] \in {"published", "failed"})
=============================================================================
