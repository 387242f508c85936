------------------------------ MODULE Retries -------------------------------
(***************************************************************************)
(* The clock that Outbox leaves out: one outbox row, its publisher, and    *)
(* the duplicate window of the stream, in seconds.  An attempt takes no    *)
(* time and comes as early as it can, when next_attempt_at has passed.     *)
(***************************************************************************)
EXTENDS Integers

CONSTANTS
  MaxAttempts,      \* OUTBOX_MAX_ATTEMPTS
  BaseDelay,        \* DEFAULT_BACKOFF.baseMs
  MaxDelay,         \* DEFAULT_BACKOFF.maxMs
  DuplicateWindow   \* DEDUPE_WINDOW_NANOS

VARIABLES
  rowStatus,  \* "pending", "published" or "failed"
  attempts,   \* outbox_events.attempts
  wait,       \* seconds from the last attempt to next_attempt_at
  age,        \* seconds from the first copy on the stream to the last attempt,
              \* counted up to the window's end, or NotStored
  copies      \* copies of the event on the stream

vars == <<rowStatus, attempts, wait, age, copies>>

NotStored == -1

Init == rowStatus = "pending" /\ attempts = 0 /\ wait = 0 /\ age = NotStored /\ copies = 0

Smaller(a, b) == IF a < b THEN a ELSE b

(* backoffDelay() with full jitter: anything up to the capped power.        *)
Delays(n) == 0..Smaller(BaseDelay * 2^Smaller(n - 1, 32), MaxDelay)

(* The age at which the pending attempt reaches the broker.  The window     *)
(* runs from the copy that opened it: a recognised duplicate does not       *)
(* extend it.                                                               *)
Arrival   == Smaller(age + wait, DuplicateWindow + 1)
Forgotten == age = NotStored \/ Arrival > DuplicateWindow

BrokerStores ==
  /\ copies' = IF Forgotten THEN copies + 1 ELSE copies
  /\ age'    = IF Forgotten THEN 0 ELSE Arrival
BrokerRefuses ==
  /\ age' = IF age = NotStored THEN NotStored ELSE Arrival
  /\ UNCHANGED copies

Succeed ==
  /\ rowStatus = "pending"
  /\ BrokerStores
  /\ rowStatus' = "published"
  /\ UNCHANGED <<attempts, wait>>

(* recordFailure(), whether the message was stored and its ack lost or not. *)
Fail ==
  /\ rowStatus = "pending"
  /\ BrokerStores \/ BrokerRefuses
  /\ attempts'  = attempts + 1
  /\ rowStatus' = IF attempts + 1 >= MaxAttempts THEN "failed" ELSE "pending"
  /\ wait' \in Delays(attempts + 1)

Next == Succeed \/ Fail

Spec == Init /\ [][Next]_vars

-----------------------------------------------------------------------------
(* Properties.                                                              *)

(* A retry of an event that the stream has already always lands inside the  *)
(* duplicate window (subjects.ts:40-41).                                    *)
RetryLandsInWindow ==
  rowStatus = "pending" /\ age # NotStored => age + wait <= DuplicateWindow
=============================================================================
