------------------------------ MODULE Pipeline ------------------------------
(***************************************************************************)
(* The two services joined by the USER_EVENTS stream: what Outbox stores   *)
(* is what Delivery consumes.  This module extends Delivery and feeds it   *)
(* from an instance of Outbox.  The producer writes the stream and nothing *)
(* else of the consumer's, the consumer reads it and writes nothing of the *)
(* producer's, so a step of the whole is a step of one half.  Publishers    *)
(* crash and stop; the replicas of the consumer stay up, for one that goes *)
(* down with the last permitted delivery in hand breaks the promise made   *)
(* here (the steps Stop and Crash of Delivery, and theorem NothingLost).   *)
(***************************************************************************)
EXTENDS Delivery, Sequences

CONSTANTS
  Publishers, LastEvent, Corrupt, BatchSize, MaxAttempts,   \* see Outbox
  OutboxFaults,  \* the faults of the User Service, Faults being the consumer's
  MaxMishaps,
  CopyNumber     \* [Messages -> Nat]: first, second, ... copy of its event on the stream

VARIABLES
  rowStatus, attempts, due, waiting, publisher, claimed, progressed, stopping,
  stream, window, late, tries, mishaps

outboxVars == <<rowStatus, attempts, due, waiting, publisher, claimed, progressed, stopping,
                stream, window, late, tries, mishaps>>
pipelineVars == <<outboxVars, vars>>

-----------------------------------------------------------------------------
O == INSTANCE Outbox WITH pc <- publisher, batch <- claimed, Faults <- OutboxFaults

(* The id of an event is its place in the outbox.                           *)
ASSUME EventsAssumption     == Events = O!Event
ASSUME CopyNumberAssumption == CopyNumber \in [Messages -> Nat \ {0}]

(* Copies of an event are copies of one payload: all of them parse or none. *)
ASSUME PayloadAssumption ==
  \A m, n \in Messages : EventOf[m] = EventOf[n] /\ m \in Malformed => n \in Malformed

(* What Outbox assumes of its constants.                                    *)
ASSUME OutboxAssumption ==
  /\ LastEvent \in Nat \ {0} /\ Corrupt \subseteq O!Event
  /\ BatchSize \in Nat \ {0} /\ MaxAttempts \in Nat \ {0}
  /\ OutboxFaults \subseteq O!FaultKinds /\ MaxMishaps \in Nat

(* The copy of its event that the message stands for is on the stream.      *)
OnStream(m) == Cardinality({i \in DOMAIN stream : stream[i] = EventOf[m]}) >= CopyNumber[m]

PipelineInit == O!Init /\ Init

-----------------------------------------------------------------------------
Produce == O!Next /\ UNCHANGED vars

(* The consumer is given what the stream has.                               *)
PullStored ==
  /\ \E w \in Workers, S \in SUBSET {m \in Messages : OnStream(m)} : Fetch(w, S)
  /\ UNCHANGED outboxVars

Consume(w)     == Progress(w) /\ UNCHANGED outboxVars
AckWaitEnds(m) == AckWaitExpires(m) /\ UNCHANGED outboxVars

PipelineNext == \/ Produce
                \/ PullStored
                \/ \E m \in Messages : AckWaitEnds(m)
                \/ \E w \in Workers : Consume(w)

PipelineSpec == PipelineInit /\ [][PipelineNext]_pipelineVars

(* A publisher that runs takes its next step and a due row becomes due; a   *)
(* live replica takes its next step and a dead one is restarted by the      *)
(* orchestrator; the broker answers some pull as long as one can be         *)
(* answered, and ack_wait is a timer of its own.                            *)
FairPipelineSpec ==
  /\ PipelineSpec
  /\ \A p \in Publishers : WF_pipelineVars(O!Progress(p) /\ UNCHANGED vars)
  /\ \A e \in Events : WF_pipelineVars(O!BackoffElapses(e) /\ UNCHANGED vars)
  /\ \A w \in Workers : WF_pipelineVars(Consume(w))
  /\ WF_pipelineVars(PullStored)
  /\ \A m \in Messages : WF_pipelineVars(AckWaitEnds(m))

-----------------------------------------------------------------------------
(* Properties, beside those of Delivery.                                    *)

(* The refinement mapping: what the tables, the stream and the mail server  *)
(* show of an event.                                                        *)
Ledger == INSTANCE EventLedger WITH
  Events    <- Events,
  committed <- {e \in Events : rowStatus[e] # "absent"},
  stored    <- {e \in Events : O!Stored(e)},
  confirmed <- {e \in Events : rowStatus[e] = "published"},
  givenUp   <- {e \in Events : rowStatus[e] = "failed"},
  mails     <- [e \in Events |-> Cardinality(EmailsFor(e))],
  parked    <- {e \in Events : \E m \in Messages : EventOf[m] = e /\ Recorded(m)}

(* Together the two services keep the ledger's promise: an event reaches    *)
(* the stream only after its transaction, is confirmed only when it is on   *)
(* it and never again once it is given up on, is mailed at most once and    *)
(* never parked after that (docs/architecture.md:168-182, 225-244).         *)
KeepsPromise == Ledger!Spec

(* Every committed event ends mailed, parked or given up on, and given up   *)
(* on only without the stream having it.                                    *)
EveryEventEnds == Ledger!EveryEventEnds

(* The broker is done with every message that reaches the stream, sooner or *)
(* later: none keeps a max_ack_pending slot or circulates without end.      *)
EverythingSettles == \A m \in Messages : <>[](OnStream(m) => Settled(m))

(* With one publisher a row never leaves 'failed', leaves 'published' only  *)
(* when its own markPublished threw, and its attempt count never goes back, *)
(* see Outbox.                                                              *)
RowsMoveForward == O!RowsMoveForward
=============================================================================
