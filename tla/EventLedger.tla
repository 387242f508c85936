----------------------------- MODULE EventLedger ----------------------------
(***************************************************************************)
(* What the two services promise together about a domain event, with none  *)
(* of the machinery: once its transaction commits, the event goes onto the *)
(* stream or is given up on, and every event on the stream is mailed once  *)
(* or parked for a person to look at.  Pipeline implements this.           *)
(***************************************************************************)
EXTENDS Naturals

CONSTANT Events

VARIABLES
  committed,  \* events whose domain transaction is committed
  stored,     \* events the stream has
  confirmed,  \* events the producer knows the stream has
  givenUp,    \* events the producer has stopped trying to publish
  mails,      \* [Events -> Nat]: mails sent for each
  parked      \* events with a dead-letter record

vars == <<committed, stored, confirmed, givenUp, mails, parked>>

Init ==
  /\ committed = {} /\ stored = {} /\ confirmed = {} /\ givenUp = {} /\ parked = {}
  /\ mails = [e \in Events |-> 0]

Commit(e) ==
  /\ e \notin committed
  /\ committed' = committed \cup {e}
  /\ UNCHANGED <<stored, confirmed, givenUp, mails, parked>>

Store(e) ==
  /\ e \in committed
  /\ stored' = stored \cup {e}
  /\ UNCHANGED <<committed, confirmed, givenUp, mails, parked>>

Confirm(e) ==
  /\ e \in stored \ givenUp
  /\ confirmed' = confirmed \cup {e}
  /\ UNCHANGED <<committed, stored, givenUp, mails, parked>>

(* The producer wrote down that the stream has the event, was told that     *)
(* writing failed, and goes back to trying.                                 *)
Retract(e) ==
  /\ e \in confirmed
  /\ confirmed' = confirmed \ {e}
  /\ UNCHANGED <<committed, stored, givenUp, mails, parked>>

(* The producer may give up on an event that the stream has, when every     *)
(* confirmation was lost; it never comes back to it.                        *)
GiveUp(e) ==
  /\ e \in committed
  /\ givenUp' = givenUp \cup {e}
  /\ confirmed' = confirmed \ {e}
  /\ UNCHANGED <<committed, stored, mails, parked>>

Mail(e) ==
  /\ e \in stored /\ mails[e] = 0
  /\ mails' = [mails EXCEPT ![e] = 1]
  /\ UNCHANGED <<committed, stored, confirmed, givenUp, parked>>

(* An event is never parked after it was mailed.                            *)
Park(e) ==
  /\ e \in stored /\ mails[e] = 0
  /\ parked' = parked \cup {e}
  /\ UNCHANGED <<committed, stored, confirmed, givenUp, mails>>

Next == \E e \in Events : \/ Commit(e) \/ Store(e) \/ Confirm(e) \/ Retract(e)
                          \/ GiveUp(e) \/ Mail(e) \/ Park(e)

Spec == Init /\ [][Next]_vars

(* Nothing is lost on the way: an event that is committed ends mailed or    *)
(* parked, unless the producer gave up on it and the stream never gets it.  *)
AccountedFor(e) == mails[e] > 0 \/ e \in parked \/ e \in givenUp \ stored

EveryEventEnds == \A e \in Events : <>[](e \in committed => AccountedFor(e))
=============================================================================
