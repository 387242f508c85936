----------------------------- MODULE MCDelivery -----------------------------
(* Instances of Delivery for TLC.                                           *)
EXTENDS Delivery, TLC

CONSTANTS w1, w2, m1, m2, e1, e2

OneReplica  == {w1}
TwoReplicas == {w1, w2}

OneMessage  == {m1}
TwoMessages == {m1, m2}
OneEvent    == {e1}
TwoEvents   == {e1, e2}

(* One message, or messages of two events.                                  *)
Single   == [m \in OneMessage |-> e1]
Distinct == (m1 :> e1) @@ (m2 :> e2)

NoneMalformed   == {}
SecondMalformed == {m2}

ReplicaSymmetry == Permutations(Workers)
=============================================================================
