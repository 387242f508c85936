------------------------------ MODULE MCOutbox ------------------------------
(* Instances of Outbox for TLC.                                             *)
EXTENDS Outbox

CONSTANTS p1, p2

OnePublisher    == {p1}
TwoPublishers   == {p1, p2}
PublisherSymmetry == {[p \in Publishers |-> p],
                      [p \in TwoPublishers |-> IF p = p1 THEN p2 ELSE p1]}
=============================================================================
