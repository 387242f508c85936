----------------------------- MODULE MCPipeline -----------------------------
(* An instance of Pipeline for TLC.                                         *)
EXTENDS Pipeline, TLC

CONSTANTS p1, w1, m1, m2

OnePublisher == {p1}
OneReplica   == {w1}

(* Two copies of one event.                                                 *)
TwoMessages == {m1, m2}
EventOfTwo  == (m1 :> 1) @@ (m2 :> 1)
CopyOfTwo   == (m1 :> 1) @@ (m2 :> 2)
=============================================================================
