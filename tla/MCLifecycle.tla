----------------------------- MODULE MCLifecycle -----------------------------
(* An instance of Lifecycle for TLC.                                        *)
EXTENDS Lifecycle

CONSTANTS s1, s2, n1

TwoOfUser         == {s1, s2}
OneOfNotification == {n1}
=============================================================================
