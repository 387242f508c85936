------------------------------ MODULE MCGateway -----------------------------
(* An instance of Gateway for TLC.                                          *)
EXTENDS Gateway

CONSTANTS u1, u2, a, b, x

TwoUsers  == {u1, u2}
TwoEmails == {a, b}
OneName   == {x}
TwoCalls  == 1..2
TwoPasswords == {1, 2}
=============================================================================
