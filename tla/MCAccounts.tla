----------------------------- MODULE MCAccounts -----------------------------
(* Instances of Accounts for TLC.                                           *)
EXTENDS Accounts, TLC

CONSTANTS u1, u2, r1, r2, a, b, x, y

OneUser     == {u1}
TwoUsers    == {u1, u2}
OneRequest  == {r1}
TwoRequests == {r1, r2}
OneName     == {x}
TwoNames    == {x, y}
OneEmail    == {a}
TwoEmails   == {a, b}

RequestSymmetry == Permutations(Requests)
=============================================================================
