------------------------------ MODULE MCLogin -------------------------------
(* Login with two limiters in a row.                                       *)
EXTENDS Login

Tightening == <<2, 1>>
=============================================================================
