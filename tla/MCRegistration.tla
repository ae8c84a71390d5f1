--------------------------- MODULE MCRegistration ----------------------------
(* Registration on a small instance; requests are interchangeable.         *)
EXTENDS Registration, TLC

ProcSymmetry == Permutations(Procs)
=============================================================================
