----------------------------- MODULE MCSession ------------------------------
(* Session on small instances; requests and users are interchangeable.     *)
EXTENDS Session, TLC

ProcSymmetry == Permutations(Procs)
=============================================================================
