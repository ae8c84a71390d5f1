------------------------------ MODULE MCDegrade ------------------------------
(* The degrade manager with two callers of every mutator and two gauge     *)
(* goroutines; the bounds are in the .cfg file.                            *)
EXTENDS Degrade
=============================================================================
