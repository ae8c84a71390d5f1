----------------------------- MODULE MCSnapshot ------------------------------
(* Snapshot with three documents of different lengths.                     *)
EXTENDS Snapshot, TLC

TwoLengths == 0 :> 1 @@ 1 :> 2 @@ 2 :> 3
RequestSymmetry == Permutations(Requests)
=============================================================================
