------------------------------ MODULE MCChatHub -------------------------------
(* ChatHub on small instances; connections are interchangeable.            *)
EXTENDS ChatHub, TLC

ClientSymmetry == Permutations(Clients)
=============================================================================
