---------------------------- MODULE MCSkipVotes ----------------------------
(* A few songs and users; neither have an order. *)
EXTENDS SkipVotes, TLC

Interchangeable == Permutations(Items) \cup Permutations(Users)
=============================================================================
