---------------------------- MODULE MCAccounts ----------------------------
(* Small instances of Accounts. *)
EXTENDS Accounts, TLC

Interchangeable == Permutations(Requests) \cup Permutations(Passwords)
=============================================================================
