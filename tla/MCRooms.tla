------------------------------ MODULE MCRooms ------------------------------
(* Small instances of Rooms. *)
EXTENDS Rooms, TLC

Interchangeable == Permutations(Requests) \cup Permutations(Users \ Hosts)
=============================================================================
