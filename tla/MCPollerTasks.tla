--------------------------- MODULE MCPollerTasks ---------------------------
(* Small instances of PollerTasks. *)
EXTENDS PollerTasks, TLC

Interchangeable == Permutations(Tasks)
=============================================================================
