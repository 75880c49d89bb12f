---------------------------- MODULE MCQueueStore ----------------------------
(* Small instances of QueueStore. *)
EXTENDS QueueStore, TLC

CONSTANTS a, b, c, d

(* One song of the playlist group among the members' songs. *)
MixedGroup == [i \in Items |-> IF i = d THEN "playlist" ELSE "manual"]

(* The group the web client uses, for every song. *)
ManualGroup == [i \in Items |-> "manual"]
=============================================================================
