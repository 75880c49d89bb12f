---------------------------- MODULE MCPlayback ----------------------------
(* Small instances of Playback. *)
EXTENDS Playback, TLC

CONSTANTS a, b, c, x, y, z

(* Every item is another song ... *)
Distinct == [i \in Items |-> CASE i = a -> x [] i = b -> y [] OTHER -> z]

(* ... or the song of the first is queued again. *)
Repeated == [i \in Items |-> x]

(* The last item comes from a playlist. *)
MixedGroup == [i \in Items |-> IF i = b THEN "manual" ELSE "playlist"]
ManualGroup == [i \in Items |-> "manual"]
=============================================================================
