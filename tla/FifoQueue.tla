----------------------------- MODULE FifoQueue -----------------------------
(***************************************************************************)
(* What the room queue promises its users, with no positions, locks or     *)
(* transactions: a song enters behind every song already waiting in its    *)
(* group, and the songs that stay keep the order they entered in, whoever  *)
(* removes what from the middle.                                           *)
(***************************************************************************)
CONSTANTS
  Items,    \* the queue items (QueueItem.id) that are ever created
  Group     \* the group of every item: "manual" or "playlist"

VARIABLES
  queued,   \* the items in the queue
  before    \* <<i, j>> when i plays before j

vars == <<queued, before>>

SameGroup(i, j) == Group[i] = Group[j]

Init == queued = {} /\ before = {}

(***************************************************************************)
(* One song joins the end of its group.                                    *)
(***************************************************************************)
Enqueue(i) ==
  /\ i \notin queued
  /\ queued' = queued \cup {i}
  /\ before' = before \cup {<<j, i>> : j \in {k \in queued : SameGroup(k, i)}}

(***************************************************************************)
(* One song leaves, from anywhere in the queue.                            *)
(***************************************************************************)
Dequeue(i) ==
  /\ i \in queued
  /\ queued' = queued \ {i}
  /\ before' = {p \in before : p[1] # i /\ p[2] # i}

Next == \E i \in Items : Enqueue(i) \/ Dequeue(i)

Spec == Init /\ [][Next]_vars
=============================================================================
