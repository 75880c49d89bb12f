----------------------------- MODULE SkipVotes -----------------------------
(***************************************************************************)
(* Votes to skip a song, the finishing of a song, and the playback history *)
(* of one session.                                                         *)
(*                                                                         *)
(* A vote is saved and counted, and the song is finished, without an await *)
(* in between: on the event loop that is one step.  It is several commits  *)
(* all the same, and an error or the end of the process may come between.  *)
(* The queue is what QueueStore keeps: an ordered list whose new items may *)
(* come before older ones, because the groups have an order.               *)
(***************************************************************************)
EXTENDS Naturals, Sequences, SequencesExt, FiniteSets

CONSTANTS
  Items,      \* the queue items that are ever added; a song is played once
  Users,
  Threshold,  \* skip_threshold of the room
  Keep,       \* MAX_HISTORY
  MaxPlayed,  \* bound on the songs that are recorded
  Dialect     \* the database: "postgresql" or "sqlite"

ASSUME SkipVotesAssumption ==
  /\ Threshold \in Nat \ {0}
  /\ Keep \in Nat \ {0}
  /\ MaxPlayed \in Nat
  /\ Dialect \in {"postgresql", "sqlite"}

VARIABLES
  queue,    \* the items, the song that plays first
  votes,    \* queue_votes: <<item, user>>
  cooling,  \* users who voted less than the cooldown ago
  history,  \* queue_histories in the order of played_at
  sending,  \* skip_vote messages with skip_triggered that are still to be
            \* sent: the item, and what it was when the votes were counted
  added,    \* items that have been in the queue (history)
  left,     \* items that finish_song has removed (history)
  played,   \* the songs as they were recorded (history)
  broken    \* the places in played of those whose finish_song broke off
            \* before the item was removed (history)

vars == <<queue, votes, cooling, history, sending, added, left, played, broken>>

Init ==
  /\ queue = <<>>
  /\ votes = {}
  /\ cooling = {}
  /\ history = <<>>
  /\ sending = {}
  /\ added = {}
  /\ left = {}
  /\ played = <<>>
  /\ broken = {}

-----------------------------------------------------------------------------

Queued(i) == i \in ToSet(queue)
VotesFor(i) == {u \in Users : <<i, u>> \in votes}

TakenOut(i) ==
  \E k \in DOMAIN queue : queue[k] = i /\ queue' = RemoveAt(queue, k)

(***************************************************************************)
(* The votes on an item are deleted with it; in the variant they stay.     *)
(***************************************************************************)
WithoutItemKeepingVotes(i) == TakenOut(i) /\ UNCHANGED votes

WithoutItem(i) ==
  /\ TakenOut(i)
  /\ votes' = {v \in votes : v[1] # i}

-----------------------------------------------------------------------------
(* The queue *)

AddToQueue(i) ==
  /\ i \notin added
  /\ \E k \in 1..(Len(queue) + 1) : queue' = InsertAt(queue, k, i)
  /\ added' = added \cup {i}
  /\ UNCHANGED <<votes, cooling, history, sending, left, played, broken>>

RemoveFromQueue(i) ==
  /\ Queued(i)
  /\ WithoutItem(i)
  /\ UNCHANGED <<cooling, history, sending, added, left, played, broken>>

-----------------------------------------------------------------------------
(* finish_song *)

(***************************************************************************)
(* delete_oldest: in ascending order of played_at, those past the first    *)
(* Keep are deleted.                                                       *)
(***************************************************************************)
Pruned(h) == SubSeq(h, 1, IF Len(h) < Keep THEN Len(h) ELSE Keep)

(***************************************************************************)
(* How far the four commits get: the song is marked FINISHED, recorded,    *)
(* the history pruned, the item deleted.                                   *)
(***************************************************************************)
Progress == {"marked", "recorded", "pruned", "removed"}

(***************************************************************************)
(* _record_history.                                                        *)
(***************************************************************************)
Record(i, done) ==
  IF done = "marked"
  THEN UNCHANGED <<history, played, broken>>
  ELSE /\ Len(played) < MaxPlayed
       /\ played' = Append(played, i)
       /\ broken' = IF done = "removed" THEN broken ELSE broken \cup {Len(played) + 1}
       /\ history' = IF done = "recorded" THEN Append(history, i) ELSE Pruned(Append(history, i))

(***************************************************************************)
(* Variant that deletes the item before the song is recorded.              *)
(***************************************************************************)
FinishedInOtherOrder(i, done) ==
  /\ IF done = "removed"
     THEN Record(i, "removed")
     ELSE UNCHANGED <<history, played, broken>>
  /\ IF done = "marked"
     THEN UNCHANGED <<queue, votes, left>>
     ELSE WithoutItem(i) /\ left' = left \cup {i}

Finished(i, done) ==
  /\ Record(i, done)
  /\ IF done = "removed"
     THEN WithoutItem(i) /\ left' = left \cup {i}
     ELSE UNCHANGED <<queue, votes, left>>

(***************************************************************************)
(* The poll loop, the host's skip and the finish endpoint end whatever     *)
(* song is the current one.                                                *)
(***************************************************************************)
FinishSong ==
  /\ queue # <<>>
  /\ \E done \in Progress : Finished(Head(queue), done)
  /\ UNCHANGED <<cooling, sending, added>>

-----------------------------------------------------------------------------
(* cast_vote and remove_vote *)

(***************************************************************************)
(* The cooldown starts with every attempt that is let through, also when   *)
(* the attempt then comes to nothing.                                      *)
(***************************************************************************)
Cool(u) ==
  /\ u \notin cooling
  /\ cooling' = cooling \cup {u}

(***************************************************************************)
(* The vote is saved before anything else is looked at, and then counted.  *)
(***************************************************************************)
Voted(i, u) == votes \cup {<<i, u>>}
Enough(i, u) == Cardinality(VotesFor(i) \cup {u}) >= Threshold

Announce(i, place) == sending' = sending \cup {[item |-> i, was |-> place]}

(***************************************************************************)
(* Variant that sends the message before finish_song.                      *)
(***************************************************************************)
SkipAnnouncedFirst(i, u) ==
  /\ queue # <<>>
  /\ Head(queue) = i
  /\ Enough(i, u)
  /\ Announce(i, "current")
  /\ votes' = Voted(i, u)
  /\ UNCHANGED <<queue, history, left, played, broken>>

(***************************************************************************)
(* The vote reaches the threshold and the song is the current one: it is   *)
(* finished, and the skip_vote message waits until the messages of         *)
(* finish_song have gone out.  When finish_song fails the vote stays.      *)
(***************************************************************************)
SkipVoted(i, u) ==
  /\ queue # <<>>
  /\ Head(queue) = i
  /\ Enough(i, u)
  /\ \E done \in Progress :
       /\ Record(i, done)
       /\ IF done = "removed"
          THEN WithoutItem(i) /\ left' = left \cup {i} /\ Announce(i, "current")
          ELSE votes' = Voted(i, u) /\ UNCHANGED <<queue, left, sending>>

(***************************************************************************)
(* The vote reaches the threshold for a song that waits: finish_song does  *)
(* nothing, and skip_triggered, which is made of the count alone, is sent  *)
(* all the same.                                                           *)
(***************************************************************************)
VoteForWaiting(i, u) ==
  /\ Queued(i)
  /\ Head(queue) # i
  /\ Enough(i, u)
  /\ votes' = Voted(i, u)
  /\ Announce(i, "waiting")
  /\ UNCHANGED <<queue, history, left, played, broken>>

(***************************************************************************)
(* There are too few votes.                                                *)
(***************************************************************************)
CountVote(i, u) ==
  /\ Queued(i)
  /\ ~Enough(i, u)
  /\ votes' = Voted(i, u)
  /\ UNCHANGED <<queue, history, sending, left, played, broken>>

(***************************************************************************)
(* Variant in which a vote that comes too late finishes its song again.    *)
(***************************************************************************)
FinishGone(i, u) ==
  /\ i \in left
  /\ Record(i, "removed")
  /\ UNCHANGED <<queue, votes, sending, left>>

(***************************************************************************)
(* A vote for an item that is gone: PostgreSQL rejects the row, SQLite     *)
(* keeps it, and the request then fails for want of the item.              *)
(***************************************************************************)
VoteForGone(i, u) ==
  /\ i \in added
  /\ ~Queued(i)
  /\ votes' = IF Dialect = "sqlite" THEN Voted(i, u) ELSE votes
  /\ UNCHANGED <<queue, history, sending, left, played, broken>>

CastVote(i, u) ==
  /\ Cool(u)
  /\ u \notin VotesFor(i)
  /\ SkipVoted(i, u) \/ VoteForWaiting(i, u) \/ CountVote(i, u) \/ VoteForGone(i, u)
  /\ UNCHANGED added

RemoveVote(i, u) ==
  /\ Cool(u)
  /\ u \in VotesFor(i)
  /\ votes' = votes \ {<<i, u>>}
  /\ UNCHANGED <<queue, history, sending, added, left, played, broken>>

(***************************************************************************)
(* A second vote of a user for the same item, and the removal of a vote    *)
(* that is not there.                                                      *)
(***************************************************************************)
VoteRefused(u) ==
  /\ Cool(u)
  /\ UNCHANGED <<queue, votes, history, sending, added, left, played, broken>>

CooldownOver(u) ==
  /\ u \in cooling
  /\ cooling' = cooling \ {u}
  /\ UNCHANGED <<queue, votes, history, sending, added, left, played, broken>>

SendSkipVote(m) ==
  /\ m \in sending
  /\ sending' = sending \ {m}
  /\ UNCHANGED <<queue, votes, cooling, history, added, left, played, broken>>

(***************************************************************************)
(* The process ends and starts again: the cooldowns and the messages are   *)
(* in memory only.                                                         *)
(***************************************************************************)
Restart ==
  /\ cooling' = {}
  /\ sending' = {}
  /\ UNCHANGED <<queue, votes, history, added, left, played, broken>>

-----------------------------------------------------------------------------

Voting(u) ==
  \/ \E i \in Items : CastVote(i, u) \/ RemoveVote(i, u)
  \/ VoteRefused(u)
  \/ CooldownOver(u)

Next ==
  \/ \E i \in Items : AddToQueue(i) \/ RemoveFromQueue(i)
  \/ \E m \in sending : SendSkipVote(m)
  \/ FinishSong
  \/ \E u \in Users : Voting(u)
  \/ Restart

Spec == Init /\ [][Next]_vars

-----------------------------------------------------------------------------

(***************************************************************************)
(* An item is in the queue once, the history holds songs as they were      *)
(* recorded, and on PostgreSQL every vote is for an item in the queue: the *)
(* votes go with their item, whoever removes it.                           *)
(***************************************************************************)
TypeOK ==
  /\ queue \in Seq(added) /\ IsInjective(queue)
  /\ votes \subseteq added \X Users
  /\ Dialect = "postgresql" => \A v \in votes : Queued(v[1])
  /\ cooling \subseteq Users
  /\ history \in Seq(ToSet(played))
  /\ sending \subseteq [item : added, was : {"current", "waiting"}]
  /\ added \subseteq Items
  /\ left \subseteq added
  /\ played \in Seq(added)
  /\ broken \subseteq 1..Len(played)

(***************************************************************************)
(* A client that hears that the current song is skipped finds the queue    *)
(* advanced: that song is no longer in it, also when finish_song has       *)
(* failed on it before and a later vote repeats it.                        *)
(* (queue_vote_service.py:120)                                             *)
(***************************************************************************)
AnnouncedWhenGone == \A m \in sending : m.was = "current" => ~Queued(m.item)

(***************************************************************************)
(* "The queue has already advanced when clients receive                    *)
(* skip_triggered=true", whatever song it is for.                          *)
(* (queue_vote_service.py:120)                                             *)
(***************************************************************************)
AdvancedWhenHeard == \A m \in sending : ~Queued(m.item)

(***************************************************************************)
(* A song that has been finished is in the record, at whatever commit      *)
(* finish_song breaks off: the entry is written before the item goes.      *)
(* (playback_service.py:62)                                                *)
(***************************************************************************)
LeftIsRecorded == left \subseteq ToSet(played)

(***************************************************************************)
(* A song is finished once: however votes, the poll loop and the host meet *)
(* at one song, and come back to one that finish_song broke off on, only   *)
(* the last entry of a song can be that of a finish_song that was          *)
(* completed.                                                              *)
(* (playback_service.py:59, queue_vote_service.py:125)                     *)
(***************************************************************************)
FinishedOnce ==
  \A k \in 1..Len(played) : \A j \in 1..(k - 1) : played[j] = played[k] => j \in broken

(***************************************************************************)
(* "Remove excess playback history, preserving only the most recent        *)
(* entries": the last Keep songs recorded are in the history.              *)
(* (queue_history_repo.py:82)                                              *)
(***************************************************************************)
HistoryNewest ==
  \A k \in 1..Len(played) : k > Len(played) - Keep => played[k] \in ToSet(history)
=============================================================================
