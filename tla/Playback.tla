------------------------------ MODULE Playback ------------------------------
(***************************************************************************)
(* The playback of one room: its queue and session record, the host's      *)
(* Spotify player, the poll loop of PlaybackPollerService, the host's      *)
(* requests of PlaybackControlService and the finish_song of               *)
(* PlaybackService that both use.                                          *)
(*                                                                         *)
(* All of them are coroutines of one event loop: what lies between two     *)
(* awaits is one action, and every await (a Spotify call, a broadcast, a   *)
(* thread that writes the session) lets the others run.  A poll loop works *)
(* on a session object that it loaded before it asked Spotify.             *)
(***************************************************************************)
EXTENDS Naturals, Sequences

CONSTANTS
  Pollers,       \* poll-loop tasks of the room (one, unless started twice)
  Requests,      \* the host's control requests that may be open at once
  Items,         \* queue item ids
  Songs,         \* the tracks the members queue
  Foreign,       \* tracks that Spotify plays on its own or for its owner
  Song,          \* the track of each item
  Group,         \* "manual" or "playlist" for each item
  NoItem, NoTrack, Keep,
  MaxRequests,   \* bound on the host requests of a behaviour
  MaxSpotify     \* bound on what Spotify and its owner do unasked

Tracks == Songs \cup Foreign

ASSUME PlaybackAssumption ==
  /\ Pollers \cap Requests = {}
  /\ Song \in [Items -> Songs]
  /\ Group \in [Items -> {"manual", "playlist"}]
  /\ NoItem \notin Items
  /\ NoTrack \notin Tracks
  /\ Keep \notin Tracks \cup {NoTrack}
  /\ MaxRequests \in Nat /\ MaxSpotify \in Nat

VARIABLES
  queue,       \* the queue items in playing order
  added,       \* the items added so far
  cur, status, \* Session.current_song_id and playback_status
  player,      \* what Spotify would report: a track and a mode
  pc,          \* the next step of each poll loop and request
  snap,        \* the session as each of them loaded it
  obs,         \* the player as each poll loop saw it
  target,      \* the item whose track is being started
  upd,         \* the session fields about to be written
  aired,       \* the items whose track was started (history variable)
  spent        \* [host, spotify] : how much of the bounds is used

session == <<cur, status>>
actors == <<pc, snap, obs, target, upd>>
vars == <<queue, added, session, player, actors, aired, spent>>

-----------------------------------------------------------------------------
(* The queue *)

Head1 == IF queue = <<>> THEN NoItem ELSE queue[1]
Second == IF Len(queue) < 2 THEN NoItem ELSE queue[2]
Queued == {queue[n] : n \in DOMAIN queue}

(***************************************************************************)
(* Variant that puts a new item before those of its own group.             *)
(***************************************************************************)
PrecedesOthers(i, j) == Group[i] = "manual" /\ Group[j] = "playlist"

(***************************************************************************)
(* get_all_by_session: manual items before playlist items.                 *)
(***************************************************************************)
Precedes(i, j) == Group[i] = "manual" \/ Group[j] = "playlist"

TrackOf(i) == IF i = NoItem THEN NoTrack ELSE Song[i]

-----------------------------------------------------------------------------
(* The session and the player as somebody has seen them *)

(***************************************************************************)
(* Variant that asks for a current song, not for this one.                 *)
(***************************************************************************)
OwnsAny(s, i) == i # NoItem /\ s.cur # NoTrack

(***************************************************************************)
(* _queue_owns_current_track, with a loaded session s and a queue item i.  *)
(***************************************************************************)
Owns(s, i) == i # NoItem /\ s.cur # NoTrack /\ Song[i] = s.cur

(***************************************************************************)
(* What get_current_playback returns: 204 is the mode "idle"; a stopped    *)
(* track for which _is_song_ended holds (or that has no duration) is       *)
(* "ended"; without an item (an advertisement, a podcast) the track id is  *)
(* None.                                                                   *)
(***************************************************************************)
Players ==
  [track : Tracks, mode : {"playing", "paused", "ended"}]
    \cup [track : {NoTrack}, mode : {"playing", "ended", "idle"}]

Idle == [track |-> NoTrack, mode |-> "idle"]

Statuses == {"none", "playing", "paused", "stopped"}
Session == [cur : Tracks \cup {NoTrack}, status : Statuses]
Loaded == [cur |-> cur, status |-> status]
Nothing == [cur |-> Keep, status |-> Keep]
Updates == [cur : Tracks \cup {NoTrack, Keep}, status : Statuses \cup {Keep}]

NowPlaying(i) == [cur |-> Song[i], status |-> "playing"]
OnlyStatus(s) == [cur |-> Keep, status |-> s]

Actors == Pollers \cup Requests

Goto(a, step) == pc' = [pc EXCEPT ![a] = step]

(***************************************************************************)
(* A poll loop goes back to sleep, a request is answered: its locals are   *)
(* gone.                                                                   *)
(***************************************************************************)
Rest(a) ==
  /\ Goto(a, "rest")
  /\ snap' = [snap EXCEPT ![a] = Nothing]
  /\ obs' = [obs EXCEPT ![a] = Idle]
  /\ target' = [target EXCEPT ![a] = NoItem]
  /\ upd' = [upd EXCEPT ![a] = Nothing]

(***************************************************************************)
(* The call adapter.play for item i, or adapter.pause when the queue has   *)
(* no item: the common tail of _advance_queue and skip.                    *)
(***************************************************************************)
PlayOrStop(a, i) ==
  /\ target' = [target EXCEPT ![a] = i]
  /\ upd' = [upd EXCEPT ![a] = IF i = NoItem THEN OnlyStatus("stopped") ELSE NowPlaying(i)]
  /\ Goto(a, IF i = NoItem THEN "stop" ELSE "play")

-----------------------------------------------------------------------------
Init ==
  /\ queue = <<>>
  /\ added = {}
  /\ cur = NoTrack
  /\ status = "none"
  /\ player \in {Idle} \cup [track : Foreign, mode : {"playing", "paused"}]
  /\ pc = [a \in Actors |-> "rest"]
  /\ snap = [a \in Actors |-> Nothing]
  /\ obs = [a \in Actors |-> Idle]
  /\ target = [a \in Actors |-> NoItem]
  /\ upd = [a \in Actors |-> Nothing]
  /\ aired = {}
  /\ spent = [host |-> 0, spotify |-> 0]

(***************************************************************************)
(* add_to_queue: behind the items of i's group and those of earlier groups *)
(***************************************************************************)
Add(i) ==
  /\ i \notin added
  /\ added' = added \cup {i}
  /\ \E n \in 0..Len(queue) :
       /\ \A k \in DOMAIN queue : Precedes(queue[k], i) <=> k <= n
       /\ queue' = SubSeq(queue, 1, n) \o <<i>> \o SubSeq(queue, n + 1, Len(queue))
  /\ UNCHANGED <<session, player, actors, aired, spent>>

(***************************************************************************)
(* remove_from_queue.                                                      *)
(***************************************************************************)
Remove(n) ==
  /\ queue' = SubSeq(queue, 1, n - 1) \o SubSeq(queue, n + 1, Len(queue))
  /\ UNCHANGED <<added, session, player, actors, aired, spent>>

(***************************************************************************)
(* finish_song up to the broadcast of song_changed: history is written and *)
(* the first item leaves.                                                  *)
(***************************************************************************)
FinishHead == queue' = IF queue = <<>> THEN queue ELSE Tail(queue)

(***************************************************************************)
(* A skip vote that reaches the threshold: finish_song, if its item is     *)
(* still the first one (expected_item_id).                                 *)
(***************************************************************************)
VoteSkip(i) ==
  /\ i = Head1
  /\ FinishHead
  /\ UNCHANGED <<added, session, player, actors, aired, spent>>

-----------------------------------------------------------------------------
(* The poll loop *)

(***************************************************************************)
(* _get_session_state, in a thread.                                        *)
(***************************************************************************)
PollLoad(p) ==
  /\ pc[p] = "rest"
  /\ snap' = [snap EXCEPT ![p] = Loaded]
  /\ Goto(p, "observe")
  /\ UNCHANGED <<queue, added, session, player, obs, target, upd, aired, spent>>

PollObserve(p) ==
  /\ pc[p] = "observe"
  /\ obs' = [obs EXCEPT ![p] = player]
  /\ Goto(p, "decide")
  /\ UNCHANGED <<queue, added, session, player, snap, target, upd, aired, spent>>

(***************************************************************************)
(* An HTTP error (429, 401, 5xx) or a network error: back off and sleep.   *)
(***************************************************************************)
PollFails(p) ==
  /\ pc[p] = "observe"
  /\ Rest(p)
  /\ UNCHANGED <<queue, added, session, player, aired, spent>>

(***************************************************************************)
(* Variant of _advance_queue that always finishes the first item.          *)
(***************************************************************************)
HeadTaken(p) == Head1 # NoItem

HeadOwned(p) == Owns(snap[p], Head1)

(***************************************************************************)
(* _advance_queue up to its first await: the first item is finished if the *)
(* queue owns the track of the loaded session; else it is played itself.   *)
(***************************************************************************)
Advance(p) ==
  \/ /\ HeadOwned(p)
     /\ FinishHead
     /\ Goto(p, "pick")
     /\ UNCHANGED <<target, upd>>
  \/ /\ ~HeadOwned(p)
     /\ PlayOrStop(p, Head1)
     /\ UNCHANGED queue

(***************************************************************************)
(* What was loaded and seen is not looked at again.                        *)
(***************************************************************************)
Decided(p) ==
  /\ pc[p] = "decide"
  /\ snap' = [snap EXCEPT ![p] = Nothing]
  /\ obs' = [obs EXCEPT ![p] = Idle]

Elsewhere(p) == obs[p].mode # "idle" /\ obs[p].track # snap[p].cur

(***************************************************************************)
(* should_advance_with_next and should_take_over_with_current.             *)
(***************************************************************************)
ShouldAdvance(p) ==
  \/ obs[p].track = TrackOf(Second)
  \/ HeadOwned(p) /\ Second # NoItem

TakesOver(p) == Head1 # NoItem /\ ~HeadOwned(p)

(***************************************************************************)
(* Variant that waits for a device instead of advancing.                   *)
(***************************************************************************)
IdleIgnored(p) == FALSE

(***************************************************************************)
(* The current track has ended, or Spotify reports no active device.       *)
(***************************************************************************)
IdleSeen(p) == obs[p].mode = "idle" /\ snap[p].status = "playing"

EndSeen(p) ==
  /\ obs[p].track = snap[p].cur
  /\ obs[p].mode = "ended"
  /\ snap[p].status \in {"playing", "paused"}

PollAdvance(p) ==
  /\ Decided(p)
  /\ \/ IdleSeen(p) \/ EndSeen(p)
     \/ Elsewhere(p) /\ (ShouldAdvance(p) \/ TakesOver(p))
  /\ Advance(p)
  /\ UNCHANGED <<added, session, player, aired, spent>>

(***************************************************************************)
(* _adopt_external_track: what it writes for the state s that was seen.    *)
(***************************************************************************)
Adopted(s) ==
  [cur |-> s.track, status |-> IF s.mode = "playing" THEN "playing" ELSE "paused"]

(***************************************************************************)
(* An external track is adopted; the queue's song it replaced is finished. *)
(***************************************************************************)
PollAdopt(p) ==
  /\ Decided(p)
  /\ Elsewhere(p)
  /\ ~ShouldAdvance(p) /\ ~TakesOver(p)
  /\ IF HeadOwned(p) THEN FinishHead ELSE UNCHANGED queue
  /\ upd' = [upd EXCEPT ![p] = Adopted(obs[p])]
  /\ Goto(p, "write")
  /\ UNCHANGED <<added, session, player, target, aired, spent>>

(***************************************************************************)
(* The same track, paused or resumed outside CrowdRoom.                    *)
(***************************************************************************)
PollPauseSeen(p) ==
  /\ obs[p].mode = "paused" /\ snap[p].status = "playing"
  /\ upd' = [upd EXCEPT ![p] = OnlyStatus("paused")]

(***************************************************************************)
(* Variant without the branch for a track resumed outside CrowdRoom.       *)
(***************************************************************************)
ResumeUnseen(p) == FALSE

PollResumeSeen(p) ==
  /\ obs[p].mode = "playing" /\ snap[p].status = "paused"
  /\ upd' = [upd EXCEPT ![p] = OnlyStatus("playing")]

PollSameTrack(p) ==
  /\ Decided(p)
  /\ obs[p].mode # "idle" /\ ~Elsewhere(p)
  /\ PollPauseSeen(p) \/ PollResumeSeen(p)
  /\ Goto(p, "write")
  /\ UNCHANGED <<queue, added, session, player, target, aired, spent>>

(***************************************************************************)
(* No branch of the loop's body applies.                                   *)
(***************************************************************************)
PollNothing(p) ==
  /\ pc[p] = "decide"
  /\ \/ obs[p].mode = "idle" /\ snap[p].status # "playing"
     \/ /\ obs[p].mode # "idle" /\ ~Elsewhere(p)
        /\ \/ snap[p].status \notin {"playing", "paused"}
           \/ obs[p].mode = snap[p].status
  /\ Rest(p)
  /\ UNCHANGED <<queue, added, session, player, aired, spent>>

(***************************************************************************)
(* After finish_song: the next song is read when the broadcast is over.    *)
(***************************************************************************)
Pick(a) ==
  /\ pc[a] = "pick"
  /\ PlayOrStop(a, Head1)
  /\ UNCHANGED <<queue, added, session, player, snap, obs, aired, spent>>

-----------------------------------------------------------------------------
(* Calls of the Spotify adapter *)

(***************************************************************************)
(* play, accepted (at once, or again with a fresh token after a 401).      *)
(***************************************************************************)
StartTrack(a) ==
  /\ pc[a] = "play"
  /\ player' = [track |-> Song[target[a]], mode |-> "playing"]
  /\ aired' = aired \cup {target[a]}
  /\ UNCHANGED <<queue, added, session, spent>>

PlayOk(a) ==
  /\ StartTrack(a)
  /\ Goto(a, "write")
  /\ UNCHANGED <<snap, obs, target, upd>>

(***************************************************************************)
(* The answer is lost: an exception, although the track may be playing.    *)
(***************************************************************************)
PlayAnswerLost(a) == StartTrack(a) /\ Rest(a)

(***************************************************************************)
(* A pause stops what plays; within 5 s of the end it looks like an end.   *)
(***************************************************************************)
PauseTrack ==
  \E m \in {"paused", "ended"} :
    /\ player.mode = "playing"
    /\ m = "paused" => player.track # NoTrack
    /\ player' = [player EXCEPT !.mode = m]

(***************************************************************************)
(* The pause of a queue that ran out: HTTPStatusError is ignored.          *)
(***************************************************************************)
StopOk(a) ==
  /\ pc[a] = "stop"
  /\ PauseTrack \/ UNCHANGED player
  /\ Goto(a, "write")
  /\ UNCHANGED <<queue, added, session, snap, obs, target, upd, aired, spent>>

PauseOk(h) ==
  /\ pc[h] = "pause"
  /\ PauseTrack
  /\ Goto(h, "write")
  /\ UNCHANGED <<queue, added, session, snap, obs, target, upd, aired, spent>>

ResumeOk(h) ==
  /\ pc[h] = "resume"
  /\ player.mode # "idle"
  /\ player' = [player EXCEPT !.mode = "playing"]
  /\ Goto(h, "write")
  /\ UNCHANGED <<queue, added, session, snap, obs, target, upd, aired, spent>>

(***************************************************************************)
(* Variant that goes on to write the session after a failed call.          *)
(***************************************************************************)
FailureIgnored(a) ==
  /\ pc[a] \in {"play", "stop", "pause", "resume"}
  /\ Goto(a, "write")
  /\ UNCHANGED <<queue, added, session, player, snap, obs, target, upd, aired, spent>>

(***************************************************************************)
(* An error answer or none at all ends the request or this turn of the     *)
(* loop; the queue stays as it was left before the call.                   *)
(***************************************************************************)
CallFails(a) ==
  /\ pc[a] \in {"play", "stop", "pause", "resume"}
  /\ Rest(a)
  /\ UNCHANGED <<queue, added, session, player, aired, spent>>

-----------------------------------------------------------------------------
(* Writing the session *)

(***************************************************************************)
(* Variant that overwrites the fields the caller did not provide.          *)
(***************************************************************************)
AllWritten(new, loaded, old) == new

(***************************************************************************)
(* SessionRepository.update commits the fields that differ from the object *)
(* in the identity map, which may be older than the row.  The poll loop    *)
(* opens a database session for every write, and resume and pause read     *)
(* theirs after the call, so that for them everything is written.          *)
(***************************************************************************)
Written(new, loaded, old) == IF new \in {Keep, loaded} THEN old ELSE new

Write(a) ==
  /\ pc[a] = "write"
  /\ LET s == IF a \in Pollers THEN Nothing ELSE snap[a]
     IN /\ cur' = Written(upd[a].cur, s.cur, cur)
        /\ status' = Written(upd[a].status, s.status, status)
  /\ Rest(a)
  /\ UNCHANGED <<queue, added, player, aired, spent>>

-----------------------------------------------------------------------------
(* The host's requests *)

HostAsks(h) ==
  /\ pc[h] = "rest"
  /\ spent.host < MaxRequests
  /\ spent' = [spent EXCEPT !.host = @ + 1]

(***************************************************************************)
(* The session object that a request keeps across its awaits.  A 401 makes *)
(* it refresh the token, whose commit expires the object: then it is read  *)
(* again when it is written.                                               *)
(***************************************************************************)
Loads(h) == \E s \in {Loaded, Nothing} : snap' = [snap EXCEPT ![h] = s]

(***************************************************************************)
(* play(song_id) of an item the host's client has seen, after the token.   *)
(***************************************************************************)
HostPlays(h, i) ==
  /\ HostAsks(h)
  /\ i \in added
  /\ ~(cur = Song[i] /\ status = "playing")
  /\ Loads(h)
  /\ target' = [target EXCEPT ![h] = i]
  /\ upd' = [upd EXCEPT ![h] = NowPlaying(i)]
  /\ Goto(h, IF cur = Song[i] /\ status = "paused" THEN "resume" ELSE "play")
  /\ UNCHANGED <<queue, added, session, player, obs, aired>>

(***************************************************************************)
(* play without a song, and pause.                                         *)
(***************************************************************************)
HostToggles(h) ==
  /\ HostAsks(h)
  /\ \/ Goto(h, "resume") /\ upd' = [upd EXCEPT ![h] = OnlyStatus("playing")]
     \/ Goto(h, "pause") /\ upd' = [upd EXCEPT ![h] = OnlyStatus("paused")]
  /\ UNCHANGED <<queue, added, session, player, snap, obs, target, aired>>

(***************************************************************************)
(* skip up to finish_song's broadcast.  After a delete the objects of the  *)
(* database session no longer expire (expire_on_commit = False).           *)
(***************************************************************************)
HostSkips(h) ==
  /\ HostAsks(h)
  /\ FinishHead
  /\ IF queue = <<>> THEN Loads(h) ELSE snap' = [snap EXCEPT ![h] = Loaded]
  /\ Goto(h, "pick")
  /\ UNCHANGED <<added, session, player, obs, target, upd, aired>>

(***************************************************************************)
(* POST /session/{id}/finish: finish_song and nothing else.                *)
(***************************************************************************)
HostFinishes ==
  /\ spent.host < MaxRequests
  /\ spent' = [spent EXCEPT !.host = @ + 1]
  /\ FinishHead
  /\ UNCHANGED <<added, session, player, actors, aired>>

-----------------------------------------------------------------------------
(* Spotify and its owner *)

TrackEnds ==
  /\ player.mode = "playing"
  /\ player' \in {[player EXCEPT !.mode = "ended"], Idle}

(***************************************************************************)
(* The owner, or autoplay, plays another track or an advertisement.        *)
(***************************************************************************)
PlaysElse ==
  player' \in [track : Foreign \cup {NoTrack}, mode : {"playing"}]

OwnerResumes ==
  /\ player.mode \in {"paused", "ended"}
  /\ player' = [player EXCEPT !.mode = "playing"]

Spotify ==
  /\ spent.spotify < MaxSpotify
  /\ spent' = [spent EXCEPT !.spotify = @ + 1]
  /\ TrackEnds \/ PlaysElse \/ PauseTrack \/ OwnerResumes
  /\ UNCHANGED <<queue, added, session, actors, aired>>

-----------------------------------------------------------------------------
Call(a) == PlayOk(a) \/ StopOk(a)

PollStep(p) ==
  \/ PollLoad(p) \/ PollObserve(p)
  \/ PollAdvance(p) \/ PollAdopt(p) \/ PollSameTrack(p) \/ PollNothing(p)
  \/ Pick(p) \/ Call(p) \/ Write(p)

RequestStep(h) ==
  \/ Pick(h) \/ Call(h) \/ PauseOk(h) \/ ResumeOk(h) \/ Write(h)
  \/ CallFails(h)

HostStarts(h) ==
  HostToggles(h) \/ HostSkips(h) \/ \E i \in Items : HostPlays(h, i)

Next ==
  \/ \E i \in Items : Add(i) \/ VoteSkip(i)
  \/ \E n \in DOMAIN queue : Remove(n)
  \/ \E p \in Pollers : PollStep(p) \/ PollFails(p)
  \/ \E h \in Requests : RequestStep(h) \/ HostStarts(h)
  \/ \E a \in Actors : CallFails(a) \/ PlayAnswerLost(a)
  \/ HostFinishes
  \/ Spotify

(***************************************************************************)
(* The loop is never cancelled here and goes round for ever; a request is  *)
(* run to its end; Spotify does not answer every call of the loop with an  *)
(* error.  Nothing is assumed of members, host or owner.                   *)
(***************************************************************************)
Fairness ==
  /\ \A p \in Pollers :
       /\ WF_vars(PollStep(p))
       /\ SF_vars(PollObserve(p))
       /\ SF_vars(Call(p))
  /\ \A h \in Requests : WF_vars(RequestStep(h))

Spec == Init /\ [][Next]_vars /\ Fairness

-----------------------------------------------------------------------------
(* Properties *)

(***************************************************************************)
(* The type invariant of the room, the player and the coroutines.          *)
(***************************************************************************)
TypeOK ==
  /\ queue \in Seq(Items)
  /\ added \subseteq Items
  /\ cur \in Tracks \cup {NoTrack}
  /\ status \in Statuses
  /\ player \in Players
  /\ pc \in [Actors -> {"rest", "observe", "decide", "pick", "play", "stop",
                        "pause", "resume", "write"}]
  /\ snap \in [Actors -> Updates]
  /\ obs \in [Actors -> Players]
  /\ target \in [Actors -> Items \cup {NoItem}]
  /\ upd \in [Actors -> Updates]
  /\ aired \subseteq Items
  /\ spent \in [{"host", "spotify"} -> Nat]

(***************************************************************************)
(* No song is queued twice, nor played from outside CrowdRoom.             *)
(***************************************************************************)
DistinctSongs ==
  /\ \A i, j \in Items : Song[i] = Song[j] => i = j
  /\ Foreign \cap Songs = {}

(***************************************************************************)
(* Nobody holds a queue song for one that was played unless its item was:  *)
(* neither the session and the player, nor what a coroutine loaded, saw or *)
(* is about to write (_poll_loop, _adopt_external_track, play, skip).      *)
(***************************************************************************)
Heard(track) == track \in Songs => \E i \in aired : Song[i] = track

HeardOnly ==
  /\ Heard(cur) /\ Heard(player.track)
  /\ \A a \in Actors :
       /\ Heard(snap[a].cur) /\ Heard(obs[a].track)
       /\ pc[a] \in {"stop", "pause", "resume", "write"} => Heard(upd[a].cur)
       /\ pc[a] = "play" => target[a] \in Items /\ upd[a].cur = Song[target[a]]

(***************************************************************************)
(* A queued song that has not been played is waiting; the poll loop never  *)
(* finishes it ("the queue's first item is a waiting song that must not be *)
(* passed to finish_song"), whatever it saw before the song was queued and *)
(* whoever acts meanwhile.                                                 *)
(***************************************************************************)
Waiting == Queued \ aired

WaitingSongKept ==
  [][\A p \in Pollers :
       pc[p] = "decide" /\ pc'[p] # "decide" => Waiting \subseteq Queued']_vars

(***************************************************************************)
(* The same of the host's skip, which says it skips "the current song".    *)
(***************************************************************************)
SkipKeepsWaiting ==
  [][\A h \in Requests :
       pc[h] = "rest" /\ pc'[h] = "pick" => Waiting \subseteq Queued']_vars

(***************************************************************************)
(* The queue that the poll loop, the host and the votes take songs from is *)
(* the one that the table promises (get_all_by_session, finish_song): a    *)
(* song enters behind its group, leaves once, and the rest keep their      *)
(* order.                                                                  *)
(***************************************************************************)
PlayOrder ==
  {p \in Queued \X Queued :
     /\ Group[p[1]] = Group[p[2]]
     /\ \E m, n \in DOMAIN queue : m < n /\ p = <<queue[m], queue[n]>>}

Fifo == INSTANCE FifoQueue WITH queued <- Queued, before <- PlayOrder

IsFifoQueue == Fifo!Spec

(***************************************************************************)
(* Songs in the queue of a playing room do not wait in front of a silent   *)
(* player: the loop starts one, or somebody pauses or stops (_poll_loop).  *)
(***************************************************************************)
Silent == player.mode \in {"ended", "idle"}

QueueKeepsPlaying ==
  status = "playing" /\ queue # <<>> /\ Silent
    ~> ~Silent \/ status # "playing" \/ queue = <<>>

(***************************************************************************)
(* Once the owner and the host leave the player alone, the session agrees  *)
(* with it, unless it says stopped: playing means that the current song is *)
(* heard, paused that nothing is.                                          *)
(***************************************************************************)
Agrees ==
  /\ status = "playing" =>
       player.mode = "playing" /\ player.track = cur
  /\ status = "paused" => player.mode # "playing"

Settles == <>[]Agrees
=============================================================================
