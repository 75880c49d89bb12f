--------------------------- MODULE PlaybackProofs ---------------------------
(***************************************************************************)
(* For any number of poll loops, requests, songs and outside events: the   *)
(* poll loop finishes a waiting song only if the same track was played for *)
(* another item, or from outside; and never if no song is queued twice.    *)
(* The queue itself keeps what the FIFO queue promises, whoever acts.      *)
(***************************************************************************)
EXTENDS Playback, SequenceTheorems, TLAPS

(***************************************************************************)
(* HeardOnly without its assumption on the tracks: whatever is taken for   *)
(* played was played for an item, or may have been from outside.           *)
(***************************************************************************)
Known(track) == track \in Songs \ Foreign => \E i \in aired : Song[i] = track

KnownBy(a) ==
  /\ Known(snap[a].cur) /\ Known(obs[a].track)
  /\ pc[a] \in {"stop", "pause", "resume", "write"} => Known(upd[a].cur)
  /\ pc[a] = "play" => target[a] \in Items /\ upd[a].cur = Song[target[a]]

KnownOnly ==
  /\ Known(cur) /\ Known(player.track)
  /\ \A a \in Actors : KnownBy(a)

IInv == TypeOK /\ KnownOnly

(***************************************************************************)
(* The queue stays a sequence of items.                                    *)
(***************************************************************************)
LEMMA HeadInQueue ==
  ASSUME queue \in Seq(Items)
  PROVE  Head1 \in Items \cup {NoItem}
BY DEF Head1

LEMMA FinishType ==
  ASSUME queue \in Seq(Items), FinishHead
  PROVE  queue' \in Seq(Items)
BY DEF FinishHead

(***************************************************************************)
(* Only the first item leaves when finish_song is called.                  *)
(***************************************************************************)
LEMMA FinishLeaves ==
  ASSUME queue \in Seq(Items), FinishHead
  PROVE  Queued \subseteq Queued' \cup {Head1}
<1>1. CASE queue = <<>>
  BY <1>1 DEF FinishHead, Queued
<1>2. CASE queue # <<>>
  <2>1. queue' = Tail(queue) /\ Head1 = queue[1]
    BY <1>2 DEF FinishHead, Head1
  <2>2. SUFFICES ASSUME NEW n \in DOMAIN queue, queue[n] # queue[1]
                 PROVE  queue[n] \in Queued'
    BY <2>1 DEF Queued
  <2>3. n - 1 \in DOMAIN queue' /\ queue'[n - 1] = queue[n]
    BY <1>2, <2>1, <2>2
  <2> QED
    BY <2>3 DEF Queued
<1> QED
  BY <1>1, <1>2

-----------------------------------------------------------------------------
(* Types *)

RoomTyped ==
  /\ queue \in Seq(Items)
  /\ added \subseteq Items
  /\ cur \in Tracks \cup {NoTrack}
  /\ status \in Statuses
  /\ player \in Players
  /\ aired \subseteq Items
  /\ spent \in [{"host", "spotify"} -> Nat]

Steps == {"rest", "observe", "decide", "pick", "play", "stop",
          "pause", "resume", "write"}

ActorsTyped ==
  /\ pc \in [Actors -> Steps]
  /\ snap \in [Actors -> Updates]
  /\ obs \in [Actors -> Players]
  /\ target \in [Actors -> Items \cup {NoItem}]
  /\ upd \in [Actors -> Updates]

LEMMA TypeParts == TypeOK <=> RoomTyped /\ ActorsTyped
BY DEF TypeOK, RoomTyped, ActorsTyped, Steps

(***************************************************************************)
(* The values that are written into the records.                           *)
(***************************************************************************)
LEMMA ValuesTyped ==
  /\ Nothing \in Updates
  /\ Idle \in Players
  /\ \A i \in Items : NowPlaying(i) \in Updates
  /\ \A s \in Statuses : OnlyStatus(s) \in Updates
  /\ RoomTyped => Loaded \in Updates
BY PlaybackAssumption
   DEF PlaybackAssumption, Nothing, Updates, Idle, Players, NowPlaying, OnlyStatus,
       Loaded, RoomTyped, Statuses, Tracks

LEMMA RestTyped ==
  ASSUME ActorsTyped, NEW a \in Actors, Rest(a)
  PROVE  ActorsTyped'
BY ValuesTyped DEF ActorsTyped, Rest, Goto, Steps

LEMMA PlayOrStopTyped ==
  ASSUME ActorsTyped, NEW a \in Actors, NEW i \in Items \cup {NoItem}, PlayOrStop(a, i),
         UNCHANGED <<snap, obs>> \/ Decided(a)
  PROVE  ActorsTyped'
<1>1. OnlyStatus("stopped") \in Updates
  BY ValuesTyped DEF Statuses
<1> QED
  BY <1>1, ValuesTyped DEF ActorsTyped, PlayOrStop, Goto, Decided, Steps

(***************************************************************************)
(* One step per action keeps the types.                                    *)
(***************************************************************************)
LEMMA TypeStep ==
  ASSUME RoomTyped, ActorsTyped, KnownOnly, Next
  PROVE  RoomTyped' /\ ActorsTyped'
<1> USE DEF session, actors, HostAsks
<1>1. ASSUME NEW i \in Items, Add(i)
      PROVE  RoomTyped' /\ ActorsTyped'
  <2>1. PICK n \in 0..Len(queue) :
          queue' = SubSeq(queue, 1, n) \o <<i>> \o SubSeq(queue, n + 1, Len(queue))
    BY <1>1 DEF Add
  <2>2. queue' \in Seq(Items)
    BY <2>1 DEF RoomTyped
  <2> QED
    BY <1>1, <2>2 DEF Add, RoomTyped, ActorsTyped
<1>2. ASSUME NEW i \in Items, VoteSkip(i)
      PROVE  RoomTyped' /\ ActorsTyped'
  BY <1>2, FinishType DEF VoteSkip, RoomTyped, ActorsTyped
<1>3. ASSUME NEW n \in DOMAIN queue, Remove(n)
      PROVE  RoomTyped' /\ ActorsTyped'
  <2>1. queue' \in Seq(Items)
    BY <1>3 DEF Remove, RoomTyped
  <2> QED
    BY <1>3, <2>1 DEF Remove, RoomTyped, ActorsTyped
<1>4. ASSUME NEW p \in Pollers, PollLoad(p)
      PROVE  RoomTyped' /\ ActorsTyped'
  BY <1>4, ValuesTyped DEF PollLoad, Goto, RoomTyped, ActorsTyped, Steps, Actors
<1>5. ASSUME NEW p \in Pollers, PollObserve(p)
      PROVE  RoomTyped' /\ ActorsTyped'
  BY <1>5 DEF PollObserve, Goto, RoomTyped, ActorsTyped, Steps, Actors
<1>6. ASSUME NEW p \in Pollers, PollFails(p)
      PROVE  RoomTyped' /\ ActorsTyped'
  BY <1>6, RestTyped DEF PollFails, RoomTyped, Actors
<1>7. ASSUME NEW p \in Pollers, PollAdvance(p)
      PROVE  RoomTyped' /\ ActorsTyped'
  <2>1. Advance(p) /\ Decided(p) /\ UNCHANGED <<added, session, player, aired, spent>>
    BY <1>7 DEF PollAdvance
  <2>2. CASE HeadOwned(p)
    BY <2>1, <2>2, FinishType, ValuesTyped
       DEF Advance, Decided, Goto, RoomTyped, ActorsTyped, Steps, Actors
  <2>3. CASE ~HeadOwned(p)
    BY <2>1, <2>3, PlayOrStopTyped, HeadInQueue DEF Advance, RoomTyped, Actors
  <2> QED
    BY <2>2, <2>3
<1>8. ASSUME NEW p \in Pollers, PollAdopt(p)
      PROVE  RoomTyped' /\ ActorsTyped'
  <2>1. queue' \in Seq(Items)
    BY <1>8, FinishType DEF PollAdopt, RoomTyped
  <2>2. Adopted(obs[p]) \in Updates
    BY DEF ActorsTyped, Players, Updates, Statuses, Actors, Adopted
  <2> QED
    BY <1>8, <2>1, <2>2, ValuesTyped
       DEF PollAdopt, Decided, Goto, RoomTyped, ActorsTyped, Steps, Actors
<1>9. ASSUME NEW p \in Pollers, PollSameTrack(p)
      PROVE  RoomTyped' /\ ActorsTyped'
  <2>1. OnlyStatus("paused") \in Updates /\ OnlyStatus("playing") \in Updates
    BY ValuesTyped DEF Statuses
  <2> QED
    BY <1>9, <2>1, ValuesTyped
       DEF PollSameTrack, PollPauseSeen, PollResumeSeen, Decided, Goto, RoomTyped,
           ActorsTyped, Steps, Actors
<1>10. ASSUME NEW p \in Pollers, PollNothing(p)
       PROVE  RoomTyped' /\ ActorsTyped'
  BY <1>10, RestTyped DEF PollNothing, RoomTyped, Actors
<1>11. ASSUME NEW a \in Actors, Pick(a)
       PROVE  RoomTyped' /\ ActorsTyped'
  BY <1>11, PlayOrStopTyped, HeadInQueue DEF Pick, RoomTyped
<1>12. ASSUME NEW a \in Actors, StartTrack(a)
       PROVE  RoomTyped' /\ target[a] \in Items
  <2>1. target[a] \in Items
    BY <1>12 DEF StartTrack, KnownOnly, KnownBy
  <2> QED
    BY <1>12, <2>1, PlaybackAssumption
       DEF PlaybackAssumption, StartTrack, RoomTyped, Players, Tracks
<1>13. ASSUME NEW a \in Actors, PlayOk(a)
       PROVE  RoomTyped' /\ ActorsTyped'
  BY <1>12, <1>13 DEF PlayOk, Goto, ActorsTyped, Steps
<1>14. ASSUME NEW a \in Actors, PlayAnswerLost(a)
       PROVE  RoomTyped' /\ ActorsTyped'
  BY <1>12, <1>14, RestTyped DEF PlayAnswerLost
<1>15. ASSUME RoomTyped, PauseTrack
       PROVE  player' \in Players
  BY <1>15 DEF PauseTrack, RoomTyped, Players
<1>16. ASSUME NEW a \in Actors, StopOk(a)
       PROVE  RoomTyped' /\ ActorsTyped'
  BY <1>15, <1>16 DEF StopOk, Goto, RoomTyped, ActorsTyped, Steps
<1>17. ASSUME NEW h \in Requests, PauseOk(h)
       PROVE  RoomTyped' /\ ActorsTyped'
  BY <1>15, <1>17 DEF PauseOk, Goto, RoomTyped, ActorsTyped, Steps
<1>18. ASSUME NEW h \in Requests, ResumeOk(h)
       PROVE  RoomTyped' /\ ActorsTyped'
  <2>1. player' \in Players
    BY <1>18 DEF ResumeOk, RoomTyped, Players
  <2> QED
    BY <1>18, <2>1 DEF ResumeOk, Goto, RoomTyped, ActorsTyped, Steps
<1>19. ASSUME NEW a \in Actors, CallFails(a)
       PROVE  RoomTyped' /\ ActorsTyped'
  BY <1>19, RestTyped DEF CallFails, RoomTyped
<1>20. ASSUME NEW a \in Actors, Write(a)
       PROVE  RoomTyped' /\ ActorsTyped'
  <2>1. cur' \in {upd[a].cur, cur} /\ (upd[a].cur = Keep => cur' = cur)
    BY <1>20 DEF Write, Written
  <2>2. status' \in {upd[a].status, status} /\ (upd[a].status = Keep => status' = status)
    BY <1>20 DEF Write, Written
  <2>3. upd[a].cur \in Tracks \cup {NoTrack, Keep} /\ upd[a].status \in Statuses \cup {Keep}
    BY DEF ActorsTyped, Updates
  <2> QED
    <3>1. cur' \in Tracks \cup {NoTrack} /\ status' \in Statuses
      BY <2>1, <2>2, <2>3 DEF RoomTyped
    <3>2. Rest(a) /\ UNCHANGED <<queue, added, player, aired, spent>>
      BY <1>20 DEF Write
    <3> QED
      BY <3>1, <3>2, RestTyped DEF RoomTyped
<1>21. ASSUME NEW h \in Requests, Loads(h)
       PROVE  snap' \in [Actors -> Updates]
  BY <1>21, ValuesTyped DEF Loads, ActorsTyped
<1>22. ASSUME NEW h \in Requests, NEW i \in Items, HostPlays(h, i)
       PROVE  RoomTyped' /\ ActorsTyped'
  <2>1. snap' \in [Actors -> Updates]
    BY <1>21, <1>22 DEF HostPlays
  <2>2. RoomTyped'
    BY <1>22 DEF HostPlays, RoomTyped
  <2>3. pc' \in [Actors -> Steps]
    BY <1>22 DEF HostPlays, Goto, ActorsTyped, Steps
  <2> QED
    BY <1>22, <2>1, <2>2, <2>3, ValuesTyped DEF HostPlays, ActorsTyped
<1>23. ASSUME NEW h \in Requests, HostToggles(h)
       PROVE  RoomTyped' /\ ActorsTyped'
  <2>1. OnlyStatus("paused") \in Updates /\ OnlyStatus("playing") \in Updates
    BY ValuesTyped DEF Statuses
  <2> QED
    BY <1>23, <2>1 DEF HostToggles, Goto, RoomTyped, ActorsTyped, Steps
<1>24. ASSUME NEW h \in Requests, HostSkips(h)
       PROVE  RoomTyped' /\ ActorsTyped'
  <2>1. snap' \in [Actors -> Updates]
    BY <1>21, <1>24, ValuesTyped DEF HostSkips, ActorsTyped
  <2>2. queue' \in Seq(Items)
    BY <1>24, FinishType DEF HostSkips, RoomTyped
  <2> QED
    <3>1. RoomTyped'
      BY <1>24, <2>2 DEF HostSkips, RoomTyped
    <3>2. pc' \in [Actors -> Steps]
      BY <1>24 DEF HostSkips, Goto, ActorsTyped, Steps
    <3> QED
      BY <1>24, <2>1, <3>1, <3>2 DEF HostSkips, ActorsTyped
<1>25. ASSUME HostFinishes
       PROVE  RoomTyped' /\ ActorsTyped'
  BY <1>25, FinishType DEF HostFinishes, RoomTyped, ActorsTyped
<1>26. ASSUME Spotify
       PROVE  RoomTyped' /\ ActorsTyped'
  <2>1. player' \in Players
    BY <1>15, <1>26, ValuesTyped
       DEF Spotify, TrackEnds, PlaysElse, OwnerResumes, RoomTyped, Players, Tracks
  <2> QED
    BY <1>26, <2>1 DEF Spotify, RoomTyped, ActorsTyped
<1> QED
  BY <1>1, <1>2, <1>3, <1>4, <1>5, <1>6, <1>7, <1>8, <1>9, <1>10, <1>11, <1>13, <1>14,
     <1>16, <1>17, <1>18, <1>19, <1>20, <1>22, <1>23, <1>24, <1>25, <1>26
     DEF Next, PollStep, RequestStep, HostStarts, Call, Actors

-----------------------------------------------------------------------------
(* What has been heard *)

(***************************************************************************)
(* Marks and foreign tracks are nobody's queue song.                       *)
(***************************************************************************)
LEMMA NotSongs ==
  \A t \in Foreign \cup {NoTrack, Keep} : Known(t) /\ Known(t)'
BY PlaybackAssumption DEF PlaybackAssumption, Known, Tracks

(***************************************************************************)
(* What was heard stays heard: `aired` only grows.                         *)
(***************************************************************************)
LEMMA KeptIsKnown ==
  ASSUME KnownOnly, aired \subseteq aired', NEW a \in Actors,
         pc'[a] = pc[a], snap'[a] = snap[a], obs'[a] = obs[a],
         target'[a] = target[a], upd'[a] = upd[a]
  PROVE  KnownBy(a)'
BY DEF KnownOnly, KnownBy, Known

(***************************************************************************)
(* A step of actor a alone, with what it leaves to be shown.               *)
(***************************************************************************)
Alone(a) ==
  \A b \in Actors \ {a} :
    /\ pc'[b] = pc[b] /\ snap'[b] = snap[b] /\ obs'[b] = obs[b]
    /\ target'[b] = target[b] /\ upd'[b] = upd[b]

LEMMA OneActor ==
  ASSUME KnownOnly, aired \subseteq aired', NEW a \in Actors, Alone(a), KnownBy(a)',
         Known(cur)', Known(player.track)'
  PROVE  KnownOnly'
<1>1. \A b \in Actors \ {a} : KnownBy(b)'
  BY KeptIsKnown DEF Alone
<1> QED
  BY <1>1 DEF KnownOnly, KnownBy

LEMMA NobodyActs ==
  ASSUME KnownOnly, UNCHANGED <<pc, snap, obs, target, upd, aired, cur>>, Known(player.track)'
  PROVE  KnownOnly'
BY DEF KnownOnly, KnownBy, Known

LEMMA RestIsKnown ==
  ASSUME ActorsTyped, NEW a \in Actors, Rest(a)
  PROVE  KnownBy(a)' /\ Alone(a)
<1>1. pc'[a] = "rest" /\ snap'[a] = Nothing /\ obs'[a] = Idle
  BY DEF Rest, Goto, ActorsTyped
<1>2. snap'[a].cur = Keep /\ obs'[a].track = NoTrack
  BY <1>1 DEF Nothing, Idle
<1>3. Known(Keep)' /\ Known(NoTrack)'
  BY NotSongs
<1>4. Alone(a)
  BY DEF Rest, Goto, ActorsTyped, Alone
<1> QED
  BY <1>1, <1>2, <1>3, <1>4 DEF KnownBy, Known

LEMMA PlayOrStopIsKnown ==
  ASSUME ActorsTyped, KnownOnly, UNCHANGED aired, NEW a \in Actors,
         NEW i \in Items \cup {NoItem}, PlayOrStop(a, i),
         UNCHANGED <<snap, obs>> \/ Decided(a)
  PROVE  KnownBy(a)' /\ Alone(a)
<1>1. Known(Keep)' /\ Known(NoTrack)'
  BY NotSongs
<1>2. Known(snap[a].cur)' /\ Known(obs[a].track)'
  <2>1. CASE UNCHANGED <<snap, obs>>
    BY <2>1 DEF KnownOnly, KnownBy, Known
  <2>2. CASE Decided(a)
    BY <1>1, <2>2 DEF Decided, ActorsTyped, Nothing, Idle
  <2> QED
    BY <2>1, <2>2
<1>3. pc'[a] = IF i = NoItem THEN "stop" ELSE "play"
  BY DEF PlayOrStop, Goto, ActorsTyped
<1>4. target'[a] = i /\ upd'[a].cur = IF i = NoItem THEN Keep ELSE Song[i]
  BY DEF PlayOrStop, ActorsTyped, OnlyStatus, NowPlaying
<1>5. Alone(a)
  BY DEF PlayOrStop, Goto, ActorsTyped, Alone, Decided
<1> QED
  BY <1>1, <1>2, <1>3, <1>4, <1>5 DEF KnownBy, Known

(***************************************************************************)
(* One step per action keeps KnownOnly.  Only three of them bring a track  *)
(* in: a track that is started is aired in the same step, what is observed *)
(* or loaded was heard before, and what the owner plays is foreign.        *)
(***************************************************************************)
LEMMA KnownStep ==
  ASSUME RoomTyped, ActorsTyped, KnownOnly, Next
  PROVE  KnownOnly'
<1> USE DEF session, actors, HostAsks
<1> DEFINE RoomKept == UNCHANGED <<cur, player, aired>>
<1>a. ASSUME RoomKept
      PROVE  Known(cur)' /\ Known(player.track)' /\ aired \subseteq aired'
  BY <1>a DEF KnownOnly, KnownBy, Known
<1>b. Known(Keep)' /\ Known(NoTrack)'
  BY NotSongs
<1>r. ASSUME NEW a \in Actors, Rest(a), RoomKept
      PROVE  KnownOnly'
  BY <1>a, <1>r, RestIsKnown, OneActor
<1>1. ASSUME NEW i \in Items, Add(i) \/ VoteSkip(i)
      PROVE  KnownOnly'
  BY <1>1, <1>a, NobodyActs DEF Add, VoteSkip
<1>2. ASSUME NEW n \in DOMAIN queue, Remove(n)
      PROVE  KnownOnly'
  BY <1>2, <1>a, NobodyActs DEF Remove
<1>3. ASSUME NEW p \in Pollers, PollLoad(p)
      PROVE  KnownOnly'
  <2>1. p \in Actors /\ RoomKept
    BY <1>3 DEF PollLoad, Actors
  <2>2. Alone(p)
    BY <1>3 DEF PollLoad, Goto, ActorsTyped, Alone
  <2>3. KnownBy(p)'
    BY <1>3, <2>1 DEF PollLoad, Goto, ActorsTyped, KnownBy, KnownOnly, Known, Loaded
  <2> QED
    BY <1>a, <2>1, <2>2, <2>3, OneActor
<1>4. ASSUME NEW p \in Pollers, PollObserve(p)
      PROVE  KnownOnly'
  <2>1. p \in Actors /\ RoomKept
    BY <1>4 DEF PollObserve, Actors
  <2>2. Alone(p)
    BY <1>4 DEF PollObserve, Goto, ActorsTyped, Alone
  <2>3. KnownBy(p)'
    BY <1>4, <2>1 DEF PollObserve, Goto, ActorsTyped, KnownBy, KnownOnly, Known
  <2> QED
    BY <1>a, <2>1, <2>2, <2>3, OneActor
<1>5. ASSUME NEW p \in Pollers, PollFails(p) \/ PollNothing(p)
      PROVE  KnownOnly'
  BY <1>5, <1>r DEF PollFails, PollNothing, Actors
<1>6. ASSUME NEW p \in Pollers, PollAdvance(p)
      PROVE  KnownOnly'
  <2>1. p \in Actors /\ RoomKept /\ Decided(p) /\ Advance(p)
    BY <1>6 DEF PollAdvance, Actors
  <2>2. CASE HeadOwned(p)
    <3>1. Alone(p)
      BY <2>1, <2>2 DEF Advance, Decided, Goto, ActorsTyped, Alone
    <3>2. pc'[p] = "pick" /\ snap'[p].cur = Keep /\ obs'[p].track = NoTrack
      BY <2>1, <2>2 DEF Advance, Decided, Goto, ActorsTyped, Nothing, Idle
    <3>3. KnownBy(p)'
      BY <1>b, <3>2 DEF KnownBy, Known
    <3> QED
      BY <1>a, <2>1, <3>1, <3>3, OneActor
  <2>3. CASE ~HeadOwned(p)
    BY <1>a, <2>1, <2>3, PlayOrStopIsKnown, OneActor, HeadInQueue DEF Advance, RoomTyped
  <2> QED
    BY <2>2, <2>3
<1>7. ASSUME NEW p \in Pollers, PollAdopt(p) \/ PollSameTrack(p)
      PROVE  KnownOnly'
  <2>1. p \in Actors /\ RoomKept /\ Decided(p)
    BY <1>7 DEF PollAdopt, PollSameTrack, Actors
  <2>2. Alone(p)
    BY <1>7, <2>1
       DEF PollAdopt, PollSameTrack, PollPauseSeen, PollResumeSeen, Decided, Goto,
           ActorsTyped, Alone
  <2>3. pc'[p] = "write" /\ snap'[p].cur = Keep /\ obs'[p].track = NoTrack
    BY <1>7, <2>1
       DEF PollAdopt, PollSameTrack, Decided, Goto, ActorsTyped, Nothing, Idle
  <2>4. upd'[p].cur \in {obs[p].track, Keep}
    BY <1>7, <2>1
       DEF PollAdopt, PollSameTrack, PollPauseSeen, PollResumeSeen, OnlyStatus, Adopted,
           ActorsTyped
  <2>5. KnownBy(p)'
    BY <1>b, <2>1, <2>3, <2>4 DEF KnownBy, Known, KnownOnly
  <2> QED
    BY <1>a, <2>1, <2>2, <2>5, OneActor
<1>8. ASSUME NEW a \in Actors, Pick(a)
      PROVE  KnownOnly'
  <2>1. RoomKept /\ PlayOrStop(a, Head1) /\ UNCHANGED <<snap, obs>>
    BY <1>8 DEF Pick
  <2>2. KnownBy(a)' /\ Alone(a)
    BY <2>1, PlayOrStopIsKnown, HeadInQueue DEF RoomTyped
  <2> QED
    BY <1>a, <2>1, <2>2, OneActor
<1>9. ASSUME NEW a \in Actors, StartTrack(a)
      PROVE  /\ Known(cur)' /\ Known(player.track)' /\ aired \subseteq aired'
             /\ player'.track = Song[target[a]]
  BY <1>9 DEF StartTrack, KnownOnly, KnownBy, Known
<1>10. ASSUME NEW a \in Actors, PlayOk(a)
       PROVE  KnownOnly'
  <2>1. Alone(a) /\ pc'[a] = "write" /\ UNCHANGED <<snap, obs, target, upd>>
    BY <1>10 DEF PlayOk, Goto, ActorsTyped, Alone
  <2>2. StartTrack(a) /\ upd[a].cur = Song[target[a]]
    BY <1>10 DEF PlayOk, StartTrack, KnownOnly, KnownBy
  <2>3. upd'[a].cur = player'.track
    BY <1>9, <2>1, <2>2
  <2>4. Known(snap[a].cur)' /\ Known(obs[a].track)'
    BY <1>9, <2>1, <2>2 DEF KnownOnly, KnownBy, Known
  <2>5. KnownBy(a)'
    BY <1>9, <2>1, <2>2, <2>3, <2>4 DEF KnownBy
  <2> QED
    BY <1>9, <2>1, <2>2, <2>5, OneActor
<1>11. ASSUME NEW a \in Actors, PlayAnswerLost(a)
       PROVE  KnownOnly'
  BY <1>9, <1>11, RestIsKnown, OneActor DEF PlayAnswerLost
<1>12. ASSUME PauseTrack
       PROVE  player'.track = player.track
  BY <1>12 DEF PauseTrack, RoomTyped, Players
<1>t. ASSUME player'.track = player.track, UNCHANGED aired
      PROVE  Known(player.track)'
  BY <1>t DEF KnownOnly, KnownBy, Known
<1>13. ASSUME NEW a \in Actors,
              pc[a] \in {"stop", "pause", "resume"}, Goto(a, "write"),
              UNCHANGED <<snap, obs, target, upd, cur, aired>>,
              Known(player.track)'
       PROVE  KnownOnly'
  <2>1. Alone(a) /\ pc'[a] = "write"
    BY <1>13 DEF Goto, ActorsTyped, Alone
  <2>2. KnownBy(a)'
    BY <1>13, <2>1 DEF KnownBy, KnownOnly, Known
  <2>3. Known(cur)' /\ aired \subseteq aired'
    BY <1>13 DEF KnownOnly, KnownBy, Known
  <2> QED
    BY <1>13, <2>1, <2>2, <2>3, OneActor
<1>14. ASSUME NEW a \in Actors, StopOk(a)
       PROVE  KnownOnly'
  <2>1. Known(player.track)'
    <3>1. CASE PauseTrack
      BY <1>12, <1>t, <1>14, <3>1 DEF StopOk
    <3>2. CASE UNCHANGED player
      BY <1>14, <3>2 DEF StopOk, KnownOnly, KnownBy, Known
    <3> QED
      BY <1>14, <3>1, <3>2 DEF StopOk
  <2> QED
    BY <1>13, <1>14, <2>1 DEF StopOk
<1>15. ASSUME NEW h \in Requests, PauseOk(h)
       PROVE  KnownOnly'
  BY <1>12, <1>t, <1>13, <1>15 DEF PauseOk, Actors
<1>16. ASSUME NEW h \in Requests, ResumeOk(h)
       PROVE  KnownOnly'
  <2>1. player'.track = player.track
    BY <1>16 DEF ResumeOk, RoomTyped, Players
  <2>2. Known(player.track)'
    BY <1>16, <1>t, <2>1 DEF ResumeOk
  <2> QED
    BY <1>13, <1>16, <2>2 DEF ResumeOk, Actors
<1>17. ASSUME NEW a \in Actors, CallFails(a)
       PROVE  KnownOnly'
  BY <1>r, <1>17 DEF CallFails
<1>18. ASSUME NEW a \in Actors, Write(a)
       PROVE  KnownOnly'
  <2>1. cur' \in {upd[a].cur, cur}
    BY <1>18 DEF Write, Written
  <2>2. Known(upd[a].cur)
    BY <1>18 DEF Write, KnownOnly, KnownBy
  <2>3. UNCHANGED <<player, aired>> /\ Rest(a)
    BY <1>18 DEF Write
  <2>4. Known(cur)' /\ Known(player.track)' /\ aired \subseteq aired'
    BY <2>1, <2>2, <2>3 DEF KnownOnly, KnownBy, Known
  <2> QED
    BY <2>3, <2>4, RestIsKnown, OneActor
<1>19. ASSUME NEW h \in Requests, Loads(h) \/ snap' = [snap EXCEPT ![h] = Loaded], RoomKept
       PROVE  Known(snap[h].cur)' /\ \A b \in Actors \ {h} : snap'[b] = snap[b]
  <2>1. snap'[h] \in {Loaded, Nothing} /\ \A b \in Actors \ {h} : snap'[b] = snap[b]
    BY <1>19 DEF Loads, ActorsTyped, Actors
  <2>2. snap'[h].cur \in {cur, Keep}
    BY <2>1 DEF Loaded, Nothing
  <2>3. Known(cur)' /\ UNCHANGED cur
    BY <1>a, <1>19
  <2>4. Known(snap[h].cur)'
    BY <1>b, <2>2, <2>3 DEF Known
  <2> QED
    BY <2>1, <2>4
<1>20. ASSUME NEW h \in Requests, NEW i \in Items, HostPlays(h, i)
       PROVE  KnownOnly'
  <2>1. h \in Actors /\ RoomKept /\ UNCHANGED obs
    BY <1>20 DEF HostPlays, Actors
  <2>2. Known(snap[h].cur)' /\ Alone(h)
    <3>1. Known(snap[h].cur)' /\ \A b \in Actors \ {h} : snap'[b] = snap[b]
      BY <1>19, <1>20, <2>1 DEF HostPlays
    <3> QED
      BY <1>20, <3>1, <2>1 DEF HostPlays, Goto, ActorsTyped, Alone
  <2>3. target'[h] = i /\ upd'[h].cur = Song[i]
    <3>1. target' = [target EXCEPT ![h] = i] /\ upd' = [upd EXCEPT ![h] = NowPlaying(i)]
      BY <1>20 DEF HostPlays
    <3> QED
      BY <2>1, <3>1 DEF ActorsTyped, NowPlaying
  <2>4. \/ pc'[h] = "play"
        \/ pc'[h] = "resume" /\ Song[i] = cur
    BY <1>20, <2>1 DEF HostPlays, Goto, ActorsTyped
  <2>5. Known(obs[h].track)'
    BY <2>1 DEF KnownOnly, KnownBy, Known
  <2>6. KnownBy(h)'
    BY <1>a, <2>1, <2>2, <2>3, <2>4, <2>5 DEF KnownBy, Known
  <2> QED
    BY <1>a, <2>1, <2>2, <2>6, OneActor
<1>21. ASSUME NEW h \in Requests, HostToggles(h)
       PROVE  KnownOnly'
  <2>1. h \in Actors /\ RoomKept /\ UNCHANGED <<snap, obs, target>>
    BY <1>21 DEF HostToggles, Actors
  <2>2. Alone(h) /\ upd'[h].cur = Keep /\ pc'[h] \in {"resume", "pause"}
    BY <1>21, <2>1 DEF HostToggles, Goto, ActorsTyped, OnlyStatus, Alone
  <2>3. KnownBy(h)'
    BY <1>b, <2>1, <2>2 DEF KnownBy, KnownOnly, Known
  <2> QED
    BY <1>a, <2>1, <2>2, <2>3, OneActor
<1>22. ASSUME NEW h \in Requests, HostSkips(h)
       PROVE  KnownOnly'
  <2>1. h \in Actors /\ RoomKept /\ UNCHANGED <<obs, target, upd>>
    BY <1>22 DEF HostSkips, Actors
  <2>2. Loads(h) \/ snap' = [snap EXCEPT ![h] = Loaded]
    BY <1>22 DEF HostSkips
  <2>3. Known(snap[h].cur)' /\ Alone(h) /\ pc'[h] = "pick"
    BY <1>19, <1>22, <2>1, <2>2 DEF HostSkips, Goto, ActorsTyped, Alone
  <2>4. KnownBy(h)'
    BY <2>1, <2>3 DEF KnownBy, KnownOnly, Known
  <2> QED
    BY <1>a, <2>1, <2>3, <2>4, OneActor
<1>23. ASSUME HostFinishes
       PROVE  KnownOnly'
  BY <1>23, <1>a, NobodyActs DEF HostFinishes
<1>24. ASSUME Spotify
       PROVE  KnownOnly'
  <2>1. Known(player.track)'
    <3>1. CASE TrackEnds
      BY <1>b, <1>24, <3>1
         DEF Spotify, TrackEnds, Idle, KnownOnly, KnownBy, Known, RoomTyped, Players
    <3>2. CASE PlaysElse
      BY <1>24, <3>2, NotSongs DEF Spotify, PlaysElse, Known
    <3>3. CASE PauseTrack
      BY <1>12, <1>t, <1>24, <3>3 DEF Spotify
    <3>4. CASE OwnerResumes
      BY <1>24, <3>4 DEF Spotify, OwnerResumes, KnownOnly, KnownBy, Known, RoomTyped, Players
    <3> QED
      BY <1>24, <3>1, <3>2, <3>3, <3>4 DEF Spotify
  <2> QED
    BY <1>24, <2>1, NobodyActs DEF Spotify
<1> QED
  BY <1>1, <1>2, <1>3, <1>4, <1>5, <1>6, <1>7, <1>8, <1>10, <1>11, <1>14, <1>15, <1>16,
     <1>17, <1>18, <1>20, <1>21, <1>22, <1>23, <1>24
     DEF Next, PollStep, RequestStep, HostStarts, Call, Actors

-----------------------------------------------------------------------------
(* The theorems *)

LEMMA InitIInv ==
  ASSUME Init
  PROVE  IInv
<1>1. RoomTyped
  BY PlaybackAssumption DEF Init, RoomTyped, Players, Statuses, Tracks, Idle
<1>2. ActorsTyped
  BY ValuesTyped DEF Init, ActorsTyped, Steps
<1>3. player.track \in Foreign \cup {NoTrack}
  BY DEF Init, Idle
<1>4. KnownOnly
  BY <1>3, NotSongs DEF Init, KnownOnly, KnownBy, Nothing, Idle
<1> QED
  BY <1>1, <1>2, <1>4, TypeParts DEF IInv

LEMMA StutterIInv ==
  ASSUME IInv, UNCHANGED vars
  PROVE  IInv'
BY DEF IInv, TypeOK, KnownOnly, KnownBy, Known, vars, session, actors, Queued

LEMMA StepIInv ==
  ASSUME IInv, [Next]_vars
  PROVE  IInv'
<1>1. CASE Next
  <2>1. RoomTyped /\ ActorsTyped /\ KnownOnly
    BY TypeParts DEF IInv
  <2>2. TypeOK'
    BY <1>1, <2>1, TypeStep DEF TypeOK, RoomTyped, ActorsTyped, Steps
  <2>3. KnownOnly'
    BY <1>1, <2>1, KnownStep
  <2> QED
    BY <2>2, <2>3 DEF IInv
<1> QED
  BY <1>1, StutterIInv

THEOREM Invariance == Spec => []IInv
BY InitIInv, StepIInv, PTL DEF Spec

(***************************************************************************)
(* The types of the queue, the player, the session row and the actors.     *)
(***************************************************************************)
THEOREM TypeCorrect == Spec => []TypeOK
BY Invariance, PTL DEF IInv

(***************************************************************************)
(* Nobody takes a queue song for one that was played, unless Spotify may   *)
(* play it from outside: neither the session and the player, nor what a    *)
(* coroutine loaded, saw or is about to write.                             *)
(***************************************************************************)
THEOREM NobodyMistakesASong ==
  ASSUME Foreign \cap Songs = {}
  PROVE  Spec => []HeardOnly
<1>1. IInv => HeardOnly
  BY DEF IInv, KnownOnly, KnownBy, Known, HeardOnly, Heard
<1> QED
  BY <1>1, Invariance, PTL

(***************************************************************************)
(* What a poll loop does to the queue when it decides.                     *)
(***************************************************************************)
Repeats(i) == Song[i] \in Foreign \/ \E j \in aired : Song[j] = Song[i]

LEMMA DecidingKeepsWaiting ==
  ASSUME IInv, Next, NEW p \in Pollers, pc[p] = "decide", pc'[p] # "decide"
  PROVE  \A i \in Waiting \ Queued' : Repeats(i)
<1> USE DEF session, actors
<1>1. ActorsTyped /\ RoomTyped /\ KnownOnly /\ p \in Actors
  BY TypeParts DEF IInv, Actors
<1>2. ASSUME NEW i \in Items, FinishHead, Owns(snap[p], i), Head1 = i
      PROVE  \A k \in Waiting \ Queued' : Repeats(k)
  <2>1. Song[i] \in Songs /\ snap[p].cur = Song[i]
    BY <1>2, PlaybackAssumption DEF PlaybackAssumption, Owns
  <2>2. Repeats(i)
    BY <1>1, <2>1 DEF KnownOnly, KnownBy, Known, Repeats
  <2> QED
    BY <1>1, <1>2, <2>2, FinishLeaves DEF Waiting, RoomTyped
<1>3. ASSUME FinishHead, HeadOwned(p)
      PROVE  \A k \in Waiting \ Queued' : Repeats(k)
  <2>1. Head1 \in Items
    BY <1>1, <1>3, HeadInQueue DEF HeadOwned, Owns, RoomTyped
  <2> QED
    BY <1>2, <1>3, <2>1 DEF HeadOwned
<1>4. ASSUME UNCHANGED queue
      PROVE  \A k \in Waiting \ Queued' : Repeats(k)
  BY <1>4 DEF Waiting, Queued
<1>5. ASSUME NEW a \in Actors, pc[a] # "decide", NEW s, Goto(a, s)
      PROVE  FALSE
  BY <1>1, <1>5 DEF Goto, ActorsTyped
<1>6. ASSUME UNCHANGED pc
      PROVE  FALSE
  BY <1>6
<1>7. ASSUME NEW i \in Items, Add(i) \/ VoteSkip(i)
      PROVE  FALSE
  BY <1>6, <1>7 DEF Add, VoteSkip
<1>8. ASSUME NEW n \in DOMAIN queue, Remove(n)
      PROVE  FALSE
  BY <1>6, <1>8 DEF Remove
<1>9. ASSUME NEW q \in Pollers, PollLoad(q) \/ PollObserve(q) \/ PollFails(q)
      PROVE  FALSE
  BY <1>5, <1>9 DEF PollLoad, PollObserve, PollFails, Rest, Actors
<1>10. ASSUME NEW q \in Pollers \ {p},
              \/ PollAdvance(q) \/ PollAdopt(q)
              \/ PollSameTrack(q) \/ PollNothing(q)
       PROVE  FALSE
  <2>1. PICK s : Goto(q, s)
    BY <1>10
       DEF PollAdvance, PollAdopt, PollSameTrack, PollNothing, Advance, PlayOrStop, Rest
  <2> QED
    BY <1>1, <2>1 DEF Goto, ActorsTyped
<1>11. ASSUME NEW a \in Actors, Pick(a)
       PROVE  FALSE
  BY <1>5, <1>11 DEF Pick, PlayOrStop
<1>12. ASSUME NEW a \in Actors, PlayOk(a) \/ PlayAnswerLost(a) \/ StopOk(a)
       PROVE  FALSE
  BY <1>5, <1>12 DEF PlayOk, PlayAnswerLost, StartTrack, StopOk, Rest
<1>13. ASSUME NEW a \in Actors, CallFails(a) \/ Write(a)
       PROVE  FALSE
  BY <1>5, <1>13 DEF CallFails, Write, Rest
<1>14. ASSUME NEW h \in Requests, PauseOk(h) \/ ResumeOk(h)
       PROVE  FALSE
  BY <1>5, <1>14 DEF PauseOk, ResumeOk, Actors
<1>15. ASSUME NEW h \in Requests, HostStarts(h)
       PROVE  FALSE
  <2>1. h \in Actors /\ pc[h] = "rest"
    BY <1>15 DEF HostStarts, HostToggles, HostSkips, HostPlays, HostAsks, Actors
  <2>2. PICK s : Goto(h, s)
    BY <1>15 DEF HostStarts, HostToggles, HostSkips, HostPlays
  <2> QED
    BY <1>5, <2>1, <2>2
<1>16. ASSUME HostFinishes \/ Spotify
       PROVE  FALSE
  BY <1>6, <1>16 DEF HostFinishes, Spotify
<1>17. CASE PollAdvance(p) \/ PollAdopt(p)
  BY <1>3, <1>4, <1>17 DEF PollAdvance, PollAdopt, Advance
<1>18. CASE PollSameTrack(p) \/ PollNothing(p)
  BY <1>4, <1>18 DEF PollSameTrack, PollNothing
<1> QED
  BY <1>7, <1>8, <1>9, <1>10, <1>11, <1>12, <1>13, <1>14, <1>15, <1>16, <1>17, <1>18
     DEF Next, PollStep, RequestStep, Call, Actors

(***************************************************************************)
(* A poll loop finishes a song that waits only if it is a repeat: its      *)
(* track was started for another item, or is one that Spotify or its owner *)
(* may play (_advance_queue, _queue_owns_current_track).                   *)
(***************************************************************************)
THEOREM OnlyRepeatsAreLost ==
  Spec => [][\A p \in Pollers : pc[p] = "decide" /\ pc'[p] # "decide"
               => \A i \in Waiting \ Queued' : Repeats(i)]_vars
<1> DEFINE A == \A p \in Pollers : pc[p] = "decide" /\ pc'[p] # "decide"
                  => \A i \in Waiting \ Queued' : Repeats(i)
<1>1. IInv /\ [Next]_vars => [A]_vars
  BY DecidingKeepsWaiting
<1> HIDE DEF A
<1>2. Spec => [][A]_vars
  BY <1>1, Invariance, PTL DEF Spec
<1> QED
  BY <1>2 DEF A

(***************************************************************************)
(* A poll loop never finishes a song that waits, when no song is queued    *)
(* twice or played from outside.                                           *)
(***************************************************************************)
THEOREM WaitingSongsAreKept ==
  ASSUME DistinctSongs
  PROVE  Spec => WaitingSongKept
<1> DEFINE A == \A p \in Pollers : pc[p] = "decide" /\ pc'[p] # "decide"
                  => Waiting \subseteq Queued'
<1>1. ASSUME IInv, NEW i \in Waiting
      PROVE  ~Repeats(i)
  <2>1. i \in Items /\ i \notin aired /\ Song[i] \notin Foreign
    BY <1>1, PlaybackAssumption
       DEF PlaybackAssumption, IInv, TypeOK, Waiting, Queued, DistinctSongs
  <2> QED
    BY <1>1, <2>1 DEF Repeats, DistinctSongs, IInv, TypeOK
<1>2. IInv /\ [Next]_vars => [A]_vars
  BY <1>1, DecidingKeepsWaiting
<1> HIDE DEF A
<1>3. Spec => [][A]_vars
  BY <1>2, Invariance, PTL DEF Spec
<1> QED
  BY <1>3 DEF A, WaitingSongKept

-----------------------------------------------------------------------------
(* The queue implements the FIFO queue. *)

(***************************************************************************)
(* An item is queued once, and never again after it has left.              *)
(***************************************************************************)
QueuedOnce ==
  /\ \A m, n \in DOMAIN queue : queue[m] = queue[n] => m = n
  /\ Queued \subseteq added

Without(n) == SubSeq(queue, 1, n - 1) \o SubSeq(queue, n + 1, Len(queue))

LEMMA WithoutElements ==
  ASSUME queue \in Seq(Items), NEW n \in DOMAIN queue
  PROVE  /\ DOMAIN Without(n) = 1..(Len(queue) - 1)
         /\ \A k \in 1..(Len(queue) - 1) :
              Without(n)[k] = queue[IF k < n THEN k ELSE k + 1]
<1>1. n \in 1..Len(queue) /\ Len(queue) \in Nat /\ DOMAIN queue = 1..Len(queue)
  OBVIOUS
<1> DEFINE a == SubSeq(queue, 1, n - 1)
           b == SubSeq(queue, n + 1, Len(queue))
<1>2. /\ a \in Seq(Items) /\ Len(a) = n - 1
      /\ \A k \in 1..(n - 1) : a[k] = queue[k]
  BY <1>1, SubSeqProperties, ElementOfSeq, LenProperties
<1>3. /\ b \in Seq(Items) /\ Len(b) = Len(queue) - n
      /\ \A k \in 1..(Len(queue) - n) : b[k] = queue[n + k]
  BY <1>1, SubSeqProperties, ElementOfSeq, LenProperties
<1>4. /\ a \o b \in Seq(Items) /\ Len(a \o b) = Len(a) + Len(b)
      /\ \A k \in 1..(Len(a) + Len(b)) : (a \o b)[k] = IF k <= Len(a) THEN a[k] ELSE b[k - Len(a)]
  BY <1>2, <1>3, ConcatProperties
<1> HIDE DEF a, b
<1>5. Without(n) = a \o b
  BY DEF Without, a, b
<1>6. Len(a) + Len(b) = Len(queue) - 1
  BY <1>1, <1>2, <1>3
<1>7. ASSUME NEW k \in 1..(Len(queue) - 1)
      PROVE  (a \o b)[k] = queue[IF k < n THEN k ELSE k + 1]
  <2>1. CASE k < n
    BY <1>1, <1>2, <1>4, <1>6, <2>1
  <2>2. CASE ~(k < n)
    <3>1. (a \o b)[k] = b[k - (n - 1)]
      BY <1>1, <1>2, <1>4, <1>6, <2>2
    <3>2. k - (n - 1) \in 1..(Len(queue) - n) /\ n + (k - (n - 1)) = k + 1
      BY <1>1, <2>2
    <3>3. b[k - (n - 1)] = queue[k + 1]
      BY <1>3, <3>2
    <3> QED
      BY <2>2, <3>1, <3>3
  <2> QED
    BY <2>1, <2>2
<1>8. DOMAIN (a \o b) = 1..(Len(queue) - 1)
  BY <1>4, <1>6
<1> QED
  BY <1>5, <1>7, <1>8

LEMMA TailIsWithout ==
  ASSUME queue \in Seq(Items), queue # <<>>
  PROVE  1 \in DOMAIN queue /\ Tail(queue) = Without(1)
BY DEF Without

(***************************************************************************)
(* When the n-th item leaves, the others keep their order.                 *)
(***************************************************************************)
LEMMA LeavingIsDequeue ==
  ASSUME queue \in Seq(Items), QueuedOnce, NEW n \in DOMAIN queue, queue' = Without(n),
         UNCHANGED added
  PROVE  QueuedOnce' /\ Fifo!Dequeue(queue[n])
<1> DEFINE L == Len(queue)
           at(k) == IF k < n THEN k ELSE k + 1
<1>1. /\ L \in Nat /\ DOMAIN queue = 1..L /\ n \in 1..L
      /\ DOMAIN queue' = 1..(L - 1)
      /\ \A k \in 1..(L - 1) : queue'[k] = queue[at(k)]
  <2>1. L \in Nat /\ DOMAIN queue = 1..L /\ n \in 1..L
    OBVIOUS
  <2> QED
    BY <2>1, WithoutElements
<1>2. \A k \in 1..(L - 1) : at(k) \in 1..L /\ at(k) # n
  BY <1>1
<1>3. \A k, l \in 1..(L - 1) : (k < l <=> at(k) < at(l)) /\ (at(k) = at(l) => k = l)
  BY <1>1
<1>4. ASSUME NEW m \in 1..L, m # n
      PROVE  \E k \in 1..(L - 1) : at(k) = m
  <2>1. CASE m < n
    <3>1. m \in 1..(L - 1) /\ at(m) = m
      BY <1>1, <2>1
    <3> QED
      BY <3>1
  <2>2. CASE m > n
    <3>1. m - 1 \in 1..(L - 1) /\ at(m - 1) = m
      BY <1>1, <2>2
    <3> QED
      BY <3>1
  <2> QED
    BY <1>1, <1>4, <2>1, <2>2
<1> HIDE DEF at, L
<1>5. Queued' = Queued \ {queue[n]} /\ queue[n] \in Queued
  <2>1. \A i \in Queued' : i \in Queued /\ i # queue[n]
    BY <1>1, <1>2 DEF Queued, QueuedOnce
  <2>2. \A i \in Queued : i # queue[n] => i \in Queued'
    BY <1>1, <1>4 DEF Queued
  <2> QED
    BY <1>1, <2>1, <2>2 DEF Queued
<1>6. QueuedOnce'
  <2>1. \A k, l \in 1..(L - 1) : queue'[k] = queue'[l] => k = l
    BY <1>1, <1>2, <1>3 DEF QueuedOnce
  <2> QED
    BY <1>1, <1>5, <2>1 DEF QueuedOnce
<1>7. ASSUME NEW i \in Queued', NEW j \in Queued'
      PROVE  (\E k, l \in DOMAIN queue' : k < l /\ <<i, j>> = <<queue'[k], queue'[l]>>)
               <=> (\E k, l \in DOMAIN queue : k < l /\ <<i, j>> = <<queue[k], queue[l]>>)
  <2>1. ASSUME NEW k \in DOMAIN queue', NEW l \in DOMAIN queue', k < l,
               i = queue'[k], j = queue'[l]
        PROVE  \E x, y \in DOMAIN queue : x < y /\ i = queue[x] /\ j = queue[y]
    BY <1>1, <1>2, <1>3, <2>1
  <2>2. ASSUME NEW x \in DOMAIN queue, NEW y \in DOMAIN queue, x < y, i = queue[x], j = queue[y]
        PROVE  \E k, l \in DOMAIN queue' : k < l /\ i = queue'[k] /\ j = queue'[l]
    <3>1. x # n /\ y # n
      BY <1>5, <1>7, <2>2
    <3>2. PICK k \in 1..(L - 1), l \in 1..(L - 1) : at(k) = x /\ at(l) = y
      BY <1>1, <1>4, <3>1
    <3> QED
      BY <1>1, <1>3, <2>2, <3>2
  <2> QED
    BY <2>1, <2>2
<1>8. PlayOrder' = {p \in PlayOrder : p[1] # queue[n] /\ p[2] # queue[n]}
  <2>1. ASSUME NEW i \in Queued, NEW j \in Queued
        PROVE  <<i, j>> \in PlayOrder' <=>
                 <<i, j>> \in PlayOrder /\ i # queue[n] /\ j # queue[n]
    BY <1>5, <1>7 DEF PlayOrder
  <2>2. PlayOrder \subseteq Queued \X Queued /\ PlayOrder' \subseteq Queued \X Queued
    BY <1>5 DEF PlayOrder
  <2> QED
    BY <2>1, <2>2
<1> QED
  BY <1>5, <1>6, <1>8 DEF Fifo!Dequeue

With(n, i) == SubSeq(queue, 1, n) \o <<i>> \o SubSeq(queue, n + 1, Len(queue))

(***************************************************************************)
(* Item i stands behind the first n, and the others keep their order.      *)
(***************************************************************************)
LEMMA WithElements ==
  ASSUME queue \in Seq(Items), NEW i \in Items, NEW n \in 0..Len(queue)
  PROVE  /\ DOMAIN With(n, i) = 1..(Len(queue) + 1)
         /\ With(n, i)[n + 1] = i
         /\ \A k \in 1..Len(queue) : With(n, i)[IF k <= n THEN k ELSE k + 1] = queue[k]
<1>1. n \in 0..Len(queue) /\ Len(queue) \in Nat /\ DOMAIN queue = 1..Len(queue)
  OBVIOUS
<1> DEFINE a == SubSeq(queue, 1, n)
           b == SubSeq(queue, n + 1, Len(queue))
           c == a \o <<i>>
<1>2. /\ a \in Seq(Items) /\ Len(a) = n
      /\ \A k \in 1..n : a[k] = queue[k]
  BY <1>1, SubSeqProperties, ElementOfSeq, LenProperties
<1>3. /\ b \in Seq(Items) /\ Len(b) = Len(queue) - n
      /\ \A k \in 1..(Len(queue) - n) : b[k] = queue[n + k]
  <2>1. n + 1 \in Int /\ Len(queue) \in Int /\ \A k \in (n + 1)..Len(queue) : queue[k] \in Items
    BY <1>1, ElementOfSeq
  <2>2. /\ b \in Seq(Items)
        /\ Len(b) = IF n + 1 <= Len(queue) THEN Len(queue) - (n + 1) + 1 ELSE 0
        /\ \A k \in 1..(Len(queue) - (n + 1) + 1) : b[k] = queue[n + 1 + k - 1]
    BY <2>1, SubSeqProperties
  <2>3. \A k \in 1..(Len(queue) - n) : n + 1 + k - 1 = n + k
    BY <1>1
  <2>4. Len(queue) - (n + 1) + 1 = Len(queue) - n
    BY <1>1
  <2> HIDE DEF b
  <2>5. Len(b) = Len(queue) - n
    <3>1. \A L \in Nat : \A m \in 0..L : (IF m + 1 <= L THEN L - (m + 1) + 1 ELSE 0) = L - m
      OBVIOUS
    <3> QED
      BY <1>1, <2>2, <3>1
  <2>6. ASSUME NEW k \in 1..(Len(queue) - n)
        PROVE  b[k] = queue[n + k]
    BY <2>2, <2>3, <2>4
  <2> QED
    BY <2>2, <2>5, <2>6
<1>4. /\ c \in Seq(Items) /\ Len(c) = n + 1
      /\ \A k \in 1..(n + 1) : c[k] = IF k <= n THEN a[k] ELSE <<i>>[k - n]
  <2> DEFINE e == <<i>>
  <2>1. e \in Seq(Items) /\ Len(e) = 1
    OBVIOUS
  <2> HIDE DEF a, e
  <2>2. /\ a \o e \in Seq(Items) /\ Len(a \o e) = Len(a) + Len(e)
        /\ \A k \in 1..(Len(a) + Len(e)) : (a \o e)[k] = IF k <= Len(a) THEN a[k] ELSE e[k - Len(a)]
    BY <1>2, <2>1, ConcatProperties
  <2> QED
    BY <1>2, <2>1, <2>2 DEF e
<1>5. c[n + 1] = i /\ \A k \in 1..n : c[k] = queue[k]
  <2>1. c[n + 1] = <<i>>[1]
    BY <1>1, <1>4
  <2>2. \A k \in 1..n : c[k] = queue[k]
    BY <1>1, <1>2, <1>4
  <2> QED
    BY <2>1, <2>2
<1> HIDE DEF a, b, c
<1>6. /\ c \o b \in Seq(Items) /\ Len(c \o b) = Len(c) + Len(b)
      /\ \A k \in 1..(Len(c) + Len(b)) : (c \o b)[k] = IF k <= Len(c) THEN c[k] ELSE b[k - Len(c)]
  BY <1>3, <1>4, ConcatProperties
<1>7. With(n, i) = c \o b
  BY DEF With, a, b, c
<1>8. Len(c) + Len(b) = Len(queue) + 1
  BY <1>1, <1>3, <1>4
<1>9. DOMAIN (c \o b) = 1..(Len(queue) + 1) /\ (c \o b)[n + 1] = i
  BY <1>1, <1>4, <1>5, <1>6, <1>8
<1>10. ASSUME NEW k \in 1..Len(queue)
       PROVE  (c \o b)[IF k <= n THEN k ELSE k + 1] = queue[k]
  <2>1. CASE k <= n
    BY <1>1, <1>4, <1>5, <1>6, <1>8, <2>1
  <2>2. CASE ~(k <= n)
    <3>1. (c \o b)[k + 1] = b[k + 1 - (n + 1)]
      BY <1>1, <1>4, <1>6, <1>8, <2>2
    <3>2. k - n \in 1..(Len(queue) - n) /\ k + 1 - (n + 1) = k - n /\ n + (k - n) = k
      BY <1>1, <2>2
    <3>3. b[k - n] = queue[k]
      BY <1>3, <3>2
    <3> QED
      BY <2>2, <3>1, <3>2, <3>3
  <2> QED
    BY <2>1, <2>2
<1> QED
  BY <1>7, <1>9, <1>10

(***************************************************************************)
(* add_to_queue puts the item behind its group and moves nobody else.      *)
(***************************************************************************)
LEMMA AddIsEnqueue ==
  ASSUME queue \in Seq(Items), QueuedOnce, NEW i \in Items, Add(i)
  PROVE  QueuedOnce' /\ Fifo!Enqueue(i)
<1>1. PICK n \in 0..Len(queue) :
        /\ \A k \in DOMAIN queue : Precedes(queue[k], i) <=> k <= n
        /\ queue' = With(n, i)
  BY DEF Add, With
<1>2. i \notin Queued /\ added' = added \cup {i} /\ i \notin added
  BY DEF Add, QueuedOnce
<1> DEFINE L == Len(queue)
           at(k) == IF k <= n THEN k ELSE k + 1
<1>3. /\ L \in Nat /\ DOMAIN queue = 1..L /\ n \in 0..L
      /\ DOMAIN queue' = 1..(L + 1) /\ queue'[n + 1] = i
      /\ \A k \in 1..L : queue'[at(k)] = queue[k]
  <2>1. L \in Nat /\ DOMAIN queue = 1..L /\ n \in 0..L
    OBVIOUS
  <2> QED
    BY <1>1, <2>1, WithElements
<1>4. \A k \in 1..L : at(k) \in 1..(L + 1) /\ at(k) # n + 1
  BY <1>3
<1>5. \A k, l \in 1..L : k < l <=> at(k) < at(l)
  BY <1>3
<1>6. ASSUME NEW m \in 1..(L + 1), m # n + 1
      PROVE  \E k \in 1..L : at(k) = m
  <2>1. CASE m <= n
    <3>1. m \in 1..L /\ at(m) = m
      BY <1>3, <2>1
    <3> QED
      BY <3>1
  <2>2. CASE m > n + 1
    <3>1. m - 1 \in 1..L /\ at(m - 1) = m
      BY <1>3, <2>2
    <3> QED
      BY <3>1
  <2> QED
    BY <1>3, <1>6, <2>1, <2>2
<1>7. \A k \in 1..L : k <= n <=> at(k) < n + 1
  BY <1>3
<1> HIDE DEF at, L
<1>8. Queued' = Queued \cup {i}
  <2>1. ASSUME NEW j \in Queued
        PROVE  j \in Queued'
    BY <1>3, <1>4 DEF Queued
  <2>2. i \in Queued'
    <3>1. n + 1 \in DOMAIN queue'
      BY <1>3
    <3> QED
      BY <1>3, <3>1 DEF Queued
  <2>3. ASSUME NEW m \in DOMAIN queue', queue'[m] # i
        PROVE  queue'[m] \in Queued
    BY <1>3, <1>6, <2>3 DEF Queued
  <2> QED
    BY <2>1, <2>2, <2>3 DEF Queued
<1>9. QueuedOnce'
  <2>1. ASSUME NEW k \in 1..(L + 1), NEW l \in 1..(L + 1), queue'[k] = queue'[l]
        PROVE  k = l
    <3>1. ASSUME NEW x \in 1..L
          PROVE  queue'[at(x)] # i
      BY <1>2, <1>3, <3>1 DEF Queued
    <3>2. CASE k # n + 1 /\ l # n + 1
      <4>1. PICK x \in 1..L, y \in 1..L : at(x) = k /\ at(y) = l
        BY <1>6, <3>2
      <4>2. queue[x] = queue[y]
        BY <1>3, <2>1, <4>1
      <4> QED
        BY <1>3, <4>1, <4>2 DEF QueuedOnce
    <3>3. CASE k = n + 1 /\ l # n + 1
      BY <1>3, <1>6, <2>1, <3>1, <3>3
    <3>4. CASE k # n + 1 /\ l = n + 1
      BY <1>3, <1>6, <2>1, <3>1, <3>4
    <3> QED
      BY <3>2, <3>3, <3>4
  <2> QED
    BY <1>2, <1>3, <1>8, <2>1 DEF QueuedOnce
<1>10. ASSUME NEW j \in Queued, NEW k \in Queued
       PROVE  (\E x, y \in DOMAIN queue' : x < y /\ <<j, k>> = <<queue'[x], queue'[y]>>)
                <=> (\E x, y \in DOMAIN queue : x < y /\ <<j, k>> = <<queue[x], queue[y]>>)
  <2>1. ASSUME NEW x \in DOMAIN queue', NEW y \in DOMAIN queue', x < y,
               j = queue'[x], k = queue'[y]
        PROVE  \E u, v \in DOMAIN queue : u < v /\ j = queue[u] /\ k = queue[v]
    <3>1. x # n + 1 /\ y # n + 1
      BY <1>2, <1>3, <1>10, <2>1
    <3>2. PICK u \in 1..L, v \in 1..L : at(u) = x /\ at(v) = y
      BY <1>3, <1>6, <3>1
    <3> QED
      BY <1>3, <1>5, <2>1, <3>2
  <2>2. ASSUME NEW u \in DOMAIN queue, NEW v \in DOMAIN queue, u < v, j = queue[u], k = queue[v]
        PROVE  \E x, y \in DOMAIN queue' : x < y /\ j = queue'[x] /\ k = queue'[y]
    <3>1. at(u) \in DOMAIN queue' /\ at(v) \in DOMAIN queue' /\ at(u) < at(v)
      BY <1>3, <1>4, <1>5, <2>2
    <3>2. j = queue'[at(u)] /\ k = queue'[at(v)]
      BY <1>3, <2>2
    <3> QED
      BY <3>1, <3>2
  <2> QED
    BY <2>1, <2>2
<1>11. ASSUME NEW j \in Queued, Group[j] = Group[i]
       PROVE  \E x, y \in DOMAIN queue' : x < y /\ <<j, i>> = <<queue'[x], queue'[y]>>
  <2>1. PICK k \in 1..L : queue[k] = j
    BY <1>3 DEF Queued
  <2>2. Group[i] \in {"manual", "playlist"}
    BY PlaybackAssumption DEF PlaybackAssumption
  <2>3. k <= n
    BY <1>1, <1>3, <1>11, <2>1, <2>2 DEF Precedes
  <2>4. at(k) < n + 1 /\ at(k) \in DOMAIN queue'
    BY <1>3, <1>4, <1>7, <2>3
  <2>5. n + 1 \in DOMAIN queue'
    BY <1>3
  <2>6. queue'[at(k)] = j /\ queue'[n + 1] = i
    BY <1>3, <2>1
  <2> QED
    BY <2>4, <2>5, <2>6
<1>12. ASSUME NEW j \in Queued', Group[j] = Group[i]
       PROVE  ~\E x, y \in DOMAIN queue' : x < y /\ <<i, j>> = <<queue'[x], queue'[y]>>
  <2>1. SUFFICES ASSUME NEW x \in DOMAIN queue', NEW y \in DOMAIN queue', x < y,
                        i = queue'[x], j = queue'[y]
                 PROVE  FALSE
    OBVIOUS
  <2>2. x = n + 1
    BY <1>3, <1>9, <2>1 DEF QueuedOnce
  <2>3. y # n + 1 /\ y \in 1..(L + 1) /\ y > n + 1
    BY <1>3, <2>1, <2>2
  <2>4. PICK k \in 1..L : at(k) = y
    BY <1>6, <2>3
  <2>5. j = queue[k] /\ ~(k <= n)
    BY <1>3, <1>7, <2>1, <2>3, <2>4
  <2>6. Group[i] \in {"manual", "playlist"}
    BY PlaybackAssumption DEF PlaybackAssumption
  <2> QED
    BY <1>1, <1>3, <1>12, <2>5, <2>6 DEF Precedes
<1>13. PlayOrder' = PlayOrder \cup {<<j, i>> : j \in {k \in Queued : Fifo!SameGroup(k, i)}}
  <2>1. ASSUME NEW j \in Queued', NEW k \in Queued'
        PROVE  <<j, k>> \in PlayOrder' <=>
                 \/ <<j, k>> \in PlayOrder
                 \/ k = i /\ j \in Queued /\ Group[j] = Group[i]
    <3>1. CASE j # i /\ k # i
      <4>1. j \in Queued /\ k \in Queued
        BY <1>8, <3>1
      <4> QED
        BY <1>10, <3>1, <4>1 DEF PlayOrder
    <3>2. CASE j # i /\ k = i
      <4>1. j \in Queued /\ <<j, k>> \notin PlayOrder
        BY <1>2, <1>8, <3>2 DEF PlayOrder
      <4> QED
        BY <1>11, <3>2, <4>1 DEF PlayOrder
    <3>3. CASE j = i
      <4>1. j \notin Queued /\ <<j, k>> \notin PlayOrder
        BY <1>2, <3>3 DEF PlayOrder
      <4>2. <<j, k>> \notin PlayOrder'
        BY <1>12, <3>3 DEF PlayOrder
      <4> QED
        BY <4>1, <4>2
    <3> QED
      BY <3>1, <3>2, <3>3
  <2>2. PlayOrder \subseteq Queued' \X Queued' /\ PlayOrder' \subseteq Queued' \X Queued'
    BY <1>8 DEF PlayOrder
  <2>3. {<<j, i>> : j \in {k \in Queued : Fifo!SameGroup(k, i)}} =
          {p \in Queued' \X Queued' : p[2] = i /\ p[1] \in Queued /\ Group[p[1]] = Group[i]}
    BY <1>8 DEF Fifo!SameGroup
  <2> QED
    BY <2>1, <2>2, <2>3
<1> QED
  BY <1>2, <1>8, <1>9, <1>13 DEF Fifo!Enqueue

-----------------------------------------------------------------------------
(* Every step of the room is a step of the FIFO queue, or none *)

LEMMA FinishIsDequeue ==
  ASSUME queue \in Seq(Items), QueuedOnce, FinishHead, UNCHANGED added
  PROVE  (QueuedOnce' /\ Fifo!Dequeue(Head1)) \/ UNCHANGED <<queue, added>>
<1>1. CASE queue = <<>>
  BY <1>1 DEF FinishHead
<1>2. CASE queue # <<>>
  <2>1. 1 \in DOMAIN queue /\ queue' = Without(1) /\ Head1 = queue[1]
    BY <1>2, TailIsWithout DEF FinishHead, Head1
  <2> QED
    BY <2>1, LeavingIsDequeue
<1> QED
  BY <1>1, <1>2

LEMMA NoChange ==
  ASSUME QueuedOnce, UNCHANGED <<queue, added>>
  PROVE  QueuedOnce' /\ UNCHANGED Fifo!vars
BY DEF QueuedOnce, Queued, PlayOrder, Fifo!vars

(***************************************************************************)
(* What each action does to the queue.                                     *)
(***************************************************************************)
LEMMA QueueMoves ==
  ASSUME Next
  PROVE  \/ \E i \in Items : Add(i)
         \/ \E n \in DOMAIN queue : queue' = Without(n) /\ UNCHANGED added
         \/ FinishHead /\ UNCHANGED added
         \/ UNCHANGED <<queue, added>>
<1> DEFINE Q == \/ FinishHead /\ UNCHANGED added
                \/ UNCHANGED <<queue, added>>
<1>1. ASSUME NEW i \in Items, VoteSkip(i)
      PROVE  Q
  BY <1>1 DEF VoteSkip
<1>2. ASSUME NEW n \in DOMAIN queue, Remove(n)
      PROVE  queue' = Without(n) /\ UNCHANGED added
  BY <1>2 DEF Remove, Without
<1>3. ASSUME NEW p \in Pollers, PollStep(p) \/ PollFails(p)
      PROVE  Q
  BY <1>3 DEF PollStep, PollFails, PollLoad, PollObserve, PollAdvance, Advance, PollAdopt,
              PollSameTrack, PollNothing, Pick, Call, PlayOk, StartTrack, StopOk, Write
<1>4. ASSUME NEW h \in Requests, RequestStep(h)
      PROVE  Q
  BY <1>4 DEF RequestStep, Pick, Call, PlayOk, StartTrack, StopOk, PauseOk, ResumeOk, Write,
              CallFails
<1>5. ASSUME NEW h \in Requests, HostStarts(h)
      PROVE  Q
  BY <1>5 DEF HostStarts, HostToggles, HostSkips, HostPlays
<1>6. ASSUME NEW a \in Actors, CallFails(a) \/ PlayAnswerLost(a)
      PROVE  Q
  BY <1>6 DEF CallFails, PlayAnswerLost, StartTrack
<1>7. ASSUME HostFinishes \/ Spotify
      PROVE  Q
  BY <1>7 DEF HostFinishes, Spotify
<1> QED
  BY <1>1, <1>2, <1>3, <1>4, <1>5, <1>6, <1>7 DEF Next

LEMMA QueueStep ==
  ASSUME queue \in Seq(Items), QueuedOnce, [Next]_vars
  PROVE  QueuedOnce' /\ [Fifo!Next]_(Fifo!vars)
<1>1. CASE UNCHANGED vars
  BY <1>1, NoChange DEF vars
<1>2. CASE Next
  <2>1. ASSUME NEW i \in Items, Add(i)
        PROVE  QueuedOnce' /\ Fifo!Next
    BY <2>1, AddIsEnqueue DEF Fifo!Next
  <2>2. ASSUME NEW n \in DOMAIN queue, queue' = Without(n), UNCHANGED added
        PROVE  QueuedOnce' /\ Fifo!Next
    <3>1. queue[n] \in Items
      OBVIOUS
    <3> QED
      BY <2>2, <3>1, LeavingIsDequeue DEF Fifo!Next
  <2>3. ASSUME FinishHead, UNCHANGED added
        PROVE  QueuedOnce' /\ [Fifo!Next]_(Fifo!vars)
    <3>1. CASE UNCHANGED <<queue, added>>
      BY <3>1, NoChange
    <3>2. CASE QueuedOnce' /\ Fifo!Dequeue(Head1)
      <4>1. Head1 \in Items
        BY <3>2, HeadInQueue, PlaybackAssumption
           DEF Fifo!Dequeue, Queued, PlaybackAssumption
      <4> QED
        BY <3>2, <4>1 DEF Fifo!Next
    <3> QED
      BY <2>3, <3>1, <3>2, FinishIsDequeue
  <2> QED
    BY <1>2, <2>1, <2>2, <2>3, NoChange, QueueMoves
<1> QED
  BY <1>1, <1>2

(***************************************************************************)
(* Whatever the members, the votes, the host and any number of poll loops  *)
(* do to the queue, it stays the queue that the table promises: no item is *)
(* queued twice, one leaves at a time, and each group keeps its order.     *)
(***************************************************************************)
THEOREM QueueIsFifo == Spec => IsFifoQueue
<1>1. Init => QueuedOnce /\ Fifo!Init
  BY DEF Init, QueuedOnce, Queued, PlayOrder, Fifo!Init
<1>2. IInv /\ QueuedOnce /\ [Next]_vars => QueuedOnce' /\ [Fifo!Next]_(Fifo!vars)
  BY QueueStep DEF IInv, TypeOK
<1>3. Spec => []IInv
  BY Invariance
<1> QED
  BY <1>1, <1>2, <1>3, PTL DEF Spec, IsFifoQueue, Fifo!Spec
=============================================================================
