# CrowdRoom: a TLA+ model

CrowdRoom lets the members of a room build one music queue together. A FastAPI
backend keeps rooms, sessions and queues in SQLite or PostgreSQL, plays the
queue on the host's Spotify account, and tells the browsers over WebSockets
what happened. This directory holds TLA+ specifications of the backend, the TLC
models that check them, and TLAPS proofs about them. Paths below are relative
to `src/backend/`.

    tlc -workers 2 -config QueueStorePG.cfg MCQueueStore     # check a model
    tlapm QueueStoreProofs.tla                               # check the proofs

## 1. The system

### Components

| Component | State | Operations | Talks to | What makes it correct |
|---|---|---|---|---|
| Queue store (`repositories/queue_repo.py`, `services/drivers/`, `services/queue_service.py`) | `queue_items`: position, unique per session and group | add (max + 1, insert), delete (delete, shift down) | both databases' locks | every change is one song joining its group's end or one leaving; no lost update; requests end |
| Playback poll loop (`services/playback_poller_service.py`) | none of its own; reads and writes session, queue, player | one turn: load session, ask Spotify, decide, finish, play, write | Spotify, queue store, broadcasts | it finishes only songs that were played; the music goes on; the session follows the player |
| Host control (`services/playback_control_service.py`, `services/playback_service.py`) | session row | play, resume, pause, skip, finish | Spotify, poll tasks | what it writes is what it did |
| Poll task registry (`playback_poller_service.py`, `api/rooms/router.py`, `api/session/router.py`) | `_active_tasks` | start, stop, stop all | asyncio | the registered task lives; no task outlives its room |
| Skip votes (`services/queue_vote_service.py`) | `queue_votes`, cooldowns | cast, remove | `finish_song` | a song is finished once; its skip is announced when it is gone |
| History (`repositories/queue_history_repo.py`) | last played songs | record, prune | `finish_song` | no finished song is missed; the newest 15 stay |
| Sessions (`services/session_service.py`) | `sessions` | create, update, delete | registry | one per room |
| Rooms, membership (`services/room_service.py`, `room_membership_service.py`) | `rooms`, `users.room_id`, PIN cooldowns | create, join, leave, delete | invites, sockets | capacity; a closed room has no members |
| Invites (`services/room_invite_service.py`) | `room_invites.use_count` | create, join, revoke | membership | an invite is not used more often than allowed |
| Moderation (`services/room_moderation_service.py`) | `room_bans` | kick, ban, unban | membership, sockets | who is banned does not come in |
| WebSocket manager (`api/websocket.py`) | sockets per room, their users, pongs | connect, disconnect, evict, broadcast, heartbeat | all services | the maps agree; who is evicted has no socket; no endpoint lives on unseen |
| Accounts, tokens (`services/auth_service.py`, `user_service.py`) | password, `token_version` | register, log in, change and set a password, delete | | an old token stays invalid |
| Streaming connections (`services/platform_connection_service.py`) | app credentials, OAuth tokens | connect, authorise, refresh, disconnect | Spotify, poll loop | the stored refresh token works; a disconnection is final |
| Search, songs, cache | songs, TTL cache | look up | Spotify | |
| Web client (`src/frontend/`) | copy of queue and player | auto-start on `song_changed`, reconnect | WebSocket, API | the copy catches up |
| Configuration, schemas, migrations | | | | |

Search, the web client and the last row are not modelled; the queue store, the
poll loop, host control, sessions and accounts are modelled in part, the rest
with all its operations. `PROJECT.json` says for each what is left out.

### What is hard about it

*Interleaving.* The server process is one asyncio event loop (`Dockerfile`:
one uvicorn worker). In a coroutine, code between two awaits is atomic, and
every await is a point where anything else may happen: a Spotify call, a
broadcast, a thread that loads or writes the session. A plain function (the
accounts' endpoints, `disconnect`, the dependency that loads `current_user`)
runs in a thread, where each statement is a step of its own.

*Writers on several connections.* The queue store is written to be used by
several threads or workers (`tests/test_queue_concurrency.py`,
`tests/test_queue_concurrency_pg.py`), with different locks per database.

*Stale objects.* Each request has a SQLAlchemy session whose identity map
returns objects as they were loaded; an UPDATE has only the columns that
differ from that copy.

*An outside world.* The owner uses Spotify too, Spotify autoplays, shows
advertisements, loses its device, rotates refresh tokens and has grants
withdrawn; answers fail or are lost. Clients fall silent or vanish.

*Cancellation.* A cancelled task ends later, and its `finally` acts then; the
two loops of a WebSocket endpoint end each other only when one of them raises.

*Several commits.* Finishing a song is four commits, a change of the password
two, and closing a room comes after two broadcasts.

`PROJECT.json` lists under `hazards` the lines where this bites, with the
property that would notice, or the reason why none does.

## 2. Modules

| Module | Models | TLC instance | Proofs |
|---|---|---|---|
| `FifoQueue` | the promise of the queue: songs enter at the end of their group, leave anywhere, keep their order | | |
| `QueueStore` | the table, the locks, the steps of concurrent adds and deletes | `MCQueueStore` | `QueueStoreProofs` |
| `Playback` | one room: queue, session, player, poll loops, host requests, owner | `MCPlayback` | `PlaybackProofs` |
| `PollerTasks` | the poll tasks of one room, the registry and the endpoints | `MCPollerTasks` | `PollerTasksProofs` |
| `Rooms` | rooms, members, invites, bans | `MCRooms` | `RoomsProofs` |
| `Sockets` | the WebSockets of one room, their registry and evictions | `MCSockets` | `SocketsProofs` |
| `Accounts` | the accounts of one name, their passwords and tokens | `MCAccounts` | `AccountsProofs` |
| `Streaming` | the Spotify connection of one user | `MCStreaming` | `StreamingProofs` |
| `SkipVotes` | votes, `finish_song` commit by commit, the history | `MCSkipVotes` | `SkipVotesProofs` |

How they fit together. `QueueStore` implements `FifoQueue` under the refinement
mapping `queued <- rows, before <- PlayOrder`. `Playback` uses the queue as a
sequence: in the one process that runs it, a queue operation has no await
inside. That sequence implements `FifoQueue` too (`queued <- Queued, before <-
PlayOrder`), so that what the poll loop works on is what the table promises.
`PollerTasks` says how many poll loops a room can have, which `Playback` takes
as the constant `Pollers`. `Playback` takes a vote that skips as one action,
`VoteSkip`; `SkipVotes` says when a vote does, and takes apart what happens
between the commits. `Rooms` decides who is a member, `Sockets` takes joins,
departures and evictions as they come. `Streaming` gives the poll loop its
token; `Playback` only knows that a call may fail.

Some definitions called "Variant" stand before the definition that they vary:
each is a plausible slip in that piece of code, and no specification uses them.
`PROJECT.json` pairs each property with the variant that breaks it.

### QueueStore

Variables `rows`, `pos` are the committed table; `holder` the locks; `pc`,
`arg`, `seen`, `scan` the request of each writer. A step ends where another
transaction can come between.

| Code | Actions |
|---|---|
| `add_to_queue` / `add_to_queue_atomic` | `StartAdd`, `Lock`, `ReadMax`, `Insert` or `InsertRejected` |
| `remove_from_queue` / `delete` | `StartRemove` (loads the row before any lock), `Lock`, `DeleteAndScan`, `Shift` or `ShiftRejected` |
| `SQLiteQueueLock.__enter__` swallowing the error | `LockSwallowed`, and `Busy` for the statement that then finds the file locked |
| `_make_lock`, `PGQueueLock` | `Key`: add locks its group, delete the text `None:None` |

External facts used: SQLite has one writing transaction at a time; PostgreSQL
runs at READ COMMITTED, and its advisory locks bind only those who ask; a unique
constraint is checked per statement. `Shift` is one step: the rows it flushes are
visible to others only at its COMMIT, and it meets the constraint on the way
exactly if it would at the end. When another writer has deleted the row
meanwhile, the DELETE matches nothing, of which SQLAlchemy only warns, and the
shift is done all the same; so it is in the model. `Writers`, `Items` and
`Groups` are finite sets of any size; there is no other bound.

### Playback

`queue` holds the items in playing order (manual before playlist). `cur` and
`status` are `current_song_id` and `playback_status`; `player` is what Spotify
would answer, with the mode `ended` for a track `_is_song_ended` accepts and
`idle` for 204. Each poll loop and request has `pc`, the session as it loaded it
(`snap`), what it saw (`obs`), the item being started (`target`) and the fields
about to be written (`upd`). `aired`, the items that were started, is a history
variable.

| Code | Actions |
|---|---|
| `_poll_loop`, reading | `PollLoad`, `PollObserve`, `PollFails` |
| `_poll_loop`, deciding | `PollAdvance`, `PollAdopt`, `PollSameTrack`, `PollNothing`, one per group of branches |
| `_advance_queue` | `Advance` (up to its first await), `Pick`, `PlayOk`/`StopOk`/`CallFails`/`PlayAnswerLost`, `Write` |
| `PlaybackControlService` | `HostPlays`, `HostToggles`, `HostSkips`, then `Pick`, the calls and `Write` |
| `finish_song` | `FinishHead`, in `Advance`, `PollAdopt`, `HostSkips`, `HostFinishes`, `VoteSkip` |
| `SessionRepository.update` | `Write` with `Written`: only what differs from the loaded copy |
| queue API | `Add`, `Remove` |
| Spotify and its owner | `Spotify`: a track ends, another one plays, pause, resume |

Bounds: `MaxRequests` on what the host asks, `MaxSpotify` on what Spotify and its
owner do unasked, `Items` on what members add. Left out: positions and times,
device ids, history, and the removal of the session row while requests wait.

### PollerTasks

`entry` is `_active_tasks.get(room_id)`; `stage` is the await at which each task
is suspended; `cancelled` the tasks whose `cancel()` was called. A task cancelled
before it began ends without its `finally`. `DeleteRoom` waits for the task
(`DeleteRoomEnds`, once for each request that waits), as `stop_polling` does;
`DeleteSession` removes the row first; `HostLeaves` stops nothing. The lock of
the registry is never held across an await and is left out. `MaxSessions` bounds
the sessions created.

### Rooms

`host` and `private` are the rows of `rooms`, `at` is `users.room_id`, `bans`,
`invited` and `uses` are the tables of bans and invites, `locked` the PIN
cooldowns. `req` holds requests whose `current_user` has been loaded and whose
handler has not run. `way` remembers whether a user came by the door or by a
link, `maker` who created a room that may be gone.

| Code | Actions |
|---|---|
| `get_current_user` in its thread | `Arrive` |
| `join_room` | `JoinRefused`, `JoinOpen`, `JoinWithInvite`, `JoinWithPin`, `JoinWrongPin` |
| `join_via_invite` | `JoinViaInvite`, `LinkRefused` |
| `leave_room`, `_handle_host_departure` | `LeaveRefused`, `Leave`, then after a broadcast each `AnnounceClosed`, and `CloseRoom` or `CloseAroundHost` |
| `RoomRepository.delete` | `Drop`, in `DeleteRoom`, `CloseRoom` and `CloseAroundHost` |
| host's endpoints | `CreateRoom`, `CreateInvite`, `RevokeInvite`, `Kick`, `Ban`, `Unban` |
| clocks | `Expire`, `CooldownEnds` |

The host who leaves may join again before the two broadcasts are over. The
departing request still holds its own object of the host, refreshed when `room_id`
had become NULL and not expired since; `room.users` returns that object, so the
loop passes the host over and the delete, which sees nothing to change, writes no
UPDATE. If there is another member, saving that one commits, which expires the
host's object: then all go (`CloseRoom`). If the host is alone in the room
(`BackAlone`, `CloseAroundHost`), SQLite deletes the room and leaves the host's
row naming it; PostgreSQL refuses the DELETE because `users.room_id` refers to the
room, everything is rolled back and the request fails. `Dialect` is the database.

`PATCH /rooms/{id}` is absent because it does nothing (see "Observed" below).

### Sockets

`registered`, `owned` and `pong` are the manager's `active_connections[room_id]`,
`_socket_user` and `_last_pong`, and `known` says whether the room is a key.
`stage` and `beat` say where an endpoint and its heartbeat loop are; `shut` and
`client` are the two ends of the wire; `evict` is an eviction under way. `late`
remembers the sockets that were accepted after the eviction of their user had
looked at the registry.

| Code | Actions |
|---|---|
| `authenticate_ws_connection`, `connect` | `Authenticate`, `Accept` or `AcceptFails` |
| receive loop, `record_pong` | `Pong`, `ReceiveEnds` |
| `_heartbeat_loop`, `is_stale` | `HeartbeatCloses`, `HeartbeatRaises`, `PingFails` |
| `finally` of the endpoint | `Finally` |
| `_safe_send` of any broadcast | `SendFails` |
| `_evict`, `disconnect_user` | `Evict` or `BanAbsent`, `Target`, `CloseTarget`, `ForgetTarget`, `EvictionEnds` |
| members and clients | `Join`, `Leave`, `GoesAway`, `FallsSilent`, `DeadlinePasses` |

A socket is opened once; a client that reconnects is the next socket.

### Accounts

`id`, `password`, `ver` and `email` are the row with the name; `req` is what each
request has read and where it stands; `token` the id and version in the token a
request has issued; `lost` remembers that a password was replaced unseen, or a
version overwritten by an older one. The endpoints are threads, so reading, writing, the refresh
after a commit, and the second write of `increment_token_version` are steps.

| Code | Actions |
|---|---|
| `local_login`, `login`, `register` | `SendLogin`, then `LocalLogin`, `OnlineLogin` or `Register`; `CreateUser`, `IssueToken`, `IssueFresh` |
| `change_password`, `increment_token_version` | `Send`, `Verify`, `ChangeAndBump` (with `WriteVersion`), `IssueFresh` |
| `set_password` | `Send`, `SetPassword` |
| `complete_profile` | `Send`, `CompleteProfile` with `StoreEmail` |
| `get_current_user_unchecked` | `ValidTokens` |
| `DELETE /users/{id}` | `DeleteUser`; `RowGone` for a request that finds its row gone |

`MaxRows` bounds how often the name is registered, `MaxChanges` the requests that
change the password, and so the version.

### Streaming

`row` is the user's row of `platform_connections`; `req` is a request with what
it loaded and what Spotify answered; `page` is the page of Spotify's that the
user has open. `issued` and `live` are Spotify's own: the refresh tokens it has
made and those it accepts. `spoilt` and `gone` remember the grants that were
withdrawn or lost and those that were disconnected.

| Code | Actions |
|---|---|
| `connect` | `SendConnect`, `StoreCredentials` |
| `start_spotify_oauth`, `spotify_oauth_callback`, `store_oauth_tokens` | `StartOAuth`, `Callback`, `StoreTokens` |
| `get_valid_access_token`, `force_refresh_token`, `_refresh_access_token` | `AskForToken`, `StoreRefreshed` |
| any call that is refused or lost | `Refused`, `LoseAnswer` |
| `disconnect`, a thread | `FindConnection`, `DeleteConnection` |
| Spotify and its user (external) | `SpotifyExchanges`, `SpotifyRefreshes`, `Revoke`, `AbandonOAuth`, `TimePasses` |

`MaxTokens` bounds the refresh tokens Spotify makes, `MaxRows` the rows.

### SkipVotes

`queue`, `votes` and `history` are the tables, `cooling` the users in
`_vote_cooldowns`, `sending` the messages with `skip_triggered` that have still to
go out, each with what its song was when the votes were counted: the current one,
or one that waits. `added`, `left`, `played` and `broken` (the entries of `played`
whose `finish_song` did not get to the removal) are history variables.

| Code | Actions |
|---|---|
| `cast_vote` | `CastVote`: `SkipVoted`, `VoteForWaiting`, `CountVote` or `VoteForGone`; `VoteRefused` |
| `remove_vote` | `RemoveVote`, `VoteRefused` |
| `finish_song` | `Finished` with the last of the four commits that succeeded, in `FinishSong` and (told which item) `SkipVoted` |
| `_record_history`, `delete_oldest` | `Record`, `Pruned` |
| the broadcast with `skip_triggered` | `Announce`, `SendSkipVote` |
| queue API | `AddToQueue`, `RemoveFromQueue` (with the item's votes) |
| clock, and the process starting again | `CooldownOver`, `Restart` |

`MaxPlayed` bounds the songs recorded. A foreign key on `queue_votes.queue_item_id`
is enforced by PostgreSQL and not by SQLite, where no `PRAGMA foreign_keys` is
issued: that is the constant `Dialect`.

## 3. Properties and runs

Each module has one type invariant, `TypeOK`. It also says what the code keeps
within bounds: positions at or above zero (`QueueStore`), uses of an invite at
most `max_uses` (`Rooms`), heartbeat loops only in open endpoints (`Sockets`), no
token without a grant (`Streaming`), on PostgreSQL no vote without its item
(`SkipVotes`), a version at most the number of changes (`Accounts`). The other
properties:

| Property | Says | Run |
|---|---|---|
| `NextPositionFree` | the position an add has read is above all of its group until it inserts | `QueueStorePG` |
| `IsFifoQueue` | the table, and the queue the poll loop uses, refine `FifoQueue` | `QueueStorePG`, `Playback` |
| `OrderKept` | two songs of a group that stay keep their order, whatever became of the locks | `QueueStoreSQLite` |
| `ScanCurrent` | the rows a delete will shift are as its SELECT saw them | `QueueStorePG`, `QueueStoreSQLite` |
| `RequestsEnd` | no request waits for ever | the same |
| `HeardOnly` | nobody takes a song for played that was not | `Playback` |
| `WaitingSongKept` | the loop never finishes a song that waits | `Playback` |
| `Settles` | left alone, the session comes to agree with the player | `Playback` |
| `QueueKeepsPlaying` | songs do not wait for ever in front of a silent player | `Playback` |
| `RegisteredRuns` | the registered task is alive and not cancelled | `PollerTasks` |
| `ExtrasWereStopped` | there are no more unregistered pollers than tasks that were cancelled and have ended | `PollerTasks` |
| `PollersEnd` | the tasks of a room that is gone end | `PollerTasks` |
| `DeletionEnds` | deleting a room is answered | `PollerTasks` |
| `NoOrphans` | nothing refers to a room that is gone, and nobody is in it but, on SQLite, its host | `Rooms` |
| `BannedOnlyByLink` | a banned user is in the room only by an invite link | `Rooms` |
| `OverfullOnlyByLink` | a room is too full only if somebody came by a link | `Rooms` |
| `HostGoneRoomGone` | when a host's departure is answered, the room is gone or, on PostgreSQL, the host is back in it alone | `Rooms` |
| `RegistryExact` | the maps of the manager agree, and hold no dead socket | `Sockets` |
| `EvictedAreOut` | who was evicted has no socket but one that was being accepted | `Sockets` |
| `CutOffEnds` | an endpoint whose client is silent, or that is unregistered, ends | `Sockets` |
| `OldTokensDie` | a change of the password ends every older token, unless a third, late change puts the version back | `Accounts` |
| `LoginsAreCurrent` | no token that a login issued is valid for a password that was changed | `Accounts` |
| `TokenWorks` | the stored refresh token is one Spotify takes, or its successor is in hand | `Streaming` |
| `DisconnectIsFinal` | a token that was disconnected never comes back | `Streaming` |
| `Renewed` | an access token that is about to expire is renewed | `Streaming` |
| `AnnouncedWhenGone` | the skip of the current song is announced only when that song is gone | `SkipVotes` |
| `LeftIsRecorded` | a finished song was recorded (in `played`, not for how long in `history`) | `SkipVotes` |
| `FinishedOnce` | a song is not finished again after a `finish_song` that was completed | `SkipVotes` |

The runs:

| Run | Instance | Distinct states |
|---|---|---|
| `QueueStorePG` | 3 writers, 4 rows, 2 groups, PostgreSQL | 354 thousand |
| `QueueStoreSQLite` | 2 writers, 4 rows, SQLite | 106 thousand |
| `Playback` | 1 poll loop, 1 host with 1 request, 2 items, 1 act of Spotify | 135 thousand |
| `PollerTasks` | 3 tasks, 2 sessions of the room | 75 thousand |
| `Rooms` | 3 users (1 host), a room for 2, an invite of 2 uses, 2 requests at once, SQLite | 260 thousand |
| `Sockets` | 2 sockets of one member | 207 thousand |
| `Accounts` | 4 requests, 2 passwords, 2 rows, 3 changes | 1.3 million |
| `Streaming` | a poll loop and a request, 2 apps, 2 tokens, 2 rows | 164 thousand |
| `SkipVotes` | 3 songs, 3 voters, threshold 2, history of 2, PostgreSQL | 172 thousand |

Deadlock is checked in `Playback`, `Streaming` and `SkipVotes`; in the others
requests need not come, or the application may be shut down, so they may stop.

Some configurations on disk are run by hand. `PlaybackHost` (two requests of the
host) checks the safety properties where one request overtakes another, and
`PlaybackTwice` checks `WaitingSongKept` with two loops and both groups, and
`RoomsPG` what `Rooms` checks on PostgreSQL; all pass. `PlaybackSkip`,
`QueueStorePGGap`, `QueueStoreSQLiteJoin`, `RoomsTwo`, `RoomsReturn`,
`SkipVotesWaiting` and `AccountsThree` are counterexamples, explained below.
`Streaming` with three tokens (2.75 million states, safety only) and `SkipVotes`
with SQLite (1.4 million) pass as well.

### Why the bounds suffice

The races of the queue store need one writer in the middle of its work, one that
overtakes it and, on PostgreSQL, one under the other lock key; a shift can collide
only if two rows are above the one removed, and a fourth row can join then. In
`Playback` a decision depends on the first two items and on one stale copy of the
session; every act of Spotify's that matters happens once in between. In
`PollerTasks` three tasks are the registered one, a cancelled one and a forgotten
one.

In `Rooms` a race is between a request with an old `current_user` and what has
been done since. Two old copies, beside host's requests that need none, let two
joins pass the check of the last place together and let somebody join between the
two broadcasts of a departure. A room for two is full with a host and one
member, so a third can overfill it. In `Sockets` an eviction needs a socket that
is registered and one that is being accepted meanwhile; users share nothing but
the key of the room, which one user's two sockets show. In `Accounts` four
requests are a login and the three changes that can put a version back, or a
login that overtakes two changes; the second row shows that no token passes
from one account to the next of the name. In `Streaming` two requests at once are
the poll loop and the host who meet at one refresh token; tokens are handed on
one at a time, so two are an old and a new one, and two rows a connection and
the next. In `SkipVotes` with a threshold of two and three songs, votes for
two songs are under way while a third waits, and the third entry of a history
of two is the first to be pruned.

### Fairness

`QueueStore`: a request that has begun is run by its thread (weak fairness of its
steps); nobody must begin one. `Playback`: the loop goes round for ever and a
request is run to its end (weak fairness); a call of the loop that is tried again
and again is answered once (strong fairness of `PollObserve` and of the
successful calls), since errors lead to a back-off and another turn.
Nothing is assumed of members, host, owner or Spotify's own acts. `PollerTasks`:
asyncio runs every task that can run, and a waiting request goes on when what it
waits for has happened.

`Sockets`: the event loop accepts, runs both loops of every endpoint and goes on
with an eviction; a silent client's deadline passes; and the transport reports a
connection that the server has closed, if only after a timeout of its own
(`CutOffEnds` rests on this last one where a heartbeat loop has returned and the
receive loop goes on). Clients and hosts owe nothing. `Streaming`: a request whose
answer has come goes on, Spotify answers or refuses; the poll loop asks again in
every turn, and not every answer to it is lost (strong fairness). `Rooms`,
`Accounts` and `SkipVotes` have no liveness properties and assume nothing.

### Where the code differs from what it says

Three runs state what a docstring says and find a counterexample.

| Run | Property | Disagreement |
|---|---|---|
| `PollerTasksTwo` | `OnePoller` | `start_polling` starts a second task beside one whose entry was removed by the `finally` of an older one. |
| `PlaybackRepeat` | `WaitingSongKept` | a waiting song "must not be passed to finish_song"; one whose track was the current one already is. |
| `HistoryNewest` | `HistoryNewest` | `delete_oldest` promises to keep "only the most recent entries", but it keeps the oldest: once the history is full, the song just recorded is deleted again. |

Seven more configurations, run by hand, show the same kind of thing:

| Configuration | Property | Disagreement |
|---|---|---|
| `QueueStorePGGap` | `Contiguous` | `delete` is called atomic under PostgreSQL, but locks another key than add: an add commits inside its shift and leaves a hole. The order is kept (`IsFifoQueue`). |
| `QueueStoreSQLiteJoin` | `JoinsTheEnd` | `add_to_queue_atomic` promises an IntegrityError when threads slip through; after a skipped lock and a delete, a late add takes an earlier place instead. |
| `PlaybackSkip` | `SkipKeepsWaiting` | skip "the current song" finishes the waiting one while another track plays. |
| `RoomsTwo` | `OneRoomAtATime` | joining is refused to a member of another room, but the check reads the `current_user` loaded before: of two joins sent together the second moves the user on. |
| `RoomsReturn` | `NobodyStranded` | `_handle_host_departure` promises to "Close room and evict remaining members": on SQLite a host who came back alone during the broadcasts stays a member of the deleted room, cannot join another ("already in another room") and cannot leave (no such room). On PostgreSQL the request fails and the room stays (`RoomsPG`). |
| `SkipVotesWaiting` | `AdvancedWhenHeard` | "the queue has already advanced when clients receive skip_triggered=true" (`services/queue_vote_service.py:120`), but `skip_triggered` is computed from the count alone and is sent also for a song that waits, on which `finish_song` returns early. |
| `AccountsThree` | `EveryOldTokenDies` | `increment_token_version` is said to be "invalidating every issued token"; of three changes that overlap, a late one writes an older number, and a token of that version is valid again. |

### Observed while modelling

- `PATCH /rooms/{id}` (`api/rooms/router.py:161`) calls the coroutine
  `update_room` without awaiting it: rooms never change.
- `votes_skip` is committed only when the vote skips the song, by the first commit
  of `finish_song`, and the row is deleted then; otherwise it is set and never
  committed (`services/queue_vote_service.py:117` and `:171`).
- A song that becomes the first with enough votes stays until another vote is
  cast.
- The docstring of `QueueVote` (`db/models/queue_vote.py:17`) says a song is skipped
  at 50% of the room's members; the code compares with the room's fixed
  `skip_threshold`, two unless set.
- On SQLite a vote for an item that has gone is stored before the request fails,
  and nothing deletes it.
- An invite link gets round ban and capacity; it is used up also by somebody who
  is in the room, and the router does not translate its conflict error.
- New app credentials keep the tokens of the old app, so refreshes fail until the
  user connects again; a callback that ends after a disconnect makes a row
  without app credentials, which then uses those of the settings.
- When a refresh token was rotated and the answer lost, or when two refreshes meet
  after a rotation, the user is told that access was revoked.
- `set_password` and `complete_profile` check the row as loaded: two of them
  together, and the later password wins unseen.
- The upload of an avatar unlinks the old file before the row points to the new.

## 4. Proofs

All theorems hold for every value of the constants that satisfies the named
assumption of their module (`QueueStoreAssumption`, `PlaybackAssumption`,
`PollerTasksAssumption`, `RoomsAssumption`, `SocketsAssumption`,
`StreamingAssumption`, `SkipVotesAssumption`, `AccountsAssumption`). The assumptions keep kinds of values
apart and say which constants are numbers; `RoomsAssumption` also says that there
are finitely many users.

**QueueStoreProofs.** The inductive invariant `IInv` adds to `TypeOK` who is
inside which lock (a PostgreSQL writer past its lock holds the key of its group
or of the deletes, a SQLite delete that has written holds the file), that an
add's row is its own, that positions are bounded (so that a maximum exists) and
distinct in their group, and that the position or scan of a writer in between is
still good. `TypeOK` alone is not inductive: that a shift never makes a position
negative needs the scan to be above a natural number. One lemma per action
keeps `IInv`. `AddReadsCurrentMax` and `ShiftLosesNoUpdate` are parts of it; the
second holds on both databases, for SQLite because the DELETE itself takes the
write lock. `ImplementsFifoQueue` shows that an insert is `Enqueue`, a shift is
`Dequeue` and all else stutters: a shift lowers positions by at most one and
leaves them distinct, so it keeps the order. `NobodyOvertakes` says so of both
databases and of any lock that was skipped: for SQLite it is all that can be said,
since a late add may land before the end (`QueueStoreSQLiteJoin`). What it takes
there is `ImplementsFifoQueueOnSQLite`: a behaviour of `Spec` in which no
BEGIN IMMEDIATE fails (`[][LocksAreTaken]_vars`) implements `FifoQueue`, because
then whoever is past the lock holds the file (`FileHeld`). That `Max` of a bounded non-empty
set of naturals is a member and a bound follows from a lemma on least naturals.

**PlaybackProofs.** `Invariance` proves `TypeOK` and `KnownOnly`: a track in
`Songs \ Foreign` counts as played for the session, the player or a coroutine only
if an item with it was started. It assumes nothing of the songs, and treats each
action as the change of one actor (`OneActor`) with the room kept or played.
`TypeCorrect` and, if no song of the queue is played from outside,
`NobodyMistakesASong` follow. `OnlyRepeatsAreLost` says exactly which waiting songs
a poll loop can finish: one whose track was started for another item before, or
may be played from outside, since the loop finishes the first item only if its
loaded session names that item's track. No run checks it. With `DistinctSongs`
there is no such song, which is `WaitingSongsAreKept`; the run `PlaybackRepeat`
shows that the assumption is needed there.

`QueueIsFifo` is the refinement of `FifoQueue`, with no assumption on the songs:
`QueuedOnce` (an item stands in one place, and what was never added is not queued)
is kept, an `Add` is `Enqueue`, the departure of the n-th item is `Dequeue`, and
`QueueMoves` shows that no other action, of whatever actor, touches the queue. The
instance of the run has two items, the theorem any number of them, which is where
the order of a group matters. Lemmas on `Without` and `With` say which item stands
where after a departure and an insertion.

**PollerTasksProofs.** `RegistryHoldsNoDeadTask` needs that a cancelled or
finished task is never registered, and that a task is registered only once.
`TypeCorrect` is a part of the same invariant. `ExtraPollersCostStops` is what
remains true of `OnePoller`, which `PollerTasksTwo` refutes: a poller becomes
unregistered only by the `finally` of a task that was cancelled, or of one that is
itself unregistered and ends, and each cancelled task runs its `finally` once. The
tasks created so far are finitely many (`Counted`), so the two sets can be counted;
`OnePollerUntilStopped` is the consequence for a room that was never stopped.

**RoomsProofs.** `IInv` is the type, what requests may hold (a request under way
names a user and a room that was created), `Made`, `NoOrphans`,
`BannedOnlyByLink` and `DoorsFit`. `OverfullOnlyByLink` is not inductive, since
the one who came by a link may depart and leave the others too many: `DoorsFit`
says that those who came by the door are at most `max_members`, and it implies
`OverfullOnlyByLink`. Members come one at a time, so a lemma on the cardinality
of a set with one more user does the counting. `Made` says that only a room
whose id is used has a maker, that the maker is its host while the room exists,
and that a departure that closes the room is the maker's; it is what `NoOrphans` needs to
name the one user that SQLite may leave in a room that is gone.
`DepartureClosesRoom` is the action property: a request whose host has left ends
in `AnnounceClosed` when the room is gone, in `CloseRoom`, or in
`CloseAroundHost`, where the host is back. Both are proved for either dialect.

**SocketsProofs.** `EvictedAreOut` speaks of the end of an eviction, and its
invariant of the way there: `EvictionState` types an eviction, and `StillToClose`
says that every registered socket of an evicted user is a target not yet closed,
or the one being closed, or `late`. `MapsAgree` is a part of the invariant and
shows that no order of `_safe_send`, `disconnect_user`, `record_pong` and the
`finally` leaves a socket in one map alone.

**StreamingProofs.** The invariant is about who holds which grant. `Owned`: a
grant belongs to one row, so a refresh asked for the stored row holds no
disconnected grant, and one asked for an earlier row no grant of the stored one. `Unstored`: the grant of an exchange whose answer is still
to be stored is nowhere else. `Successors`: a refresh token still to be stored is
neither in the row nor in another request's hand. From these `TokenWorks` (the
stored token can be retired only by the refresh that has its successor) and
`DisconnectIsFinal` (an answer for a deleted row finds no row of its id) are
inductive. Both hold for any number of requests and of rows.

**SkipVotesProofs.** Lemmas on `RemoveAt` and `InsertAt` say what is in a sequence
afterwards. The properties are inductive together with `TypeOK` and `Completed`:
a completed entry's song has left the queue, and a song that has left is not
queued. What is announced as current is gone because a removed item never comes
back (`added`), what has left is recorded because the entry is committed before
the item is deleted, and no song is completed twice because `finish_song` only
finishes what is still at the head.

**AccountsProofs.** `OldTokensDie` and `LoginsAreCurrent` speak of a change that
is over; the invariant says what is true while requests are on their way.
`Counted`: a version is at most the number of changes whose increment was written,
which bounds it although the changes overlap. `Shapes` says what a request can have
in hand at each step. `Behind`: as long as no version was put back, no token or
loaded copy of the present row is ahead of the row. `Overtaken`: a change has
read a version at least that of every token it is to end, and when it has written
the next one they are behind the row; from this and the check that a token's
version equals the row's follows `OldTokensDieAlways`. `LoginTokens` and `Outdated`
are for `LoginsStayCurrent`: a login that compared a hash the row no longer has
also read a version the row no longer has, or will not have when a change that
has written its hash has written its increment. Each action keeps the seven parts,
for any number of requests, passwords and rows. The escapes of the two properties
(a version put back; a replaced password) are what `AccountsThree` and the
observations above show to happen.

Left to TLC: the liveness properties (`RequestsEnd`, `QueueKeepsPlaying`,
`Settles`, `PollersEnd`, `DeletionEnds`, `CutOffEnds`, `Renewed`), which rest on
fairness and ENABLED, out of this prover's reach. All other properties of the
passing runs are theorems, `IsFifoQueue` on SQLite only under the hypothesis above.

## 5. Not modelled

- *The rest of the accounts*: `PATCH` of a user writes a name or an email under a
  unique constraint; logout clears a cookie; the avatar is a file beside one
  column. Hashing and token encoding are library code, modelled by what they
  guarantee.
- *Search, songs, metadata cache*: lookups, and single statements under a unique
  constraint; the cache only spares calls to Spotify.
- *Sessions' fields*: `PATCH` of a session. Removal of the session row while a
  host's request waits is not in `Playback`.
- *The web client* and its auto-start of a song added to an idle queue: a Vue
  program with a protocol of its own; `Sockets` has the server's side.
- *QR codes, schemas, network gate, configuration, migrations*: pure functions,
  declarations and scripts without a state of their own.

## 6. Order of the work

The queue store and its refinement, the playback loop with the host's control,
the task registry, rooms, sockets, streaming connections, skip votes and history,
accounts; each with its proofs. What would add most next:

1. `AutoStart`: `song_changed`, `_is_playback_active` and the host's client,
   composed with `Playback`.
2. `Playback` with the removal of the session row, composed with `PollerTasks`.
3. That the queue of `SkipVotes`, taken apart commit by commit, still implements
   `FifoQueue`.
