---------------------------- MODULE PollerTasks ----------------------------
(***************************************************************************)
(* The life of the poll-loop tasks of one room: the registry of            *)
(* PlaybackPollerService, the endpoints that start and stop a task, and    *)
(* the loop as far as it decides when a task ends.  What a turn of the     *)
(* loop does to the room is module Playback.                               *)
(*                                                                         *)
(* A cancelled task is told so when it runs next; its `finally` then       *)
(* removes the room's entry from the registry, whoever's entry it is.      *)
(***************************************************************************)
EXTENDS Naturals, FiniteSets

CONSTANTS
  Tasks,       \* the asyncio tasks that are ever created for the room
  NoTask,
  MaxSessions  \* bound on the playback sessions created for the room

ASSUME PollerTasksAssumption == NoTask \notin Tasks /\ MaxSessions \in Nat

VARIABLES
  room,      \* the room's row exists
  session,   \* the room has a session row
  sessions,  \* how many sessions have been created
  serving,   \* the application takes requests
  entry,     \* _active_tasks.get(room_id)
  stage,     \* where each task is suspended
  cancelled, \* the tasks with a pending or delivered cancel()
  awaited    \* the tasks for which requests to delete the room wait

world == <<room, session, sessions, serving>>
vars == <<world, entry, stage, cancelled, awaited>>

Suspended == {"asleep", "loading", "missing", "working", "leaving"}
Stages == {"unborn", "new", "done"} \cup Suspended

Init ==
  /\ room = TRUE
  /\ session = FALSE
  /\ sessions = 0
  /\ serving = TRUE
  /\ entry = NoTask
  /\ stage = [t \in Tasks |-> "unborn"]
  /\ cancelled = {}
  /\ awaited = {}

Move(t, s) == stage' = [stage EXCEPT ![t] = s]

-----------------------------------------------------------------------------
(* The registry *)

(***************************************************************************)
(* Variant without `if room_id in self._active_tasks`.                     *)
(***************************************************************************)
StartAnyway(t) ==
  /\ serving
  /\ stage[t] = "unborn"
  /\ entry' = t
  /\ Move(t, "new")
  /\ UNCHANGED <<world, cancelled, awaited>>

(***************************************************************************)
(* start_polling: nothing if there is an entry, else a new task.           *)
(***************************************************************************)
StartPolling(t) ==
  /\ serving
  /\ entry = NoTask
  /\ stage[t] = "unborn"
  /\ entry' = t
  /\ Move(t, "new")
  /\ UNCHANGED <<world, cancelled, awaited>>

(***************************************************************************)
(* Variant without `if task`.                                              *)
(***************************************************************************)
PopAndCancelAny ==
  /\ entry' = NoTask
  /\ cancelled' = cancelled \cup {entry}

(***************************************************************************)
(* stop_polling (and stop_all, for this room) up to the wait for the task. *)
(***************************************************************************)
PopAndCancel ==
  /\ entry' = NoTask
  /\ cancelled' = IF entry = NoTask THEN cancelled ELSE cancelled \cup {entry}

-----------------------------------------------------------------------------
(* The endpoints *)

CreateSession ==
  /\ serving /\ room /\ ~session
  /\ sessions < MaxSessions
  /\ session' = TRUE
  /\ sessions' = sessions + 1
  /\ UNCHANGED <<room, serving, entry, stage, cancelled, awaited>>

(***************************************************************************)
(* get_room_playback starts a task in a room that has a session; play,     *)
(* resume and skip do so after a Spotify call, whatever became of the      *)
(* session meanwhile.                                                      *)
(***************************************************************************)
Play == \E t \in Tasks : StartPolling(t)

(***************************************************************************)
(* DELETE /session/{id}: the row first, then the task.                     *)
(***************************************************************************)
DeleteSession ==
  /\ serving /\ session
  /\ session' = FALSE
  /\ PopAndCancel
  /\ UNCHANGED <<room, sessions, serving, stage, awaited>>

(***************************************************************************)
(* DELETE /rooms/{id}: the task first, the rows when it has ended.         *)
(***************************************************************************)
DeleteRoom ==
  /\ serving /\ room
  /\ PopAndCancel
  /\ awaited' = awaited \cup ({entry} \ {NoTask})
  /\ room' = (entry # NoTask)
  /\ session' = (session /\ entry # NoTask)
  /\ UNCHANGED <<sessions, serving, stage>>

DeleteRoomEnds(t) ==
  /\ t \in awaited
  /\ stage[t] = "done"
  /\ awaited' = awaited \ {t}
  /\ room' = FALSE
  /\ session' = FALSE
  /\ UNCHANGED <<sessions, serving, entry, stage, cancelled>>

(***************************************************************************)
(* _handle_host_departure deletes the room and leaves the task to notice.  *)
(***************************************************************************)
HostLeaves ==
  /\ serving /\ room
  /\ room' = FALSE
  /\ session' = FALSE
  /\ UNCHANGED <<sessions, serving, entry, stage, cancelled, awaited>>

(***************************************************************************)
(* stop_all, when the application shuts down.                              *)
(***************************************************************************)
ShutDown ==
  /\ serving
  /\ serving' = FALSE
  /\ PopAndCancel
  /\ UNCHANGED <<room, session, sessions, stage, awaited>>

-----------------------------------------------------------------------------
(* _poll_loop *)

(***************************************************************************)
(* Variant without the `finally`.                                          *)
(***************************************************************************)
EndsQuietly(t) ==
  /\ Move(t, "done")
  /\ UNCHANGED <<world, entry, cancelled, awaited>>

(***************************************************************************)
(* The `finally` of the loop, when the task is left for good.              *)
(***************************************************************************)
Ends(t) ==
  /\ Move(t, "done")
  /\ entry' = NoTask
  /\ UNCHANGED <<world, cancelled, awaited>>

Runs(t, from, to) ==
  /\ stage[t] = from
  /\ t \notin cancelled
  /\ Move(t, to)
  /\ UNCHANGED <<world, entry, cancelled, awaited>>

Begin(t) == Runs(t, "new", "asleep")
Wake(t) == Runs(t, "asleep", "loading")

(***************************************************************************)
(* Variant without `if not session: break`.                                *)
(***************************************************************************)
ReadAnyway(t) == Runs(t, "loading", "working")

(***************************************************************************)
(* _get_session_state reads in a thread; what it found is acted upon when  *)
(* the task runs again.                                                    *)
(***************************************************************************)
ReadSession(t) == Runs(t, "loading", IF session THEN "working" ELSE "missing")

(***************************************************************************)
(* The turn is over, well or with an error; or the host has no OAuth       *)
(* connection, which is announced before the loop is left.                 *)
(***************************************************************************)
TurnOver(t) == Runs(t, "working", "asleep")
NoConnection(t) == Runs(t, "working", "leaving")

Break(t) ==
  /\ stage[t] \in {"missing", "leaving"}
  /\ t \notin cancelled
  /\ Ends(t)

(***************************************************************************)
(* Variant whose `except` takes CancelledError for an error of the turn.   *)
(***************************************************************************)
CancelSwallowed(t) ==
  /\ t \in cancelled
  /\ stage[t] \in Suspended
  /\ Move(t, "asleep")
  /\ UNCHANGED <<world, entry, cancelled, awaited>>

(***************************************************************************)
(* CancelledError: raised at the await, or before the coroutine has run at *)
(* all, and then there is no `finally`.                                    *)
(***************************************************************************)
Cancelled(t) ==
  /\ t \in cancelled
  /\ \/ stage[t] \in Suspended /\ Ends(t)
     \/ /\ stage[t] = "new"
        /\ Move(t, "done")
        /\ UNCHANGED <<world, entry, cancelled, awaited>>

TaskStep(t) ==
  \/ Begin(t) \/ Wake(t) \/ ReadSession(t)
  \/ TurnOver(t) \/ NoConnection(t)
  \/ Break(t) \/ Cancelled(t)

Next ==
  \/ CreateSession \/ Play \/ DeleteSession
  \/ DeleteRoom \/ HostLeaves \/ ShutDown
  \/ \E t \in Tasks : TaskStep(t) \/ DeleteRoomEnds(t)

(***************************************************************************)
(* The event loop runs every task that can run, and goes on with a request *)
(* whose wait is over; nobody has to send a request.                       *)
(***************************************************************************)
Fairness ==
  \A t \in Tasks : WF_vars(TaskStep(t)) /\ WF_vars(DeleteRoomEnds(t))

Spec == Init /\ [][Next]_vars /\ Fairness

-----------------------------------------------------------------------------
(* Properties *)

(***************************************************************************)
(* The type invariant of the room, the registry and the tasks.             *)
(***************************************************************************)
TypeOK ==
  /\ room \in BOOLEAN
  /\ session \in BOOLEAN
  /\ sessions \in 0..MaxSessions
  /\ serving \in BOOLEAN
  /\ entry \in Tasks \cup {NoTask}
  /\ stage \in [Tasks -> Stages]
  /\ cancelled \subseteq Tasks
  /\ awaited \subseteq Tasks

Running == {t \in Tasks : stage[t] \notin {"unborn", "done"} /\ t \notin cancelled}

(***************************************************************************)
(* The registered task is one that runs and has not been told to stop:     *)
(* start_polling, which does nothing when there is an entry, never leaves  *)
(* a room to a task that is dead (start_polling, stop_polling, finally).   *)
(***************************************************************************)
RegisteredRuns == entry # NoTask => entry \in Running

(***************************************************************************)
(* "Start a polling task for a room if one is not already running": two    *)
(* tasks never poll the same room.                                         *)
(***************************************************************************)
OnePoller == \A t, u \in Running : t = u

(***************************************************************************)
(* A task that polls without being registered costs a stop: there are      *)
(* never more of them than tasks that were cancelled and have run their    *)
(* `finally`, so that a room whose poller was never stopped has one        *)
(* (start_polling, stop_polling, the `finally` of _poll_loop).             *)
(***************************************************************************)
Unregistered == Running \ {entry}
Stopped == {t \in cancelled : stage[t] = "done"}

ExtrasWereStopped == Cardinality(Unregistered) <= Cardinality(Stopped)

(***************************************************************************)
(* A room that is gone is polled no more, however it went and whoever is   *)
(* registered; its entry is gone with its tasks (_poll_loop, break).       *)
(***************************************************************************)
PollersEnd ==
  ~room ~> entry = NoTask /\ \A t \in Tasks : stage[t] \in {"unborn", "done"}

(***************************************************************************)
(* A request to delete a room is not kept waiting for ever by a task that  *)
(* does not end (stop_polling).                                            *)
(***************************************************************************)
DeletionEnds == \A t \in Tasks : t \in awaited ~> t \notin awaited
=============================================================================
