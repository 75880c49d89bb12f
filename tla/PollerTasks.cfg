\* Three tasks over two sessions of a room.
\* The application may be shut down, so the system may stop.
CONSTANTS
  Tasks = {t1, t2, t3}
  NoTask = NoTask
  MaxSessions = 2
SPECIFICATION Spec
CHECK_DEADLOCK FALSE
INVARIANTS TypeOK RegisteredRuns ExtrasWereStopped
PROPERTIES PollersEnd DeletionEnds
