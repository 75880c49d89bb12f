\* A start between the cancellation of a task and its end.
\* The application may be shut down, so the system may stop.
CONSTANTS
  Tasks = {t1, t2, t3}
  NoTask = NoTask
  MaxSessions = 2
SYMMETRY Interchangeable
SPECIFICATION Spec
CHECK_DEADLOCK FALSE
INVARIANT OnePoller
