\* On PostgreSQL: three users, a room for two, an invite of two uses, and two requests at once
\* between their loading and their end, beside the requests of host and strangers.
\* Requests may stop coming, so the system may stop.
CONSTANTS
  Users = {h, u, v}
  Hosts = {h}
  Rooms = {r}
  Invites = {i}
  Requests = {q1, q2}
  None = None
  MaxMembers = 2
  MaxUses = 2
  Dialect = "postgresql"
SPECIFICATION Spec
CHECK_DEADLOCK FALSE
INVARIANTS TypeOK NoOrphans BannedOnlyByLink OverfullOnlyByLink
PROPERTIES HostGoneRoomGone
SYMMETRY Interchangeable
