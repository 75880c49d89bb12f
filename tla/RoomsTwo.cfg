\* Two hosts with a room each, and two requests of theirs at once.
CONSTANTS
  Users = {h, u}
  Hosts = {h, u}
  Rooms = {r, s}
  Invites = {i}
  Requests = {q1, q2}
  None = None
  MaxMembers = 2
  MaxUses = 1
  Dialect = "sqlite"
SPECIFICATION Spec
CHECK_DEADLOCK FALSE
PROPERTIES OneRoomAtATime
