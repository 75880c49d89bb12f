\* A host who comes back while the room is being closed.
CONSTANTS
  Users = {h, u, v}
  Hosts = {h}
  Rooms = {r}
  Invites = {i}
  Requests = {q1, q2}
  None = None
  MaxMembers = 2
  MaxUses = 2
  Dialect = "sqlite"
SPECIFICATION Spec
CHECK_DEADLOCK FALSE
INVARIANTS NobodyStranded
SYMMETRY Interchangeable
