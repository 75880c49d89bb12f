\* Votes for a song that waits.
CONSTANTS
  a = a
  b = b
  c = c
  u = u
  v = v
  w = w
  Items = {a, b, c}
  Users = {u, v, w}
  Threshold = 2
  Keep = 2
  MaxPlayed = 3
  Dialect = "postgresql"
SPECIFICATION Spec
SYMMETRY Interchangeable
INVARIANTS AdvancedWhenHeard
