\* As in SkipVotes.cfg, with one voter: the history after the third song.
CONSTANTS
  a = a
  b = b
  c = c
  u = u
  Items = {a, b, c}
  Users = {u}
  Threshold = 2
  Keep = 2
  MaxPlayed = 3
  Dialect = "postgresql"
SPECIFICATION Spec
SYMMETRY Interchangeable
INVARIANT HistoryNewest
