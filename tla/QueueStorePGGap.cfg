\* An add and a delete on PostgreSQL.
\* Requests may stop coming, so the system may stop.
CONSTANTS
  Dialect = "postgresql"
  Writers = {w1, w2}
  NoWriter = NoWriter
  NoItem = NoItem
  Items = {a, b, c}
  Groups = {"manual", "playlist"}
  Group <- ManualGroup
  a = a
  b = b
  c = c
  d = d
SPECIFICATION Spec
CHECK_DEADLOCK FALSE
INVARIANT Contiguous
