\* Three SQLite writers, two of which lose patience with the lock.
\* Requests may stop coming, so the system may stop.
CONSTANTS
  Dialect = "sqlite"
  Writers = {w1, w2, w3}
  NoWriter = NoWriter
  NoItem = NoItem
  Items = {a, b, c}
  Groups = {"manual", "playlist"}
  Group <- ManualGroup
  a = a
  b = b
  c = c
  d = d
SPECIFICATION Spec
CHECK_DEADLOCK FALSE
PROPERTIES JoinsTheEnd
