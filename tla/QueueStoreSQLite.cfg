\* Two SQLite writers whose lock waits may time out.
\* Requests may stop coming, so the system may stop.
CONSTANTS
  Dialect = "sqlite"
  Writers = {w1, w2}
  NoWriter = NoWriter
  NoItem = NoItem
  Items = {a, b, c, d}
  Groups = {"manual", "playlist"}
  Group <- ManualGroup
  a = a
  b = b
  c = c
  d = d
SPECIFICATION Spec
CHECK_DEADLOCK FALSE
INVARIANTS ScanCurrent
PROPERTIES OrderKept RequestsEnd
