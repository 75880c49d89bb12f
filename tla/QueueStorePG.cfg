\* Three concurrent PostgreSQL writers.
\* Requests may stop coming, so the system may stop.
CONSTANTS
  Dialect = "postgresql"
  Writers = {w1, w2, w3}
  NoWriter = NoWriter
  NoItem = NoItem
  Items = {a, b, c, d}
  Groups = {"manual", "playlist"}
  Group <- MixedGroup
  a = a
  b = b
  c = c
  d = d
SPECIFICATION Spec
CHECK_DEADLOCK FALSE
INVARIANTS TypeOK NextPositionFree ScanCurrent
PROPERTIES IsFifoQueue RequestsEnd
