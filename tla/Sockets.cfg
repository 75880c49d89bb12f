\* A member with two tabs.
\* Every connection may be over, so the system may stop.
CONSTANTS
  Users = {u}
  Sockets = {s1, s2}
  Owner <- TwoTabs
  NoSocket = NoSocket
  u = u
  v = v
  s1 = s1
  s2 = s2
  s3 = s3
SPECIFICATION Spec
CHECK_DEADLOCK FALSE
INVARIANTS TypeOK RegistryExact EvictedAreOut
PROPERTIES CutOffEnds
