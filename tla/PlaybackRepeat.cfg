\* A song that is queued twice.
CONSTANTS
  Pollers = {p}
  Requests = {}
  Items = {a, b}
  Songs = {x, y, z}
  Foreign = {f}
  Song <- Repeated
  Group <- ManualGroup
  NoItem = NoItem
  NoTrack = NoTrack
  Keep = Keep
  MaxRequests = 0
  MaxSpotify = 2
  a = a
  b = b
  c = c
  x = x
  y = y
  z = z
SPECIFICATION Spec
PROPERTIES WaitingSongKept
