\* Two poll loops of one room, and the owner's own tracks.
CONSTANTS
  Pollers = {p, q}
  Requests = {}
  Items = {a, b}
  Songs = {x, y, z}
  Foreign = {f}
  Song <- Distinct
  Group <- MixedGroup
  NoItem = NoItem
  NoTrack = NoTrack
  Keep = Keep
  MaxRequests = 1
  MaxSpotify = 1
  a = a
  b = b
  c = c
  x = x
  y = y
  z = z
SPECIFICATION Spec
PROPERTIES WaitingSongKept
