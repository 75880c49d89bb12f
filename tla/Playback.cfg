\* One poll loop and one request of the host, with fairness.
CONSTANTS
  Pollers = {p}
  Requests = {h}
  Items = {a, b}
  Songs = {x, y, z}
  Foreign = {f}
  Song <- Distinct
  Group <- ManualGroup
  NoItem = NoItem
  NoTrack = NoTrack
  Keep = Keep
  MaxRequests = 1
  MaxSpotify = 1
  a = a
  b = b
  c = c
  x = x
  y = y
  z = z
SPECIFICATION Spec
INVARIANTS TypeOK HeardOnly
PROPERTIES WaitingSongKept IsFifoQueue Settles QueueKeepsPlaying
