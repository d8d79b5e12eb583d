SPECIFICATION Spec
CONSTANTS
  p1 = p1
  p2 = p2
  Path = {p1, p2}
  x = x
  y = y
  Body = {x, y}
  c1 = c1
  c2 = c2
  WsClient = {c1, c2}
  None = None
  MaxChunks = 2
  MaxFaults = 1
SYMMETRY Names
INVARIANTS TypeOK CacheOfItsFile SlotFollowsItsClient
PROPERTIES NothingLost
