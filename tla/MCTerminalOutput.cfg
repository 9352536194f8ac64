SPECIFICATION FairSpec
CONSTANTS
  Clients = {c1, c2}
  Negotiated = {c1}
  Recordings = {r1}
  None = None
  Sizes <- SizesOf
  RingMax = 1
  HighWater = 2
  LowWater = 1
  PendingMax = 2
  MaxChunks = 3
INVARIANTS
  Consistent
  PauseOwned
  CursorConsumed
PROPERTIES
  ViewSpec
  PauseEnds
CHECK_DEADLOCK FALSE
