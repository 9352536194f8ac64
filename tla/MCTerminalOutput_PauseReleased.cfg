SPECIFICATION Spec
CONSTANTS
  Clients = {c1}
  Negotiated = {c1}
  Recordings = {r1, r2}
  None = None
  Sizes <- SizesOf
  RingMax = 1
  HighWater = 2
  LowWater = 1
  PendingMax = 2
  MaxChunks = 3
INVARIANTS
  PauseReleased
CHECK_DEADLOCK FALSE
