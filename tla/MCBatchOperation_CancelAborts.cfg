SPECIFICATION FairSpec
CONSTANTS
  Keys = {k1}
  Targets = 3
  Steps = 3
  Continues = {1}
  Delays = {1}
  Concurrency = 2
  MaxActive = 1
  MaxOperations = 1
  MaxDeleted = 1
  MaxRestarts = 1
PROPERTIES
  CancelAborts
CHECK_DEADLOCK FALSE
