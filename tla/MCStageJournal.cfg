SPECIFICATION Spec
CONSTANTS
  Stages = {s1, s2}
  Blocks = 2
  MaxRecords = 1
  MaxCrashes = 1
SYMMETRY Symmetry
INVARIANTS
  Journaled
  EndsClean
PROPERTIES
  RemovesOwn
CHECK_DEADLOCK FALSE
