SPECIFICATION FairSpec
CONSTANTS
  Runs = {r1, r2}
  Terminals = {t1}
  None = None
  Capacity = 2
  MaxSteps = 2
  MaxRestarts = 1
INVARIANTS
  RowsAgree
  ConsentedOnce
PROPERTIES
  OverIsOver
  ReservationEnds
CHECK_DEADLOCK FALSE
