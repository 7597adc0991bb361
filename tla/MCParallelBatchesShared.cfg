CONSTANTS
  Calls = {c1, c2}
  Workers = {w1}
  Counts = {1, 3}
  BatchSizes = {1, 2}
  Capacities <- MCSlots
  IntMax = 2
  MaxEmptyRanges = 1
  EmptyRangeAtEnd = FALSE
  OK = OK
  Errors = {ALLOCATION}
  NoDomain = NoDomain
  NoCall = NoCall
SPECIFICATION FairSpec
INVARIANT SlotsOfRunningBatches
PROPERTY CallsReturn
CHECK_DEADLOCK FALSE
