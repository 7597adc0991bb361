CONSTANTS
  Calls = {c1}
  Workers = {w1, w2}
  Counts = {0, 1, 3}
  BatchSizes = {2}
  Capacities <- MCOneSlot
  IntMax = 4
  MaxEmptyRanges = 1
  EmptyRangeAtEnd = TRUE
  OK = OK
  Errors = {ALLOCATION}
  NoDomain = NoDomain
  NoCall = NoCall
SPECIFICATION Spec
INVARIANT ItemsAtMostOnce
CHECK_DEADLOCK FALSE
