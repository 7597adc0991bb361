CONSTANTS
  Calls = {c1}
  Workers = {w1, w2}
  Counts = {0, 1, 2, 3, 5, 7}
  BatchSizes = {1, 2, 3}
  Capacities <- MCOneSlot
  IntMax = 4
  MaxEmptyRanges = 1
  EmptyRangeAtEnd = FALSE
  OK = OK
  Errors = {ALLOCATION, RANGE}
  NoDomain = NoDomain
  NoCall = NoCall
SPECIFICATION Spec
INVARIANTS ItemsAtMostOnce OkMeansComplete BatchesWellFormed ErrorsReported
CHECK_DEADLOCK FALSE
