SPECIFICATION ThreadedSpec
CONSTANTS
  Reductions = {"min_max_loc"}
  Values = {0, 1, 2}
  ImageWidths = {1, 2}
  ImageHeights = {0, 1, 2}
  Padding = 1
  Lowest = 0
  Highest = 2
  Sources = {"valid", "null"}
  Unchanged = 99
INVARIANTS
  NullSourceRefused
CHECK_DEADLOCK FALSE
