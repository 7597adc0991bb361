SPECIFICATION MCSpec
CONSTANTS
  Operations <- MCOperations
  Lengths = {0}
  step = 4
  Scales <- MCLargeScales
  Shifts <- MCShifts
  Widths = {2}
  Heights = {2}
  VectorLengths = {16}
  num_lanes = 2
  ScalarMax = 3
  Pixels = {0}
  Shapes <- MCShapes
  Reductions = {"min_max"}
  Values = {0}
  ImageWidths = {0}
  ImageHeights = {0}
  Padding = 1
  Lowest = 0
  Highest = 2
  Sources = {"valid"}
  Unchanged = 99
INVARIANTS
  ScaleSaturates
CHECK_DEADLOCK FALSE
