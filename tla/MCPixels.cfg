SPECIFICATION MCSpec
CONSTANTS
  Operations <- MCOperations
  Lengths = {0, 1, 2, 3, 4, 5, 6, 7, 8, 9, 10, 11, 12, 13}
  step = 4
  Scales <- MCScales
  Shifts <- MCShifts
  Widths = {1, 2, 3, 4, 14, 15, 16, 17, 18, 30, 31, 32, 33, 34, 47, 48, 49, 63, 64, 65, 66, 80}
  Heights = {1, 2, 3, 4, 5, 6, 7, 8, 9, 10, 11}
  VectorLengths = {16, 32, 64, 128, 256}
  num_lanes = 2
  ScalarMax = 3
  Pixels = {0, 1, 3}
  Shapes <- MCShapes
  Reductions = {"min_max", "min_max_loc"}
  Values = {0, 1, 2}
  ImageWidths = {0, 1, 2}
  ImageHeights = {0, 1, 2, 3}
  Padding = 1
  Lowest = 0
  Highest = 2
  Sources = {"valid", "null"}
  Unchanged = 99
INVARIANTS
  RowsProcessed ArithmeticExact LanesInOrder
  ColourOnEveryPath ChromaPaired
  FindsFirst SameAsSingleThreaded
CHECK_DEADLOCK FALSE
