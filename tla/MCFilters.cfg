CONSTANTS
  Width = 3
  Height = 3
  Margin = 1
  Edges = {0, 1, 255}
  kBlockCapacity = 2
  Unset = Unset
  Values <- MCValues
  Heights = {0, 1, 2, 3, 4, 5, 6, 7, 11, 12, 13}
  KernelHeights = {1, 2, 3}
  MinRows = 3
  MaxIterations = 2
  Border = Border
  Garbage = Garbage
  FilterSizes = {3, 5, 7, 9, 15, 21}
  ArbitraryChannels = {1, 2, 4}
  Cuts <- MCCuts
  One = 5
  Weights <- MCWeights
  KernelTaps = {0, 1, 4, 255}
  ScharrWidths = {3, 4, 5, 9, 17, 18, 35}
  MedianCalls <- MCMedianCalls
  Bins = 4
  patch_length = 28
  Residue = 3
SPECIFICATION MCSpec
INVARIANTS
  EdgesFound RowsCorrect RowsFiltered WindowSumsExact MediansFound
PROPERTIES ImplementsLifo CallsEnd
CHECK_DEADLOCK FALSE
