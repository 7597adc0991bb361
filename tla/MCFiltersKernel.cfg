CONSTANTS
  Width = 3
  Height = 3
  Margin = 1
  Edges = {0}
  kBlockCapacity = 2
  Unset = Unset
  Values <- MCValues
  Heights = {1}
  KernelHeights = {1}
  MinRows = 3
  MaxIterations = 2
  Border = Border
  Garbage = Garbage
  FilterSizes = {3}
  ArbitraryChannels = {1}
  Cuts <- MCCuts
  One = 2
  Weights <- MCTied
  KernelTaps = {0, 1, 4, 255}
  ScharrWidths = {3, 4, 5, 9, 17, 18, 35}
  MedianCalls <- Refused
  Bins = 4
  patch_length = 28
  Residue = 3
SPECIFICATION MCSpec
INVARIANTS FlatAreaKept
CHECK_DEADLOCK FALSE
