SPECIFICATION MCSpec
CONSTANTS
  Threads = {t1, t2}
  t1 = t1
  t2 = t2
  Widths = {0, 1, 2, 3, 5, 7}
  Heights = {0, 1, 2, 3, 4}
  num_lanes = 2
  Unset = Unset
  FixedResizes <- MCResizeKernels
  ResizeSizes <- MCResizeSizes
  ResizeCuts = {1, 2}
  TurnOperations <- MCTurnOperations
  TurnSizes <- MCTurnSizes
  TurnCuts = {2, 5}
  PaddingCalls <- MCPaddingCalls
  PaddingBackends <- MCPaddingBackends
  MaxPixels = 120
  StripeCuts = {1, 5, 6}
  SrcWidths = {3, 4, 6, 8, 11, 16, 17, 31, 40, 65}
  DstWidths = {2, 4, 6, 8, 9, 11, 15, 16, 17, 18, 22, 23, 33, 40, 48}
  ResizeLengths = {16, 32, 64, 128, 256}
  MapWidths = {8, 9, 17, 23}
  MapLanes = {8, 16}
  Images <- MCImages
  FloatImages <- MCFloatImages
  Transforms <- MCTransforms
  RowWidths = {0, 1, 2, 3, 4, 5, 6, 7, 8, 9, 10, 11, 12, 13, 15, 16, 17, 19, 20, 21}
  RowLanes = {2, 4}
INVARIANTS
  Flipped ItemsIndependent RowsFlipped
  ResizedBilinear GenericInterpolates
  Turns Padded
  PlacesRemapped NeighboursWeighed
PROPERTY ArrivedStays
CHECK_DEADLOCK FALSE
