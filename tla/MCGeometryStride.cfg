SPECIFICATION MCSpec
CONSTANTS
  Threads = {t1}
  t1 = t1
  Widths = {0}
  Heights = {0}
  num_lanes = 2
  Unset = Unset
  FixedResizes <- MCResizeKernels
  ResizeSizes <- MCTallSizes
  ResizeCuts = {1}
  TurnOperations <- MCTurnOperations
  TurnSizes <- MCOnePixel
  TurnCuts = {}
  PaddingCalls <- MCPaddingCalls
  PaddingBackends <- MCPaddingBackends
  MaxPixels = 120
  StripeCuts = {}
  SrcWidths = {}
  DstWidths = {}
  ResizeLengths = {}
  MapWidths = {}
  MapLanes = {}
  Images = {}
  FloatImages = {}
  Transforms = {}
  RowWidths = {}
  RowLanes = {}
INVARIANT
  PaddingKept
CHECK_DEADLOCK FALSE
