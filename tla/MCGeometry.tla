----------------------------- MODULE MCGeometry -----------------------------
(***************************************************************************)
(* The operations that move pixels: flip, resize, transpose and rotate,    *)
(* padding, remap and warp.  A behaviour is about one of them, named by    *)
(* component; the others stay in an initial state of theirs.               *)
(***************************************************************************)
EXTENDS Flip, Padding

CONSTANTS
  FixedResizes, ResizeSizes, ResizeCuts,
  TurnOperations, TurnSizes, TurnCuts,
  SrcWidths, DstWidths, ResizeLengths,
  MapWidths, MapLanes, Images, FloatImages, Transforms,
  RowWidths, RowLanes

VARIABLES
  component,
  kernel, src_width, src_height, stripes, dst, writers,   \* Resize
  op, src_columns, src_rows, tasks, mem,                  \* Transpose
  call, result                                            \* KernelCall

resizeVars == <<kernel, src_width, src_height, stripes, dst, writers>>
turnVars == <<op, src_columns, src_rows, tasks, mem>>
callVars == <<call, result>>
allVars == <<component, vars, resizeVars, turnVars, paddingVars, callVars>>

R == INSTANCE Resize WITH Kernels <- FixedResizes, Sizes <- ResizeSizes,
                          Cuts <- ResizeCuts
T == INSTANCE Transpose WITH Operations <- TurnOperations, Sizes <- TurnSizes,
                             Cuts <- TurnCuts, width <- src_columns,
                             height <- src_rows
ResizeCall == INSTANCE ResizeCalls
RemapCall == INSTANCE RemapCalls
FlipCall == INSTANCE FlipRows
-----------------------------------------------------------------------------
MCResizeKernels ==
  LET K(f, t, b, n) == [factor |-> f, type |-> t, backend |-> b, lanes |-> n]
  IN  {K(f, "u8", "neon", 8) : f \in {2, 4}} \cup
      {K(f, "f32", "neon", 4) : f \in {2, 4, 8}} \cup
      {K(f, "u8", "sc", n) : f \in {2, 4}, n \in {4, 8}} \cup
      {K(f, "f32", "sc", n) : f \in {2, 4, 8}, n \in {4, 8}}
MCResizeSizes ==
  {<<1, 1>>, <<1, 3>>, <<2, 2>>, <<9, 2>>, <<10, 1>>, <<3, 4>>, <<17, 1>>}
\* An image in which two inner rows and both edges are enlarged.
MCTallSizes == {<<1, 1>>, <<3, 4>>}

\* The smallest image.
MCOnePixel == {<<1, 1>>}

MCTurnOperations ==
  LET Op(t, s, l, c, p) ==
        [turn |-> t, sme |-> s, lanes |-> l, channels |-> c, in_place |-> p]
  IN  {Op(t, s, l, c, FALSE) : t \in {"transpose", "cw", "ccw"}, s \in BOOLEAN,
                               l \in {2, 4}, c \in {1, 3}} \cup
      {Op("transpose", s, l, c, TRUE) : s \in BOOLEAN, l \in {2, 4}, c \in {1, 3}}
MCTurnSizes ==
  {<<w, h>> : w \in {1, 3, 4, 6, 7}, h \in {1, 3, 5, 6}} \cup
  {<<n, n>> : n \in {1, 2, 3, 4, 5, 6, 7, 9}}

MCPaddingCalls ==
  [border : {"constant", "replicate", "reflect", "wrap", "reverse"},
   src_width : {0, 1, 2, 5}, src_height : {0, 1, 3},
   top : {4}, bottom : {0, 7}, left : {0, 2, 5}, right : {0, 4}] \cup
  [border : {"reflect", "reverse"}, src_width : {11}, src_height : {1},
   top : {0}, bottom : {0}, left : {7, 10, 11}, right : {3, 5, 11}]
MCPaddingBackends == [lanes : {2}, sme : BOOLEAN]

MCImages ==
  LET Im(w, h, st, ch) ==
        [width |-> w, height |-> h, stride |-> st, channels |-> ch]
  IN  {Im(3, 2, 4, 1), Im(2, 3, 2, 1), Im(5, 4, 24, 4),
       Im(1, 3, 2, 1), Im(4, 1, 6, 1), Im(1, 1, 1, 1), Im(1, 1, 4, 4),
       Im(32768, 32768, 65535, 1), Im(2, 32768, 16383, 4)}
MCFloatImages ==
  LET Fl(w, h, st, ch, sz) == [width |-> w, height |-> h, stride |-> st,
                               channels |-> ch, size |-> sz]
  IN  {Fl(3, 2, 4, 1, 1), Fl(5, 50, 5, 1, 1), Fl(5, 52, 5, 1, 1),
       Fl(4, 13, 10, 2, 2), Fl(4, 12, 10, 2, 2), Fl(1, 1, 3, 2, 1),
       Fl(2, 9, 30, 1, 1), Fl(2, 43, 6, 1, 1)}
MCTransforms ==
  {<<a, b, c>> : a, b \in {-3, 0, 1, 2, 5}, c \in {-20, -7, -3, 1, 8, 30}}
-----------------------------------------------------------------------------
FlipIdle ==
  /\ width = 0 /\ height = 0 /\ flip_mode = "OTHER" /\ in_place = TRUE /\ same_stride = TRUE
  /\ Init
ResizeIdle ==
  /\ kernel = (CHOOSE x \in FixedResizes : TRUE)
  /\ src_width = 1 /\ src_height = 1
  /\ R!Init
TurnIdle ==
  /\ op = (CHOOSE x \in TurnOperations : ~x.in_place)
  /\ src_columns = 1 /\ src_rows = 1
  /\ T!Init
PaddingIdle ==
  /\ args = (CHOOSE x \in PaddingCalls : TRUE)
  /\ backend = (CHOOSE x \in PaddingBackends : TRUE)
  /\ PaddingInit
CallIdle == call = ResizeCall!NoCall /\ result = {}

MCInit ==
  \/ /\ component = "flip"
     /\ Init /\ ResizeIdle /\ TurnIdle /\ PaddingIdle /\ CallIdle
  \/ /\ component = "resize"
     /\ FlipIdle /\ R!Init /\ TurnIdle /\ PaddingIdle /\ CallIdle
  \/ /\ component = "turn"
     /\ FlipIdle /\ ResizeIdle /\ T!Init /\ PaddingIdle /\ CallIdle
  \/ /\ component = "padding"
     /\ FlipIdle /\ ResizeIdle /\ TurnIdle /\ PaddingInit /\ CallIdle
  \/ /\ component = "call"
     /\ FlipIdle /\ ResizeIdle /\ TurnIdle /\ PaddingIdle /\ CallIdle

FlipNext == /\ component = "flip" /\ Next
            /\ UNCHANGED <<component, resizeVars, turnVars, paddingVars, callVars>>
ResizeNext == /\ component = "resize" /\ R!Next
              /\ UNCHANGED <<component, vars, turnVars, paddingVars, callVars>>
TurnNext == /\ component = "turn" /\ T!Next
            /\ UNCHANGED <<component, vars, resizeVars, paddingVars, callVars>>
PadNext == /\ component = "padding" /\ PaddingNext
           /\ UNCHANGED <<component, vars, resizeVars, turnVars, callVars>>
CallNext ==
  /\ component = "call" /\ call = ResizeCall!NoCall
  /\ ResizeCall!ResizeKernels \/ RemapCall!RemapKernels \/ FlipCall!FlipKernels
  /\ UNCHANGED <<component, vars, resizeVars, turnVars, paddingVars>>

MCNext == FlipNext \/ ResizeNext \/ TurnNext \/ PadNext \/ CallNext
MCSpec == MCInit /\ [][MCNext]_allVars
-----------------------------------------------------------------------------
\* The properties of the components, under the names they have there.

\* Resize by a fixed factor: every row of the destination is the interpolation
\* of its source rows, stored by one stripe.
ResizedBilinear == R!ResizedBilinear /\ R!RowsHaveOneWriter
\* Resize: the padding of the destination's rows is left alone.
PaddingKept == R!PaddingKept
\* Transpose and rotate: every pixel is where the turn puts it.
Turns == T!Turns
\* Transpose and rotate: a pixel that has arrived is not moved again.
ArrivedStays == [][T!KeepsArrived]_turnVars
\* Generic resize and halving: each lane interpolates the pixels its place lies
\* between, from loads that stay in the row, within the interval of its pixels,
\* and each row lies between the rows it comes from; a block is averaged once.  The
\* exceptions, of the scalable kernel, are named in ResizeCalls: what is not
\* Addressable, LeftOutOfWindow and WindowBehindRow.
GenericInterpolates ==
  /\ ResizeCall!GenericInterpolates /\ ResizeCall!WindowsInRow
  /\ ResizeCall!ColumnInterpolates /\ ResizeCall!LerpStaysBetween
  /\ ResizeCall!QuarterAveragesBlocks
\* Remap and warp: every path picks the same pixel or the border, for integer
\* and float coordinates, and a weight of zero is never divided by.
PlacesRemapped ==
  /\ RemapCall!PlacesRemapped /\ RemapCall!FloatPlacesRemapped
  /\ RemapCall!ZeroWeightGuarded
\* Remap, fixed point: the four neighbours, inside the image, with their own
\* weights, rounded to nearest.  Only weightless neighbours, those of RemapCalls'
\* BehindSinglePixel, lie outside.
NeighboursWeighed ==
  /\ RemapCall!NeighboursWeighed /\ RemapCall!NeighboursInside
  /\ RemapCall!InterpolationRounds
\* Flip: rows are copied and exchanged in the right order.
RowsFlipped == FlipCall!RowsFlipped
=============================================================================
