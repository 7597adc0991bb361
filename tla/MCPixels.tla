------------------------------ MODULE MCPixels ------------------------------
(***************************************************************************)
(* The operations on single pixels and the reductions to one.  A behaviour *)
(* is about one component: "row" for rows of every length up to three      *)
(* vectors and a bit, driven by each kind of loop, and, between rows,      *)
(* calls of the kernels with the values at which they saturate, round and  *)
(* wrap; "location" for min_max_loc, with vectors of two lanes, blocks of  *)
(* at most two vectors and shapes that give several blocks and a tail in   *)
(* one row, rows that each have a vector and a tail, and empty images; and *)
(* "threaded" for the threaded reductions.                                 *)
(***************************************************************************)
EXTENDS RowLoop, ArithmeticCalls, ConversionCalls, MinMaxLoc, ThreadedMinMax

VARIABLE component

allVars == <<component, vars, call, result, locationVars, threadedVars>>

\* The operation classes, by their traits.
MCOperations ==
  LET Op(loop, twice, once, avoid, sc, inplace) ==
        [loop |-> loop, twice |-> twice, once |-> once, avoid_tail |-> avoid,
         sc |-> sc, in_place |-> inplace]
  IN  {Op("LoopUnroll", TRUE, FALSE, FALSE, FALSE, TRUE),  \* SaturatingAdd
       Op("LoopUnroll", TRUE, TRUE, FALSE, FALSE, TRUE),   \* ScaleFloat
       Op("LoopUnroll", FALSE, TRUE, FALSE, FALSE, TRUE),  \* Exp
       Op("LoopUnroll", TRUE, FALSE, FALSE, TRUE, TRUE),   \* sc classes
       Op("LoopUnroll", FALSE, TRUE, FALSE, TRUE, TRUE),
       Op("LoopUnroll", FALSE, TRUE, TRUE, FALSE, FALSE),  \* RGBToYUVAll
       Op("LoopUnroll2", TRUE, TRUE, TRUE, FALSE, FALSE),  \* VerticalOp
       Op("LoopUnroll2", FALSE, TRUE, FALSE, TRUE, FALSE)} \* filters, sc

MCScales == {-3, 0, 1, 2, 3, 511}
\* The largest pixel exceeds 2^16.
MCLargeScales == {516}
MCShifts == {-65, 0, 1, 255, 511}

MCShapes ==
  LET Shape(w, h, s) == [width |-> w, height |-> h, stride |-> s]
  IN  {Shape(9, 1, 9), Shape(3, 3, 4), Shape(3, 2, 3), Shape(6, 1, 6),
       Shape(0, 2, 1), Shape(2, 0, 2)}
-----------------------------------------------------------------------------
RowIdle ==
  /\ operation = (CHOOSE o \in Operations : TRUE)
  /\ in_place = FALSE /\ length = 0
  /\ Init
LocationIdle ==
  /\ shape = [width |-> 0, height |-> 2, stride |-> 1]
  /\ LocationInit
ThreadedIdle ==
  /\ reduction = "min_max" /\ width = 0 /\ height = 0 /\ source = "valid"
  /\ wanted = {}
  /\ ThreadedInit

MCInit ==
  /\ call = NoCall /\ result = {}
  /\ \/ component = "row" /\ Init /\ LocationIdle /\ ThreadedIdle
     \/ component = "location" /\ RowIdle /\ LocationInit /\ ThreadedIdle
     \/ component = "threaded" /\ RowIdle /\ LocationIdle /\ ThreadedInit

RowNext ==
  /\ component = "row" /\ Next
  /\ UNCHANGED <<component, call, result, locationVars, threadedVars>>

\* The library is between two rows.
Between ==
  /\ component = "row" /\ pc = "done" /\ length = 0 /\ call = NoCall
  /\ operation.avoid_tail /\ operation.twice
  /\ UNCHANGED <<component, vars, locationVars, threadedVars>>

SearchNext ==
  /\ component = "location" /\ LocationNext
  /\ UNCHANGED <<component, vars, call, result, threadedVars>>
ReductionNext ==
  /\ component = "threaded" /\ ThreadedNext
  /\ UNCHANGED <<component, vars, call, result, locationVars>>

MCNext ==
  \/ RowNext \/ SearchNext \/ ReductionNext
  \/ Between /\ (ArithmeticKernels \/ ConversionKernels)
MCSpec == MCInit /\ [][MCNext]_allVars
-----------------------------------------------------------------------------
\* Arithmetic: vectors and the scalar rest saturate, select, scale and raise to
\* powers alike, at every value at which one of them could wrap or round.
ArithmeticExact ==
  SaturatesOnEveryPath /\ SelectsOnEveryPath /\ ScaleSaturates /\ ExpPowerExact
\* Lanes: whatever is narrowed, widened, interleaved or picked by tables comes
\* out in the order of the pixels, for every vector length SVE has, and with
\* nothing added, but for the high bytes of vectors of 128 bytes that
\* WidensSamples names.
LanesInOrder ==
  LanesKeepOrder /\ ChannelsInPlace /\ BlocksKeepOrder /\ WidensSamples
\* Subsampled chroma: every row and pair of pixels uses its own chroma, which is
\* stored once, however rows are cut into stripes and planes are laid out, odd
\* widths and heights included.  The exceptions are exactly those of ChromaMissed
\* (semi-planar rows of odd width) and PlanesSequential (heights of 3 modulo 4).
ChromaPaired ==
  /\ RowUsesItsChroma /\ PairsLoadedAndStored /\ ChromaStoredOnce
  /\ StripesShareChromaRows /\ PlanesSequential /\ StripesCoverRows
=============================================================================
