----------------------------- MODULE MCFilters -----------------------------
(***************************************************************************)
(* The operations that look at a neighbourhood: hysteresis of Canny, the   *)
(* workspace of dilate and erode, the separable filters, what the filters  *)
(* compute from a window, and median blur.  A behaviour is about one of    *)
(* them, named by component; the others stay in an initial state.          *)
(*                                                                         *)
(* Hysteresis has edge maps of 3x3 pixels and blocks of two elements, so   *)
(* that pushes and pops cross block boundaries.  Filters have images       *)
(* around the smallest their validation accepts and around whole vectors.  *)
(***************************************************************************)
EXTENDS Canny, MorphologyWorkspace, FiniteSets

CONSTANTS
  FilterSizes, ArbitraryChannels, Cuts,
  One, Weights, KernelTaps, ScharrWidths,
  MedianCalls, Bins, patch_length, Residue

VARIABLES
  component,
  args, cuts, status, begin, todo, row, buffer, rows, writes, count, stray,
  at,                                                      \* separable filters
  call, result,                                            \* KernelCall
  blur, blur_status, work, line, filled, plane, coarse, fine, H, luc, medians,
  kernel                                                   \* median blur

filterVars == <<args, cuts, status, begin, todo, row, buffer, rows, writes, count,
                stray, at>>
callVars == <<call, result>>
medianVars == <<blur, blur_status, work, line, filled, plane, coarse, fine, H, luc,
                medians, kernel>>
allVars == <<component, vars, morphologyVars, filterVars, callVars, medianVars>>

Border4 == {"REPLICATE", "REFLECT", "WRAP", "REVERSE"}
Neon == [sc |-> FALSE, vector |-> 16]
FilterBackends == {Neon} \cup [sc : {TRUE}, vector : {16, 32}]

FilterCall(op, size, bytes, binomial, flat, b, ch, w, h, border) ==
  [op |-> op, size |-> size, sc |-> b.sc, vector |-> b.vector, bytes |-> bytes,
   channels |-> ch, width |-> w, height |-> h, border |-> border,
   binomial |-> binomial, flat |-> flat]

\* Kernels that have tables of offsets, from images one column too narrow for
\* them on; images of one row, or one column more than two vectors, and the
\* sizes at which the generic border loads differ.
MCCalls ==
  UNION {{FilterCall("gaussian_blur", s, 1, s <= 9, FALSE, b, ch, w, s - 1, border)
            : b \in FilterBackends, ch \in {1, 3}, w \in {s - 2, s - 1, s + 7},
              border \in Border4 \cup {"CONSTANT"}}
           : s \in FilterSizes}
  \cup {FilterCall("blur_and_downsample", 5, 1, TRUE, FALSE, b, ch, w, h, border)
          : b \in FilterBackends, ch \in 1..4, w \in {3, 4, 5, 7, 21, 38},
            h \in {4, 5}, border \in Border4}
  \cup {FilterCall("separable_filter_2d", 5, by, TRUE, FALSE, b, ch, w, 4, border)
          : by \in {1, 2}, b \in FilterBackends, ch \in {1, 3}, w \in {4, 19},
            border \in Border4}
  \cup {FilterCall("sobel", 3, 1, TRUE, FALSE, b, ch, w, h, "REPLICATE")
          : b \in FilterBackends, ch \in {1, 3}, w \in {2, 3, 18, 35},
            h \in {1, 2, 3}}
  \cup UNION {{FilterCall("gaussian_blur", s, 1, FALSE, f, Neon, ch, w, s, "REPLICATE")
                 : f \in BOOLEAN, ch \in ArbitraryChannels \cup (IF s = 11 THEN {3} ELSE {}),
                   w \in {s + 1, s + 2, s + 5, s + 6}}
                : s \in {11, 13, 17}}

MedianCall(type, k, ch, w, h, border, stripe, sc, pattern) ==
  [type |-> type, ksize |-> k, width |-> w, height |-> h, channels |-> ch,
   border |-> border, in_place |-> FALSE, y_begin |-> stripe[1], y_end |-> stripe[2],
   sc |-> sc, lanes |-> 4, coarse_step |-> pattern[1], coarse_stride |-> pattern[2],
   slant |-> pattern[3], fine_step |-> pattern[4]]

\* Medians that change to and fro between coarse bins from column to column,
\* that wander, that stay away from a bin for longer than a window, and that
\* stay in one.
Alternating == <<1, 1, 0, 2>>
Slanted == <<3, 1, 1, 1>>
Blocks == <<17, 2, 0, 1>>
Even == <<100, 1, 0, 1>>

Refused ==
  {MedianCall("u8", 5, 1, 3, 4, "REFLECT", <<0, 4>>, FALSE, Even),
   MedianCall("u8", 5, 1, 4, 4, "CONSTANT", <<0, 4>>, FALSE, Even),
   MedianCall("u8", 4, 1, 4, 4, "REFLECT", <<0, 4>>, FALSE, Even),
   MedianCall("other", 9, 1, 8, 8, "REFLECT", <<0, 8>>, FALSE, Even),
   [MedianCall("u8", 3, 1, 4, 4, "REFLECT", <<0, 4>>, FALSE, Even)
      EXCEPT !.in_place = TRUE]}

\* Stripes with an odd row left over, stripes at either end of the image and
\* empty ones before, in and behind it; images as narrow as is accepted, and of
\* more than a vector or a patch.
MCMedianCalls ==
  Refused
  \cup UNION {{MedianCall(t, k, ch, w, k + 1, border, stripe, sc, Even)
                 : t \in {"u8", "other"}, ch \in {1, 3}, w \in {k - 1, k + 6},
                   border \in Border4, stripe \in {<<0, 2>>, <<1, k + 1>>},
                   sc \in BOOLEAN} : k \in {3, 5, 7}}
  \cup UNION {{MedianCall("u8", k, 1, k + 1, k + 1, border, <<y, y>>, FALSE, Even)
                 : y \in {0, 2, k + 1}, border \in {"REFLECT", "WRAP"}}
                : k \in {3, 5, 7, 9, 17}}
  \cup {MedianCall("u8", 9, ch, w, 9, border, stripe, FALSE, pattern)
          : ch \in {1, 2}, w \in {8, 13}, border \in Border4,
            stripe \in {<<0, 2>>, <<6, 9>>}, pattern \in {Alternating, Slanted}}
  \cup {MedianCall("u8", 15, 1, 18, 15, "WRAP", <<7, 10>>, FALSE, Even)}
  \cup {MedianCall("u8", 17, 1, w, 17, border, <<7, 10>>, FALSE, pattern)
          : w \in {16, 46}, border \in Border4, pattern \in {Alternating, Blocks}}
  \cup {MedianCall("u8", 17, 2, 19, 17, border, <<0, 2>>, FALSE, Slanted)
          : border \in Border4}

F == INSTANCE SeparableFilter WITH Calls <- MCCalls, pc <- at
K == INSTANCE FilterCalls
B == INSTANCE MedianBlur WITH pc <- kernel

ASSUME MedianAssumption == B!MedianConstants
-----------------------------------------------------------------------------
MCValues == Buffer

MCCuts == {{1, 2}, {3}}

\* Half kernels up to a size of 7: the weights grow towards the middle.
MCWeights ==
  {w \in UNION {[1..n -> {0, 1, 2, 3, 7, 101, 213, 320, 424}] : n \in 1..3} :
     LET Sum[i \in 0..Len(w)] == IF i = 0 THEN 0 ELSE Sum[i - 1] + w[i]
     IN  /\ \A i \in 2..Len(w) : w[i - 1] <= w[i]
         /\ w[Len(w)] <= 256 * One - 2 * Sum[Len(w)]}

\* Weights that end in halves, in units of a half.
MCTied == {<<127>>, <<126>>, <<1, 50>>}
-----------------------------------------------------------------------------
\* Edges grow from one strong pixel, or are strong altogether.
FewStrong ==
  LET strong == {p \in Coordinates : input[p] = 255}
  IN  \/ Cardinality(strong) = 1
      \/ \A p \in Coordinates : input[p] # 1

CannyIdle == input = [p \in Coordinates |-> 0] /\ Init
MorphologyIdle ==
  /\ height = 1 /\ kernel_height = 1 /\ top = 0 /\ border_type = "CONSTANT"
  /\ in_place = TRUE /\ iterations = 0
  /\ MorphologyInit
FilterIdle ==
  /\ args = FilterCall("sobel", 3, 1, TRUE, FALSE, Neon, 1, 2, 1, "REPLICATE")
  /\ cuts = {3}
  /\ F!Init
CallIdle == call = K!NoCall /\ result = K!NoCall
MedianIdle ==
  /\ blur = MedianCall("u8", 5, 1, 3, 4, "REFLECT", <<0, 4>>, FALSE, Even)
  /\ B!Init

MCInit ==
  \/ /\ component = "canny" /\ Init /\ FewStrong
     /\ MorphologyIdle /\ FilterIdle /\ CallIdle /\ MedianIdle
  \/ /\ component = "morphology" /\ MorphologyInit
     /\ CannyIdle /\ FilterIdle /\ CallIdle /\ MedianIdle
  \/ /\ component = "filter" /\ F!Init
     /\ CannyIdle /\ MorphologyIdle /\ CallIdle /\ MedianIdle
  \/ /\ component = "call"
     /\ CannyIdle /\ MorphologyIdle /\ FilterIdle /\ CallIdle /\ MedianIdle
  \/ /\ component = "median" /\ B!Init
     /\ CannyIdle /\ MorphologyIdle /\ FilterIdle /\ CallIdle

CannyNext == /\ component = "canny" /\ Next
             /\ UNCHANGED <<component, morphologyVars, filterVars, callVars, medianVars>>
DilateNext == /\ component = "morphology" /\ MorphologyNext
                  /\ UNCHANGED <<component, vars, filterVars, callVars, medianVars>>
FilterNext == /\ component = "filter" /\ F!Next
              /\ UNCHANGED <<component, vars, morphologyVars, callVars, medianVars>>
CallNext == /\ component = "call" /\ call = K!NoCall /\ K!FilterKernels
            /\ UNCHANGED <<component, vars, morphologyVars, filterVars, medianVars>>
NetworkNext == /\ component = "call" /\ call = K!NoCall /\ B!NetworkKernels
               /\ UNCHANGED <<component, vars, morphologyVars, filterVars, medianVars>>
MedianNext == /\ component = "median" /\ B!Next
              /\ UNCHANGED <<component, vars, morphologyVars, filterVars, callVars>>

MCNext == CannyNext \/ DilateNext \/ FilterNext \/ CallNext \/ NetworkNext
          \/ MedianNext

\* A call runs in the caller's thread until it returns.
MCSpec ==
  /\ MCInit /\ [][MCNext]_allVars
  /\ WF_allVars(CannyNext) /\ WF_allVars(DilateNext)
-----------------------------------------------------------------------------
\* Hysteresis and morphology: every call returns, although the stack grows while
\* it is worked off and two counters of rows end one loop.
CallsEnd ==
  /\ component = "canny" => HysteresisEnds
  /\ component = "morphology" => CallReturns
\* Separable filters: each element from the window around it, through the border.
FilteredThroughBorder == F!FilteredThroughBorder
\* Separable filters: each element from the window around it, through the border;
\* no element of the buffer is left over or unset, accesses stay in the row and
\* in the buffer, and however a call is cut each row is stored once.
RowsFiltered ==
  /\ F!FilterTypeOK /\ F!FilteredThroughBorder /\ F!TapsAreFresh
  /\ F!StaysInBuffers /\ F!StripesFilterEveryRow
\* Generated kernels: an area of one value keeps it.
FlatAreaKept == K!FlatAreaKept
\* Sums over a window: binomial sums are rounded once, generated kernels keep a
\* flat area and return the nearest value, convolutions saturate on every path,
\* derivatives are exact, and a row of Scharr is complete within its buffers.
WindowSumsExact ==
  /\ K!BinomialRoundsOnce /\ K!FlatAreaKept /\ K!GeneratedRounds
  /\ K!ConvolutionSaturates /\ K!DerivativesExact /\ K!ScharrRowComplete
\* Median blur: each element of a stripe is the median of the window around it,
\* through the border, whichever kernel finds it; histograms and sums left by
\* other columns, patches, channels and rows do not show.  Nothing else is
\* stored, but for the row that a histogram stores of an empty stripe, and the
\* pairs of rows of 3x3 windows in an empty stripe that ends with row 0.
MediansFound == B!MedianTypeOK /\ B!StripeHoldsMedians /\ B!NetworksFindMedian
=============================================================================
