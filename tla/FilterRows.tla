---------------------------- MODULE FilterRows ----------------------------
(***************************************************************************)
(* The two passes a separable filter makes over a row: the vertical pass   *)
(* from rows of the source to the buffer, and the horizontal pass from the *)
(* buffer to a row of the destination.  SeparableFilter (kleidicv/include/ *)
(* kleidicv/filters/separable_filter_*.h), GaussianBlurArbitrary and       *)
(* BlurAndDownsample (kleidicv/src/filters).                               *)
(*                                                                         *)
(* A pass is described by the elements it loads and by what it stores: a   *)
(* pair of an element of the destination and the elements of the buffer    *)
(* that went into it, one for each tap of the kernel.  What is computed    *)
(* from the taps is the matter of module FilterCalls.                      *)
(***************************************************************************)
EXTENDS Borders

\* The k-th tap of an element is the one at the k-th offset, for every load
\* the classes spell out.
TapsAt(element, offsets, channels) ==
  [k \in DOMAIN offsets |-> element + offsets[k] * channels]
-----------------------------------------------------------------------------
\* LoopUnroll2: where the vectors of a row begin and the first element left
\* to the tail or the remaining callback.
Loop(length, lanes, twice, once, avoid_tail) ==
  LET twice_end == IF twice THEN (length \div (2 * lanes)) * (2 * lanes) ELSE 0
      step_back == avoid_tail /\ length >= lanes
      once_end == IF ~once THEN twice_end
                  ELSE IF step_back THEN length
                  ELSE (length \div lanes) * lanes
  IN  [vectors |-> {i \in 0..once_end - lanes : i % lanes = 0} \cup
                   (IF once /\ step_back /\ length % lanes # 0
                      THEN {length - lanes} ELSE {}),
       rest |-> once_end]

Span(begins, lanes) == UNION {b..b + lanes - 1 : b \in begins}

\* The classes, by kernel size: the margin, the loops of process_vertical
\* and of process_horizontal and what follows them.
Class(m, vertical_twice, vertical_rest, horizontal_rest) ==
  [margin |-> m, vertical_twice |-> vertical_twice,
   vertical_rest |-> vertical_rest, horizontal_rest |-> horizontal_rest]

SeparableFilter_3x3_neon == Class(1, TRUE, "tail", "tail")
SeparableFilter_5x5_neon == Class(2, FALSE, "tail", "tail")
SeparableFilter_7x7_neon == Class(3, FALSE, "tail", "tail")
SeparableFilter_9x9_neon == Class(4, FALSE, "tail", "tail")
SeparableFilter_15x15_neon == Class(7, FALSE, "tail", "tail")
\* A row has 20 elements at least, and a vector of the source 16 at most.
SeparableFilter_21x21_neon == Class(10, FALSE, "none", "tail")

SeparableFilter_3x3_sc == Class(1, FALSE, "remaining", "remaining")
SeparableFilter_5x5_sc == Class(2, FALSE, "remaining", "remaining")
SeparableFilter_7x7_sc == Class(3, FALSE, "remaining", "remaining")
SeparableFilter_9x9_sc == Class(4, FALSE, "remaining", "remaining")
SeparableFilter_15x15_sc == Class(7, FALSE, "remaining", "remaining")
SeparableFilter_21x21_sc == Class(10, FALSE, "remaining", "remaining")

ClassOf(size, sc) ==
  CASE size = 3 -> IF sc THEN SeparableFilter_3x3_sc ELSE SeparableFilter_3x3_neon
    [] size = 5 -> IF sc THEN SeparableFilter_5x5_sc ELSE SeparableFilter_5x5_neon
    [] size = 7 -> IF sc THEN SeparableFilter_7x7_sc ELSE SeparableFilter_7x7_neon
    [] size = 9 -> IF sc THEN SeparableFilter_9x9_sc ELSE SeparableFilter_9x9_neon
    [] size = 15 ->
         IF sc THEN SeparableFilter_15x15_sc ELSE SeparableFilter_15x15_neon
    [] size = 21 ->
         IF sc THEN SeparableFilter_21x21_sc ELSE SeparableFilter_21x21_neon
-----------------------------------------------------------------------------
\* Filters that widen their source on SVE store the even and the odd half
\* of a vector with svst2, which the predicate of the source governs: one
\* element too many for an odd number of active elements.
Interleaved(from, length) == from..from + 2 * ((length - from + 1) \div 2) - 1

\* process_vertical of a class, for a row of length elements: the elements
\* loaded from each row and those stored to the buffer.
process_vertical(class, sc, widens, length, lanes) ==
  LET loop == Loop(length, lanes, class.vertical_twice, TRUE, ~sc)
      whole == Span(loop.vectors, lanes)
      rest == IF class.vertical_rest = "none" THEN {} ELSE loop.rest..length - 1
  IN  [loads |-> whole \cup rest,
       stores |-> whole \cup (IF sc /\ widens THEN Interleaved(loop.rest, length)
                              ELSE rest)]

\* process_vertical of BlurAndDownsample.
process_vertical_downsample(sc, length, lanes) ==
  LET loop == Loop(length, lanes, TRUE, TRUE, ~sc)
      whole == Span(loop.vectors, lanes)
      rest == loop.rest..length - 1
  IN  [loads |-> whole \cup rest,
       stores |-> whole \cup (IF sc THEN Interleaved(loop.rest, length) ELSE rest)]

\* process_arbitrary_vertical and process_arbitrary_border_vertical.
process_arbitrary_vertical(length, lanes) ==
  LET loop == Loop(length, lanes, FALSE, TRUE, TRUE)
      all == Span(loop.vectors, lanes) \cup (loop.rest..length - 1)
  IN  [loads |-> all, stores |-> all]
-----------------------------------------------------------------------------
\* process_horizontal_borders: the channels of a column, one by one.
BorderColumn(column, dst_column, offsets, channels) ==
  {<<dst_column * channels + c, TapsAt(column * channels + c, offsets, channels)>>
     : c \in 0..channels - 1}

\* process_horizontal of a class, on the columns that are in no margin.
Middle(class, sc, width, channels, lanes) ==
  LET m == class.margin
      length == (width - 2 * m) * channels
      loop == Loop(length, lanes, TRUE, TRUE, ~sc)
  IN  {<<m * channels + i,
         TapsAt(m * channels + i, offsets_without_border(m), channels)>>
         : i \in Span(loop.vectors, lanes) \cup (loop.rest..length - 1)}

\* SeparableFilterWorkspace::process_horizontal
process_horizontal(class, sc, border, width, channels, lanes) ==
  LET m == class.margin
  IN  UNION {BorderColumn(c, c, offsets_with_left_border(m, border, width, c),
                          channels) : c \in 0..m - 1}
      \cup Middle(class, sc, width, channels, lanes)
      \cup UNION {BorderColumn(c, c, offsets_with_right_border(m, border, width, c),
                               channels) : c \in width - m..width - 1}
-----------------------------------------------------------------------------
AlignUp2(n) == ((n + 1) \div 2) * 2

\* Of two vectors of results that begin at unit b of a loop, vuzp1 and svuzp1
\* keep every second pixel, which are group units wide: pairs of a unit of
\* the destination and the unit it comes from.
EverySecondPixel(b, lanes, group) ==
  {<<b \div 2 + (q \div (2 * group)) * group + (q % group), b + q>>
     : q \in {q \in 0..2 * lanes - 1 : (q \div group) % 2 = 0}}

\* What is left of a row, from the next even pixel on.
DownsampledRest_neon(paired, length, group) ==
  {<<((p * group) \div 2) + c, p * group + c>>
     : p \in {p \in AlignUp2(paired \div group)..length : p % 2 = 0 /\ p * group < length},
       c \in 0..group - 1}

\* Two vectors in which svwhilelt leaves what is left active.
DownsampledRest_sc(paired, length, lanes, group, width) ==
  {s \in EverySecondPixel(paired, lanes, group)
     : paired < length /\ s[1] < ((width + 1) \div 2) * group}

\* process_horizontal<Channels>, and process_horizontal_3channels, the loop of
\* which counts pixels where the others count elements.  An inactive lane
\* has loaded nothing.
DownsampledMiddle(sc, start, width, channels, lanes) ==
  LET unit == IF channels = 3 THEN 3 ELSE 1
      group == IF channels = 3 THEN 1 ELSE channels
      length == width * group
      paired == (length \div (2 * lanes)) * (2 * lanes)
      stored ==
        UNION {EverySecondPixel(b, lanes, group)
                 : b \in {b \in 0..paired - 1 : b % (2 * lanes) = 0}} \cup
        (IF sc THEN DownsampledRest_sc(paired, length, lanes, group, width)
               ELSE DownsampledRest_neon(paired, length, group))
  IN  {<<(start \div 2) * channels + s[1] * unit + c,
         IF s[2] >= length THEN << >>
         ELSE TapsAt(start * channels + s[2] * unit + c,
                     offsets_without_border(2), channels)>>
         : s \in stored, c \in 0..unit - 1}

\* for (index = align_up(width - margin, 2); index < width; index += 2)
RightColumns(width) == {c \in AlignUp2(width - 2)..width - 1 : c % 2 = 0}

\* BlurAndDownsampleFilterWorkspace::process_horizontal
process_horizontal_downsample(sc, border, width, channels, lanes) ==
  BorderColumn(0, 0, offsets_with_left_border(2, border, width, 0), channels)
  \cup DownsampledMiddle(sc, AlignUp2(2), width - 4, channels, lanes)
  \cup UNION {BorderColumn(c, c \div 2,
                           offsets_with_right_border(2, border, width, c), channels)
                : c \in RightColumns(width)}
-----------------------------------------------------------------------------
\* GaussianBlurArbitrary: the taps of eight elements from x on.  In the left
\* border the taps to the left are looked up as long as they start before
\* the row, in the right border those to the right as long as they end
\* after it.
LeftBlock(x, margin, channels) ==
  LET from(i) == x + (i - margin) * channels
      Tap(i, j) == IF i < margin /\ from(i) < 0
                     THEN load_left(channels, from(i))[j] ELSE from(i) + j
  IN  {<<x + j, [i \in 0..2 * margin |-> Tap(i, j)]>> : j \in Byte}

RightBlock(x, margin, width, channels) ==
  LET from(i) == x + (i - margin) * channels
      Tap(i, j) == IF i > margin /\ from(i) > width * channels - 8
                     THEN load_right(channels, width * channels, from(i))[j]
                     ELSE from(i) + j
  IN  {<<x + j, [i \in 0..2 * margin |-> Tap(i, j)]>> : j \in Byte}

\* horizontal_vector_path and horizontal_scalar_path, which cannot meet the
\* border although the latter looks its columns up.
PlainTaps(e, margin, channels) ==
  [i \in 0..2 * margin |-> e + (i - margin) * channels]
ScalarTaps(e, margin, width, channels) ==
  [i \in 0..2 * margin |->
     (get_column(width, e \div channels + i - margin) * channels)
       + (e % channels)]

\* Mutant: as many elements are left to the borders as the margin has.
BorderProcessLength_Exact(margin, channels) == channels * margin

\* border_process_len: whole blocks of eight elements.
BorderProcessLength(margin, channels) ==
  ((channels * margin + 7) \div 8) * 8

process_arbitrary_horizontal(margin, width, channels, lanes) ==
  LET border == BorderProcessLength(margin, channels)
      length == width * channels
      between == length - 2 * border
      loop == Loop(between, lanes, TRUE, TRUE, TRUE)
      Blocks(from, to) == {x \in from..to - 1 : (x - from) % 8 = 0}
  IN  UNION {LeftBlock(x, margin, channels) : x \in Blocks(0, border)}
      \cup (IF between <= 0 THEN {}
            ELSE {<<border + i, PlainTaps(border + i, margin, channels)>>
                    : i \in Span(loop.vectors, lanes)} \cup
                 {<<border + i, ScalarTaps(border + i, margin, width, channels)>>
                    : i \in loop.rest..between - 1})
      \cup UNION {RightBlock(x, margin, width, channels)
                    : x \in Blocks(length - border, length)}
-----------------------------------------------------------------------------
\* ScharrInterleaved: the elements loaded from each of three rows, those
\* stored to both buffers, the elements a buffer has, and the two results
\* per element with the taps they are computed from.
scharr_vertical_pass(sc, length, lanes) ==
  LET loop == Loop(length, lanes, TRUE, TRUE, FALSE)
      whole == Span(loop.vectors, lanes)
      rest == loop.rest..length - 1
  IN  [loads |-> whole \cup rest,
       stores |-> whole \cup (IF sc THEN Interleaved(loop.rest, length) ELSE rest)]

scharr_horizontal_pass(width, channels, lanes) ==
  LET length == (width - 2) * channels
      loop == Loop(length, lanes, TRUE, TRUE, FALSE)
      Places == Span(loop.vectors, lanes) \cup (loop.rest..length - 1)
  IN  {<<2 * i, {i, i + 2 * channels}>> : i \in Places} \cup
      {<<2 * i + 1, {i, i + channels, i + 2 * channels}>> : i \in Places}

\* kleidicv_scharr_interleaved_stripe_s16_u8; the buffer's lanes are half as many.
scharr_row(sc, width, channels, lanes) ==
  LET vertical == scharr_vertical_pass(sc, width * channels, lanes)
  IN  [loads |-> vertical.loads, stores |-> vertical.stores,
       allocated |-> width * channels + (IF sc THEN 3 ELSE 0),
       writes |-> scharr_horizontal_pass(width, channels, lanes \div 2)]
=============================================================================
