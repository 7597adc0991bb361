----------------------------- MODULE MedianBlur -----------------------------
(***************************************************************************)
(* Median blur: a call is validated and sent to one of three kernels by    *)
(* its size (kleidicv/src/filters/median_blur_api.cpp), and the kernel is  *)
(* run on a stripe of rows.                                                *)
(*                                                                         *)
(* Windows of 3x3, 5x5 and 7x7 are loaded as a whole (filter_2d_*.h,       *)
(* process_filter_2d.h) and go through sorting networks; a stripe stores   *)
(* such a window as the places it was loaded from, and the networks are    *)
(* called on their own, at the end of this module.  Larger windows are     *)
(* kept as histograms of the values, a coarse one of the upper half of the *)
(* bits and a fine one of all of them.                                     *)
(* Up to 15x15 (MedianBlurSmallHist) there is one histogram, or one per    *)
(* vector lane, that slides down a column.  For larger ones                *)
(* (MedianBlurLargeHist) there is one per column of a patch; they slide    *)
(* down together, and a row of medians is found from their running sum, in *)
(* which the fine part of a coarse bin is brought up to date only when the *)
(* median falls into it.                                                   *)
(***************************************************************************)
EXTENDS FilterRows, KernelCall, Sequences
LOCAL INSTANCE FiniteSetsExt
LOCAL INSTANCE TLC

CONSTANTS
  MedianCalls,    \* the calls: see MedianCallType
  Bins,           \* of the coarse histogram and of each fine one: 16
  patch_length,   \* 512
  Residue         \* a count left in memory that was not cleared

MedianConstants == {Bins, patch_length} \subseteq Nat \ {0}

\* The value at row r and column x is put together from a coarse bin, which
\* changes every coarse_step columns, and a place in it.
MedianCallType ==
  [type : {"u8", "other"}, ksize : Nat, width : Nat, height : Nat,
   channels : Nat, border : BorderTypes \cup {"CONSTANT"}, in_place : BOOLEAN,
   y_begin : Nat, y_end : Nat, sc : BOOLEAN, lanes : Nat,
   coarse_step : Nat, coarse_stride : Nat, slant : Nat, fine_step : Nat]

VARIABLES
  blur,          \* the call
  blur_status,
  work,          \* columns, vectors or patches to come
  line,          \* the row to come
  filled,        \* rows the histograms have been started with
  plane,         \* the channel to come
  coarse, fine,  \* the histograms, flat as in the code
  H, luc,        \* the running sum of a row, and up to where it was taken
  medians,       \* what was stored for each element of the destination
  pc

medianVars ==
  <<blur, blur_status, work, line, filled, plane, coarse, fine, H, luc, medians,
    pc>>

Unstored == "unstored"
kMargin == blur.ksize \div 2
Ksize == 0..blur.ksize - 1
Places == (0..blur.height - 1) \X (0..blur.width * blur.channels - 1)

Pixel(r, e) ==
  LET x == e \div blur.channels
      block == (x + blur.slant * r) \div blur.coarse_step
      bin == (blur.coarse_stride * block) % Bins
  IN  Bins * bin + ((r + blur.fine_step * x + (e % blur.channels)) % Bins)
-----------------------------------------------------------------------------
is_kernel_size_supported(type, kernel_width) ==
  /\ kernel_width >= 3 /\ kernel_width % 2 # 0
  /\ kernel_width <= (IF type = "u8" THEN 255 ELSE 7)

\* Only the size of the image and what follows it are looked at here; the
\* checks of pointers and strides are left out.
median_blur_validate ==
  /\ ~blur.in_place
  /\ blur.channels <= 4
  /\ blur.height >= blur.ksize - 1
  /\ blur.width >= blur.ksize - 1
  /\ is_kernel_size_supported(blur.type, blur.ksize)
  /\ HasFixedBorder(blur.border)

\* median_blur_u8, median_blur and kleidicv_thread_median_blur_u8
KernelFor ==
  CASE blur.ksize <= 7 -> "network"
    [] blur.ksize > 7 /\ blur.ksize <= 15 -> "small"
    [] OTHER -> "large"

Init ==
  /\ blur \in MedianCalls
  /\ blur_status = "OK"
  /\ work = << >> /\ line = 0 /\ filled = 0 /\ plane = 0
  /\ coarse = << >> /\ fine = << >> /\ H = << >> /\ luc = << >>
  /\ medians = [p \in Places |-> Unstored]
  /\ pc = "call"

Store(values) == medians' = values @@ medians
-----------------------------------------------------------------------------
\* Filter2d: the elements of a row and the offsets of the columns each one
\* taps, one by one in the margins, in bulk between them.
Row2d ==
  LET Column(x, offsets) ==
        {<<x * blur.channels + c, offsets>> : c \in 0..blur.channels - 1}
      length == (blur.width - 2 * kMargin) * blur.channels
      loop == Loop(length, blur.lanes, FALSE, TRUE, ~blur.sc)
  IN  UNION {Column(x, offsets_with_left_border(kMargin, blur.border, blur.width, x))
               : x \in 0..kMargin - 1}
      \cup {<<kMargin * blur.channels + i, offsets_without_border(kMargin)>>
              : i \in Span(loop.vectors, blur.lanes) \cup (loop.rest..length - 1)}
      \cup UNION {Column(x, offsets_with_right_border(kMargin, blur.border,
                                                      blur.width, x))
                    : x \in blur.width - kMargin..blur.width - 1}

RowOffsets(y) == offsets_with_border(kMargin, blur.border, blur.height, y)

\* load_window around row y, with these offsets of its rows.
load_window(y, row_offsets, column_offsets, e) ==
  [i, j \in Ksize |-> <<y + row_offsets[i], e + column_offsets[j] * blur.channels>>]

\* process_filter2d: row y.
OneRow(y) ==
  [p \in {<<y, s[1]>> : s \in Row2d} |->
     LET s == CHOOSE s \in Row2d : s[1] = p[2]
     IN  load_window(y, RowOffsets(y), s[2], s[1])]

\* load_window_to_handle_dual_rows: the windows of two rows share all but
\* their first and last row.
DualRowOffsets(y) ==
  [i \in 0..3 |-> IF i < 3 THEN RowOffsets(y)[i] ELSE RowOffsets(y + 1)[2] + 1]

TwoRows(y) ==
  [p \in {y, y + 1} \X {s[1] : s \in Row2d} |->
     LET s == CHOOSE s \in Row2d : s[1] = p[2]
         from == p[1] - y
     IN  load_window(y, [i \in 0..2 |-> DualRowOffsets(y)[from + i]], s[2], s[1])]

\* process_filter2d_by_dual_rows goes on by pairs of rows while this holds.  The
\* bound y_end - 1 is unsigned: for the empty stripe before row 0 it is the
\* largest number there is.
PairLeft ==
  /\ pc = "network" /\ blur.ksize = 3
  /\ blur.y_end = 0 \/ line < blur.y_end - 1

TwoNetworkRows ==
  /\ PairLeft /\ line + 1 < blur.height
  /\ Store(TwoRows(line)) /\ line' = line + 2
  /\ UNCHANGED <<blur, blur_status, work, filled, plane, coarse, fine, H, luc, pc>>

\* A pair that is not in the image is stored behind it; nothing is said of what
\* the program does from then on.
LeaveImage ==
  /\ PairLeft /\ line + 1 >= blur.height
  /\ pc' = "outside"
  /\ UNCHANGED <<blur, blur_status, work, line, filled, plane, coarse, fine, H, luc,
                 medians>>

\* process_filter2d, for the other kernels and for what the pairs leave.
NetworkRow ==
  /\ pc = "network" /\ ~PairLeft
  /\ line < blur.y_end
  /\ Store(OneRow(line)) /\ line' = line + 1
  /\ UNCHANGED <<blur, blur_status, work, filled, plane, coarse, fine, H, luc, pc>>
-----------------------------------------------------------------------------
Physical_row(i) == get_physical_index(i, blur.height, blur.border)
Physical_column(i) == get_physical_index(i, blur.width, blur.border)

\* The histogram after counts at some places, in a sequence, went up or down
\* by one each.
Counted(counts, places, by, modulus) ==
  LET After[k \in 0..Len(places)] ==
        IF k = 0 THEN counts
        ELSE [After[k - 1] EXCEPT ![places[k]] = (@ + by) % modulus]
  IN  After[Len(places)]

\* One place in, one place out.
Moved(counts, in, out, modulus) ==
  Counted(Counted(counts, in, 1, modulus), out, -1, modulus)

Cleared(counts, n) == [i \in DOMAIN counts |-> IF i < n THEN 0 ELSE counts[i]]

\* The sums of counts from a place on, and the first place at which they
\* exceed the target, which is one past the last if they never do.
Sums(counts, from, to, sum, modulus) ==
  LET Sum[i \in from - 1..to] ==
        IF i < from THEN sum ELSE (Sum[i - 1] + counts[i]) % modulus
  IN  Sum
FirstAbove(sums, from, to, target) ==
  Min({i \in from..to : sums[i] > target} \cup {to + 1})
-----------------------------------------------------------------------------
\* MedianBlurSmallHist.  The median element of a window in ascending order.
target_cdf == (blur.ksize * blur.ksize) \div 2

\* A column of one channel, or a vector of elements.
Columns(from, to) ==
  [i \in 1..(to - from) * blur.channels |->
     [vector |-> FALSE, element |-> from * blur.channels + i - 1]]
Vectors(from, to) ==
  [i \in 1..(to - from) \div blur.lanes |->
     [vector |-> TRUE, element |-> from + (i - 1) * blur.lanes]]

\* median_blur_small_hist_stripe_u8: the left border, whole vectors, the rest.
SmallWork ==
  LET center == ((blur.width - 2 * kMargin) \div blur.lanes) * blur.lanes
  IN  Columns(0, kMargin)
      \o Vectors(kMargin * blur.channels, (center + kMargin) * blur.channels)
      \o Columns(kMargin + center, blur.width)

\* The value a lane sees in column c of the window, in row r.
LanePixel(item, r, c, i) ==
  LET x == item.element \div blur.channels
      ch == item.element % blur.channels
  IN  Pixel(r, IF item.vector
                 THEN item.element + (c - kMargin) * blur.channels + i
                 ELSE Physical_column(x + c - kMargin) * blur.channels + ch)

\* Where a value is counted: the histograms of the lanes are interleaved, that
\* of a single column takes the first part of the same memory.
FinePlace(item, pixel, i) == IF item.vector THEN pixel * blur.lanes + i ELSE pixel
CoarsePlace(item, pixel, i) == FinePlace(item, pixel \div Bins, i)

\* scalar_clear_histogram, vector_clear_histogram
clear_histogram(item) ==
  IF item.vector
    THEN <<Cleared(coarse, Bins * blur.lanes), Cleared(fine, Bins * Bins * blur.lanes)>>
    ELSE <<Cleared(coarse, Bins), Cleared(fine, Bins * Bins)>>

\* The places of the values of the window in row r, lane by lane.
FinePlaces(item, r) ==
  LET lanes == IF item.vector THEN blur.lanes ELSE 1
  IN  [k \in 1..blur.ksize * lanes |->
         LET i == (k - 1) % lanes
         IN  FinePlace(item, LanePixel(item, r, (k - 1) \div lanes, i), i)]
CoarsePlaces(item, r) ==
  LET lanes == IF item.vector THEN blur.lanes ELSE 1
  IN  [k \in 1..blur.ksize * lanes |->
         LET i == (k - 1) % lanes
         IN  CoarsePlace(item, LanePixel(item, r, (k - 1) \div lanes, i), i)]

\* scalar_initialize_histogram, vector_initialize_histogram
initialize_histogram(item, counts, r) ==
  <<Counted(counts[1], CoarsePlaces(item, r), 1, 256),
    Counted(counts[2], FinePlaces(item, r), 1, 256)>>

\* vector_update_histogram, and scalar_update_histogram, which leaves out
\* values that come and go alike.
update_histogram(item, new, old) ==
  <<Moved(coarse, CoarsePlaces(item, new), CoarsePlaces(item, old), 256),
    Moved(fine, FinePlaces(item, new), FinePlaces(item, old), 256)>>

scalar_find_median(coarse_counts, fine_counts) ==
  LET sums == Sums(coarse_counts, 0, Bins - 1, 0, 256)
      coarse_index ==
        Min({i \in 0..Bins - 1 : sums[i - 1] + coarse_counts[i] > target_cdf}
            \cup {Bins})
      fine_index == coarse_index * Bins
  IN  FirstAbove(Sums(fine_counts, fine_index, Bins * Bins - 1,
                      sums[coarse_index - 1], 256),
                 fine_index, Bins * Bins - 1, target_cdf)

\* The lanes are searched together: from the first coarse bin in which any of
\* them finds its median, until each has found it.
vector_find_median(coarse_counts, fine_counts) ==
  LET Lane(counts, n, i) == [b \in 0..n - 1 |-> counts[b * blur.lanes + i]]
      sums == [i \in 0..blur.lanes - 1 |->
                 Sums(Lane(coarse_counts, Bins, i), 0, Bins - 1, 0, 256)]
      coarse_index ==
        Min({FirstAbove(sums[i], 0, Bins - 1, target_cdf) : i \in DOMAIN sums})
      fine_index == coarse_index * Bins
  IN  [i \in 0..blur.lanes - 1 |->
         FirstAbove(Sums(Lane(fine_counts, Bins * Bins, i), fine_index,
                         Bins * Bins - 1, sums[i][coarse_index - 1], 256),
                    fine_index, Bins * Bins - 1, target_cdf)]

\* process_pixels_with_horizontal_borders and _without_horizontal_borders, for
\* the column or vector at the head of work: the rows of its first window,
\* and the median of one row after the other.
SmallFill ==
  LET item == Head(work)
      counts == initialize_histogram(
                  item, IF filled = 0 THEN clear_histogram(item) ELSE <<coarse, fine>>,
                  Physical_row(blur.y_begin + filled - kMargin))
  IN  /\ pc = "small"
      /\ work # << >> /\ filled < blur.ksize
      /\ coarse' = counts[1] /\ fine' = counts[2]
      /\ filled' = filled + 1
      /\ UNCHANGED <<blur, blur_status, work, line, plane, H, luc, medians, pc>>

SmallRow ==
  LET item == Head(work)
      counts == IF line = blur.y_begin THEN <<coarse, fine>>
                ELSE update_histogram(item, Physical_row(line + kMargin),
                                      Physical_row(line - kMargin - 1))
      found == IF item.vector THEN vector_find_median(counts[1], counts[2])
               ELSE [i \in {0} |-> scalar_find_median(counts[1], counts[2])]
  IN  /\ pc = "small"
      /\ work # << >> /\ filled = blur.ksize
      /\ coarse' = counts[1] /\ fine' = counts[2]
      /\ Store([p \in {<<line, item.element + i>> : i \in DOMAIN found} |->
                  found[p[2] - item.element]])
      /\ IF line + 1 < blur.y_end THEN line' = line + 1 /\ UNCHANGED <<filled, work>>
         ELSE line' = blur.y_begin /\ filled' = 0 /\ work' = Tail(work)
      /\ UNCHANGED <<blur, blur_status, plane, H, luc, pc>>
-----------------------------------------------------------------------------
\* MedianBlurLargeHist.  Columns are worked off in patches; a patch has a
\* histogram for each of its columns and for the margins on both sides.
Patches(from, to, borders) ==
  [i \in 1..(to - from + patch_length - 1) \div patch_length |->
     LET w == from + (i - 1) * patch_length
     IN  [w |-> w, span |-> Lesser(to - w, patch_length) + 2 * kMargin,
          borders |-> borders]]

\* median_process: the left border, what is between, the right border.
LargeWork ==
  Patches(0, kMargin, TRUE)
  \o Patches(kMargin, blur.width - kMargin, FALSE)
  \o Patches(blur.width - kMargin, blur.width, TRUE)

\* Flat as coarse[channel][column][bin], and fine[channel][bin][column][bin].
\* The scalar and the vector code add the same terms in another order.
coarse_offset(span, c, patch_offset, pixel) ==
  Bins * (span * c + patch_offset) + (pixel \div Bins)
fine_offset(span, c, patch_offset, pixel) ==
  Bins * (span * (Bins * c + (pixel \div Bins)) + patch_offset) + (pixel % Bins)

\* Only what the patch will use.
clear_patched_histogram(total) ==
  <<Cleared(coarse, Bins * total), Cleared(fine, Bins * Bins * total)>>

\* The value in row r of the column at patch_offset.
PatchPixel(patch, c, r, patch_offset) ==
  LET x == patch.w + patch_offset - kMargin
  IN  Pixel(r, (IF patch.borders THEN Physical_column(x) ELSE x) * blur.channels + c)

\* The offsets of the values of the patch in row r.
CoarseOffsets(patch, c, r) ==
  [k \in 1..patch.span |->
     coarse_offset(patch.span, c, k - 1, PatchPixel(patch, c, r, k - 1))]
FineOffsets(patch, c, r) ==
  [k \in 1..patch.span |->
     fine_offset(patch.span, c, k - 1, PatchPixel(patch, c, r, k - 1))]

initialize_patched_histogram(patch, c, r) ==
  <<Counted(coarse, CoarseOffsets(patch, c, r), 1, 2^16),
    Counted(fine, FineOffsets(patch, c, r), 1, 2^16)>>

update_patch_histogram(patch, c, new, old) ==
  <<Moved(coarse, CoarseOffsets(patch, c, new), CoarseOffsets(patch, c, old), 2^16),
    Moved(fine, FineOffsets(patch, c, new), FineOffsets(patch, c, old), 2^16)>>
-----------------------------------------------------------------------------
Bin == 0..Bins - 1

Zeroes == [b \in Bin |-> 0]
NoneSummed == [coarse |-> Zeroes, fine |-> [b \in Bin |-> Zeroes]]

\* Mutant: the sums are cleared but not up to where they were taken.
clear_lookup_table_KeepLuc == [H |-> NoneSummed, luc |-> luc]

clear_lookup_table == [H |-> NoneSummed, luc |-> Zeroes]

\* The coarse histogram of a column, and the fine one of a column and bin.
CoarseOf(counts, span, c, o) == [b \in Bin |-> counts[Bins * (span * c + o) + b]]
FineOf(counts, span, c, b, o) ==
  [f \in Bin |-> counts[Bins * (span * (Bins * c + b) + o) + f]]

Plus(v, w) == [b \in Bin |-> (v[b] + w[b]) % 2^16]
Minus(v, w) == [b \in Bin |-> (v[b] - w[b]) % 2^16]

\* The sum of the columns of a window, all anew.
initialize_fine(counts, span, c, b, patch_offset) ==
  LET end == Lesser(patch_offset + kMargin + 1, span)
      Sum[l \in patch_offset - kMargin..end] ==
        IF l = patch_offset - kMargin THEN Zeroes
        ELSE Plus(Sum[l - 1], FineOf(counts, span, c, b, l - 1))
  IN  [fine |-> Sum[end], luc |-> end]

\* The sum that ends at luc moved on, column by column.
update_fine(counts, span, c, b, patch_offset, old) ==
  LET end == Larger(old.luc, patch_offset + kMargin + 1)
      Sum[l \in old.luc..end] ==
        IF l = old.luc THEN old.fine
        ELSE Minus(Plus(Sum[l - 1],
                        FineOf(counts, span, c, b, Lesser(l - 1, span - 1))),
                   FineOf(counts, span, c, b,
                          Larger(l - 1 - (2 * kMargin + 1), 0)))
  IN  [fine |-> Sum[end], luc |-> end]

\* One column of compute_patch_median_from_histogram, after the ones before:
\* H and luc, the coarse sum kept in registers and the medians found.
NextMedian(counts, span, c, patch_offset, before) ==
  LET entering == Lesser(patch_offset + kMargin, span - 1)
      added == Plus(before.running, CoarseOf(counts[1], span, c, entering))
      sums == Sums(added, 0, Bins - 1, 0, 2^30)
      coarse_index == FirstAbove(sums, 0, Bins - 1, target_cdf)
      b == Lesser(coarse_index, Bins - 1)
      segment ==
        IF before.luc[b] <= patch_offset - kMargin
          THEN initialize_fine(counts[2], span, c, b, patch_offset)
          ELSE update_fine(counts[2], span, c, b, patch_offset,
                           [fine |-> before.H.fine[b], luc |-> before.luc[b]])
      fine_index == FirstAbove(Sums(segment.fine, 0, Bins - 1,
                                    sums[coarse_index - 1], 2^30),
                               0, Bins - 1, target_cdf)
  IN  [H |-> [coarse |-> added,
              fine |-> [before.H.fine EXCEPT ![b] = segment.fine]],
       luc |-> [before.luc EXCEPT ![b] = segment.luc],
       running |-> Minus(added, CoarseOf(counts[1], span, c, patch_offset - kMargin)),
       medians |-> Append(before.medians, Bins * coarse_index + fine_index)]

\* The medians of a row of the patch.
compute_patch_median_from_histogram(counts, span, c) ==
  LET table == clear_lookup_table
      Initial[o \in 0..2 * kMargin] ==
        IF o = 0 THEN table.H.coarse
        ELSE Plus(Initial[o - 1], CoarseOf(counts[1], span, c, o - 1))
      After[o \in kMargin - 1..span - kMargin - 1] ==
        IF o = kMargin - 1
          THEN [H |-> table.H, luc |-> table.luc, running |-> Initial[2 * kMargin],
                medians |-> << >>]
          ELSE NextMedian(counts, span, c, o, After[o - 1])
  IN  After[span - kMargin - 1]
-----------------------------------------------------------------------------
LargePatch ==
  LET cleared == clear_patched_histogram(Head(work).span * blur.channels)
  IN  /\ pc = "patch"
      /\ work # << >>
      /\ coarse' = cleared[1] /\ fine' = cleared[2]
      /\ line' = blur.y_begin /\ plane' = 0 /\ filled' = 0
      /\ pc' = "large"
      /\ UNCHANGED <<blur, blur_status, work, H, luc, medians>>

\* process_pixels_with_horizontal_borders and _without_horizontal_borders, for
\* one channel of the patch at the head of work: the rows of its first window,
\* and the medians of one row.
LargeFill ==
  LET counts == initialize_patched_histogram(
                  Head(work), plane, Physical_row(blur.y_begin + filled - kMargin))
  IN  /\ pc = "large"
      /\ filled < blur.ksize
      /\ coarse' = counts[1] /\ fine' = counts[2]
      /\ filled' = filled + 1
      /\ UNCHANGED <<blur, blur_status, work, line, plane, H, luc, medians, pc>>

LargeRow ==
  LET patch == Head(work)
      counts == IF line = blur.y_begin THEN <<coarse, fine>>
                ELSE update_patch_histogram(patch, plane, Physical_row(line + kMargin),
                                            Physical_row(line - kMargin - 1))
      found == compute_patch_median_from_histogram(counts, patch.span, plane)
  IN  /\ pc = "large"
      /\ filled = blur.ksize
      /\ coarse' = counts[1] /\ fine' = counts[2]
      /\ H' = found.H /\ luc' = found.luc
      /\ Store([p \in {<<line, (patch.w + i - 1) * blur.channels + plane>>
                         : i \in DOMAIN found.medians} |->
                  found.medians[(p[2] \div blur.channels) - patch.w + 1]])
      /\ IF plane + 1 < blur.channels
           THEN /\ plane' = plane + 1
                /\ filled' = IF line = blur.y_begin THEN 0 ELSE filled
                /\ UNCHANGED <<line, work, pc>>
         ELSE IF line + 1 < blur.y_end
           THEN plane' = 0 /\ line' = line + 1 /\ UNCHANGED <<filled, work, pc>>
         ELSE /\ plane' = 0 /\ work' = Tail(work) /\ pc' = "patch"
              /\ UNCHANGED <<line, filled>>
      /\ UNCHANGED <<blur, blur_status>>
-----------------------------------------------------------------------------
\* The kernels have their memory on the stack, or allocate it for the call.
Begin ==
  LET columns == patch_length + 2 * kMargin
      Memory(n, count) == [i \in 0..n - 1 |-> count]
  IN  /\ pc = "call" /\ median_blur_validate
      /\ line' = blur.y_begin
      /\ CASE KernelFor = "network" ->
                pc' = "network" /\ UNCHANGED <<work, coarse, fine, H, luc>>
           [] KernelFor = "small" ->
                /\ pc' = "small" /\ work' = SmallWork
                /\ coarse' = Memory(Bins * blur.lanes, 0)
                /\ fine' = Memory(Bins * Bins * blur.lanes, 0)
                /\ UNCHANGED <<H, luc>>
           [] KernelFor = "large" ->
                /\ pc' = "patch" /\ work' = LargeWork
                /\ coarse' = Memory(Bins * columns * blur.channels, Residue)
                /\ fine' = Memory(Bins * Bins * columns * blur.channels, Residue)
                /\ H' = NoneSummed /\ luc' = Zeroes
      /\ UNCHANGED <<blur, blur_status, filled, plane, medians>>

Refuse ==
  /\ pc = "call" /\ ~median_blur_validate
  /\ blur_status' = "NOT_IMPLEMENTED" /\ pc' = "done"
  /\ UNCHANGED <<blur, work, line, filled, plane, coarse, fine, H, luc, medians>>

Return ==
  /\ \/ pc = "network" /\ ~PairLeft /\ line >= blur.y_end
     \/ pc \in {"small", "patch"} /\ work = << >>
  /\ pc' = "done"
  /\ UNCHANGED <<blur, blur_status, work, line, filled, plane, coarse, fine, H, luc,
                 medians>>

Next == \/ Begin \/ Refuse \/ Return
        \/ TwoNetworkRows \/ NetworkRow \/ LeaveImage
        \/ SmallFill \/ SmallRow
        \/ LargePatch \/ LargeFill \/ LargeRow
-----------------------------------------------------------------------------
\* The window of an element, and its median: fewer than half of the values
\* are smaller, and more than half are smaller or equal.
WindowOf(p) ==
  [i, j \in Ksize |->
     <<Shown(blur.border, blur.height, p[1] + i - kMargin),
       Shown(blur.border, blur.width, (p[2] \div blur.channels) + j - kMargin)
         * blur.channels + (p[2] % blur.channels)>>]

IsMedian(m, window) ==
  LET CountBelow(v) ==
        Quantify(DOMAIN window, LAMBDA k : Pixel(window[k][1], window[k][2]) < v)
  IN  CountBelow(m) <= target_cdf /\ CountBelow(m + 1) > target_cdf

\* The rows a call stores: its stripe.  Of an empty stripe, which a scheduler may
\* hand out, the histograms store the row it begins with all the same, behind
\* the image if need be (median_blur_small_hist_neon.cpp:58,121 and
\* median_blur_large_hist_neon.cpp:64).
RowsStored ==
  IF blur_status # "OK" THEN {}
  ELSE IF KernelFor # "network" /\ blur.y_begin = blur.y_end THEN {blur.y_begin}
  ELSE blur.y_begin..blur.y_end - 1

\* Median blur of a stripe: every element of it holds the median of the window
\* around it, through the border, whatever the histograms held before, and
\* nothing but RowsStored was stored: the stripe, unless that is empty.
\* Only 3x3 windows leave the image, and only in an empty stripe that ends with
\* row 0 (process_filter_2d.h:85).
StripeHoldsMedians ==
  LET Elements == 0..blur.width * blur.channels - 1
  IN  /\ pc = "done" =>
           /\ DOMAIN medians = Places \cup (RowsStored \X Elements)
           /\ \A p \in DOMAIN medians :
                IF p[1] \notin RowsStored THEN medians[p] = Unstored
                ELSE IF KernelFor = "network" THEN medians[p] = WindowOf(p)
                ELSE IsMedian(medians[p], WindowOf(p))
      /\ pc = "outside" => blur.ksize = 3 /\ blur.y_end = 0

MedianTypeOK ==
  /\ blur \in MedianCallType
  /\ blur_status \in {"OK", "NOT_IMPLEMENTED"}
  /\ line \in 0..blur.height
  /\ filled \in 0..blur.ksize
  /\ plane \in 0..blur.channels
  /\ pc \in {"call", "network", "small", "patch", "large", "outside", "done"}
-----------------------------------------------------------------------------
(***************************************************************************)
(* The medians of 3x3, 5x5 and 7x7 windows by comparators, lane by lane:   *)
(* kleidicv/src/filters/median_blur_sorting_network_*.h.  Only minima and  *)
(* maxima are taken, so a network that is right for zeroes and ones is     *)
(* right for all values.                                                   *)
(*                                                                         *)
(* The larger networks sort the columns, then the rows as far as they are  *)
(* needed, then what can still be the median, along diagonals.  Rows and   *)
(* columns are numbered from 0; in the diagonals a cell is its row and its *)
(* column, written as two digits.                                          *)
(***************************************************************************)
Smaller(x, y) == IF x < y THEN x ELSE y
Greater(x, y) == IF x < y THEN y ELSE x

\* compare_and_swap, min and max of the comparator classes: the smaller value
\* goes to the left cell, the greater one to the right cell, or only one of
\* them is stored.
S(left, right) == [left |-> left, right |-> right, store |-> "both"]
Lo(left, right) == [left |-> left, right |-> right, store |-> "left"]
Hi(left, right) == [left |-> left, right |-> right, store |-> "right"]

Compare(c, w) ==
  LET x == w[c.left]
      y == w[c.right]
  IN  [w EXCEPT ![c.left] = IF c.store = "right" THEN x ELSE Smaller(x, y),
                ![c.right] = IF c.store = "left" THEN y ELSE Greater(x, y)]

Run(network, window) ==
  LET After[i \in 0..Len(network)] ==
        IF i = 0 THEN window ELSE Compare(network[i], After[i - 1])
  IN  After[Len(network)]
-----------------------------------------------------------------------------
SortRow3 == << S(0, 2), S(0, 1), S(1, 2) >>

\* The last three comparators of the 3x3 networks.
MiddleOf(least, mid, greatest) ==
  Smaller(Greater(Smaller(least, greatest), mid), Greater(least, greatest))

sorting_network3x3_single_row(w) ==
  LET s == [r \in 0..2 |-> Run(SortRow3, w[r])]
      max_0_1_2 == Greater(Greater(s[0][0], s[1][0]), s[2][0])
      mid_0_1_2 == MiddleOf(s[0][1], s[1][1], s[2][1])
      min_0_1_2 == Smaller(Smaller(s[0][2], s[1][2]), s[2][2])
  IN  MiddleOf(min_0_1_2, mid_0_1_2, max_0_1_2)

\* Two windows that share their middle rows 1 and 2, the columns of which are
\* sorted once.
sorting_network3x3_dual_rows(w) ==
  LET s == [r \in 0..3 |-> Run(SortRow3, w[r])]
      low == [c \in 0..2 |-> Smaller(s[1][c], s[2][c])]
      high == [c \in 0..2 |-> Greater(s[1][c], s[2][c])]
  IN  << MiddleOf(Smaller(s[0][2], low[2]),
                Greater(low[1], Smaller(s[0][1], high[1])),
                Greater(s[0][0], high[0])),
         MiddleOf(Smaller(low[2], s[3][2]),
                Smaller(high[1], Greater(low[1], s[3][1])),
                Greater(high[0], s[3][0])) >>
-----------------------------------------------------------------------------
\* sorting_network5x5: greater values towards row 0 and column 0.
Columns_5x5 ==
  << S(3, 0), S(4, 1), S(2, 0), S(3, 1), S(1, 0), S(4, 2), S(2, 1), S(4, 3),
     S(3, 2) >>

Rows_5x5 ==
  << << S(3, 0), S(4, 1), S(2, 0), S(3, 1), Lo(1, 0), S(4, 2), Lo(2, 1), S(4, 3),
        Lo(3, 2) >>,
     << S(3, 0), S(4, 1), S(2, 0), S(3, 1), Lo(1, 0), S(4, 2), Lo(2, 1), S(4, 3),
        S(3, 2) >>,
     << S(3, 0), S(4, 1), S(2, 0), S(3, 1), Lo(1, 0), S(4, 2), S(2, 1), Hi(4, 3),
        S(3, 2) >>,
     << S(3, 0), S(4, 1), S(2, 0), S(3, 1), S(1, 0), S(4, 2), S(2, 1), Hi(4, 3),
        Hi(3, 2) >>,
     << S(3, 0), S(4, 1), S(2, 0), Hi(3, 1), S(1, 0), Hi(4, 2), Hi(2, 1) >> >>

Diagonals_5x5 ==
  << Lo(21, 3), Lo(30, 12), Lo(30, 21), S(31, 4), S(40, 13), S(22, 4),
     S(31, 13), Lo(13, 4), S(40, 22), Lo(22, 13), Hi(40, 31), Hi(31, 22),
     Hi(32, 14), Hi(41, 23), Hi(23, 14), S(30, 14), Lo(22, 14), Hi(30, 22) >>
-----------------------------------------------------------------------------
\* sorting_network7x7: smaller values towards row 0 and column 0.
Columns_7x7 ==
  << S(0, 6), S(2, 3), S(4, 5), S(0, 2), S(1, 4), S(3, 6), S(0, 1), S(2, 5),
     S(3, 4), S(1, 2), S(4, 6), S(2, 3), S(4, 5), S(1, 2), S(3, 4), S(5, 6) >>

Rows_7x7 ==
  << << S(0, 6), S(2, 3), S(4, 5), S(0, 2), S(1, 4), S(3, 6), Hi(0, 1), S(2, 5),
        S(3, 4), Hi(1, 2), S(4, 6), Hi(2, 3), S(4, 5), S(3, 4), S(5, 6) >>,
     << S(0, 6), S(2, 3), S(4, 5), S(1, 4), S(0, 2), S(3, 6), Hi(0, 1), S(3, 4),
        S(2, 5), Hi(1, 2), S(4, 6), Hi(2, 3), S(4, 5), S(3, 4), S(5, 6) >>,
     << S(0, 6), S(2, 3), S(4, 5), S(1, 4), S(0, 2), S(3, 6), Hi(0, 1), S(3, 4),
        S(2, 5), S(1, 2), S(4, 6), S(2, 3), S(4, 5), Hi(1, 2), S(3, 4),
        S(5, 6) >>,
     << S(0, 6), S(2, 3), S(4, 5), S(1, 4), S(0, 2), S(3, 6), Hi(0, 1), S(3, 4),
        S(2, 5), S(1, 2), S(4, 6), S(2, 3), S(4, 5), S(1, 2), S(3, 4),
        Lo(5, 6) >>,
     << S(0, 6), S(2, 3), S(4, 5), S(1, 4), S(0, 2), S(3, 6), S(0, 1), S(3, 4),
        S(2, 5), S(1, 2), Lo(4, 6), S(2, 3), Lo(4, 5), S(1, 2), S(3, 4) >>,
     << S(0, 6), S(2, 3), S(4, 5), S(1, 4), S(0, 2), S(3, 6), S(0, 1), S(3, 4),
        S(2, 5), S(1, 2), Lo(4, 6), S(2, 3), Lo(4, 5), S(1, 2), Lo(3, 4) >>,
     << S(0, 6), S(2, 3), S(4, 5), S(1, 4), S(0, 2), Lo(3, 6), S(0, 1), Lo(3, 4),
        Lo(2, 5), S(1, 2), Lo(2, 3), S(1, 2) >> >>

Diagonals_7x7 ==
  << Hi(13, 22), Hi(31, 40), Hi(22, 40), Hi(40, 4), S(41, 23), S(50, 5),
     S(32, 14), Hi(41, 32), S(23, 14), Hi(50, 23), S(32, 5), Hi(32, 23),
     S(14, 5), S(23, 14), S(60, 6), S(42, 33), S(24, 15), S(51, 24),
     S(60, 42), S(33, 6), Hi(60, 51), S(33, 24), S(42, 15), S(51, 42),
     Lo(24, 6), S(42, 33), Lo(24, 15), Hi(51, 42), S(33, 24), S(52, 34),
     S(61, 16), S(43, 25), S(52, 43), Lo(34, 25), S(61, 34), Lo(43, 16),
     S(61, 52), Lo(43, 34), S(52, 43), Lo(53, 44), Lo(35, 26), Lo(53, 35),
     Lo(62, 53), S(61, 4), S(62, 23), S(52, 43), S(42, 24), S(33, 14),
     S(61, 62), S(42, 33), S(43, 5), S(23, 4), S(24, 14), S(62, 42),
     S(52, 33), S(43, 24), Lo(14, 5), Hi(61, 43), S(62, 52), Hi(42, 24),
     Lo(33, 4), S(23, 14), S(52, 23), S(43, 33), Lo(24, 14), S(52, 43),
     Hi(42, 23), Lo(33, 24), Hi(42, 43), Lo(33, 23), Hi(43, 33) >>
-----------------------------------------------------------------------------
Sizes == {5, 7}
ColumnNet(k) == IF k = 5 THEN Columns_5x5 ELSE Columns_7x7
RowNet(k, r) == (IF k = 5 THEN Rows_5x5 ELSE Rows_7x7)[r + 1]
DiagonalNet(k) == IF k = 5 THEN Diagonals_5x5 ELSE Diagonals_7x7

\* The columns of row r that the diagonals read.
Needed(k, r) ==
  {c \in 0..k - 1 :
     \E i \in DOMAIN DiagonalNet(k) :
       10 * r + c \in {DiagonalNet(k)[i].left, DiagonalNet(k)[i].right}}

\* sorting_network5x5 and sorting_network7x7: every column, every row, then
\* the diagonals, which leave the median in the middle.
sorting_network(k, w) ==
  LET n == 0..k - 1
      columns == [c \in n |-> Run(ColumnNet(k), [r \in n |-> w[r][c]])]
      sorted == [r \in n |-> Run(RowNet(k, r), [c \in n |-> columns[c][r]])]
      cells == [cell \in {10 * r + c : r, c \in 0..k - 1} |->
                  sorted[cell \div 10][cell % 10]]
  IN  Run(DiagonalNet(k), cells)[11 * (k \div 2)]
-----------------------------------------------------------------------------
Bit == {0, 1}
Ones(v) == Quantify(DOMAIN v, LAMBDA i : v[i] = 1)
MajorityOf(n, ones) == IF 2 * ones > n THEN 1 ELSE 0

\* The zeroes and ones of v in the order in which the networks of size k sort.
InOrder(k, v) ==
  [i \in 0..k - 1 |->
     IF (k = 5 /\ i < Ones(v)) \/ (k = 7 /\ i >= k - Ones(v)) THEN 1 ELSE 0]

\* Windows of zeroes and ones with sorted rows and columns, by the ones in
\* each row.
Staircases(k) ==
  LET Rows[n \in 1..k] ==
        IF n = 1 THEN {<<ones>> : ones \in 0..k}
        ELSE UNION {{Append(s, ones) :
                       ones \in IF k = 5 THEN 0..s[n - 1] ELSE s[n - 1]..k}
                      : s \in Rows[n - 1]}
  IN  Rows[k]

Cells(k, ones) ==
  [cell \in {10 * r + c : r, c \in 0..k - 1} |->
     LET n == ones[(cell \div 10) + 1]
         c == cell % 10
     IN  IF (k = 5 /\ c < n) \/ (k = 7 /\ c >= k - n) THEN 1 ELSE 0]
-----------------------------------------------------------------------------
SortColumn(k, v) ==
  /\ call' = [kernel |-> "column", size |-> k, input |-> v]
  /\ result' = [sorted |-> Run(ColumnNet(k), v)]

SortRow(k, r, v) ==
  /\ call' = [kernel |-> "row", size |-> k, row |-> r, input |-> v]
  /\ result' = [sorted |-> Run(RowNet(k, r), v)]

\* All windows once their columns and rows are sorted.
SortDiagonals(k, ones) ==
  /\ call' = [kernel |-> "diagonals", size |-> k, input |-> ones]
  /\ result' = [median |-> Run(DiagonalNet(k), Cells(k, ones))[11 * (k \div 2)]]

\* Permutations of 0..k^2-1, through all three stages.
Window(k, a) ==
  /\ call' = [kernel |-> "window", size |-> k, factor |-> a]
  /\ result' = [median |->
       sorting_network(k, [r \in 0..k - 1 |->
                             [c \in 0..k - 1 |-> (a * (k * r + c)) % (k * k)]])]

Single(w) ==
  /\ call' = [kernel |-> "single", input |-> w]
  /\ result' = [median |-> sorting_network3x3_single_row(w)]

Dual(w) ==
  /\ call' = [kernel |-> "dual", input |-> w]
  /\ result' = [medians |-> sorting_network3x3_dual_rows(w)]

NetworkKernels ==
  \/ \E k \in Sizes : \E v \in [0..k - 1 -> Bit] :
       SortColumn(k, v) \/ \E r \in 0..k - 1 : SortRow(k, r, v)
  \/ \E k \in Sizes : \E ones \in Staircases(k) : SortDiagonals(k, ones)
  \/ \E k \in Sizes : \E a \in {a \in 1..k * k : a % k # 0} : Window(k, a)
  \/ \E w \in [0..2 -> [0..2 -> Bit]] : Single(w)
  \/ \E w \in [0..3 -> [0..2 -> Bit]] : Dual(w)

\* Median by comparators: a column is sorted, a row is sorted where the
\* diagonals read it, and of sorted rows and columns the diagonals find the
\* median; so do the networks for 3x3 windows, one at a time or two that share
\* rows.
NetworksFindMedian ==
  LET OnesOf(w, rows) == Ones(w[rows[1]]) + Ones(w[rows[2]]) + Ones(w[rows[3]])
  IN  CASE call.kernel = "column" -> result.sorted = InOrder(call.size, call.input)
        [] call.kernel = "row" ->
             \A c \in Needed(call.size, call.row) :
               result.sorted[c] = InOrder(call.size, call.input)[c]
        [] call.kernel = "diagonals" ->
             result.median = MajorityOf(call.size * call.size,
                                        MapThenSumSet(LAMBDA i : call.input[i],
                                                      DOMAIN call.input))
        [] call.kernel = "window" -> result.median = (call.size * call.size) \div 2
        [] call.kernel = "single" ->
             result.median = MajorityOf(9, OnesOf(call.input, <<0, 1, 2>>))
        [] call.kernel = "dual" ->
             result.medians = << MajorityOf(9, OnesOf(call.input, <<0, 1, 2>>)),
                                 MajorityOf(9, OnesOf(call.input, <<1, 2, 3>>)) >>
        [] OTHER -> TRUE
=============================================================================
