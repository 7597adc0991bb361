---------------------------- MODULE ResizeCalls -----------------------------
(***************************************************************************)
(* Resizing by any ratio: the interpolation constants of a row, computed   *)
(* once per call (resize_linear_generic_u8_neon.h and _sc.h), and the way  *)
(* rows use them; halving both sides of an image                           *)
(* (resize_to_quarter_neon.cpp and _sc.h); and calls of both.              *)
(*                                                                         *)
(* Each vector loads a window of the source row and picks from it by       *)
(* indices; an index outside the window gives zero.  A stored element is   *)
(* described by the source elements it is interpolated from and the weight *)
(* of the right one: [left, right, frac], an element being None when the   *)
(* lookup gives zero.  Coordinates keep their width: Q16 ones are          *)
(* integers, a Q32 one is the pair of its Q16 part and the rest.           *)
(*                                                                         *)
(* Halving is described by the elements of one pair of rows.  A source     *)
(* element is its number in the row, and a destination element the set of  *)
(* those it is averaged from, in the upper and the lower row alike.        *)
(***************************************************************************)
EXTENDS KernelCall, Integers, Sequences
LOCAL INSTANCE Lanes
LOCAL INSTANCE SequencesExt

CONSTANTS
  SrcWidths, DstWidths,    \* in pixels
  ResizeLengths            \* vector lengths, in bytes

kFixpBits == 16
kInterpolationBits == 15
kOne == 2^kFixpBits
kStep == 16        \* NEON lanes
kHalfStep == 8
None == -1

clamp(x, lo, hi) == IF x < lo THEN lo ELSE IF x > hi THEN hi ELSE x
saturating_sub(x, y) == IF x > y THEN x - y ELSE 0
align_up(x, n) == n * ((x + n - 1) \div n)

rounding_div(nom, denom) == (nom + denom \div 2) \div denom
\* The Q16 source coordinate of the centre of destination pixel x.
aligned_scale(x, nom, denom) ==
  rounding_div((x * kOne + kOne \div 2) * nom, denom) - kOne \div 2 + 1

\* nom * 2^16 / denom, rounded.
Q32(nom, denom) == [whole |-> nom \div denom,
                    rest |-> rounding_div((nom % denom) * kOne, denom)]

\* Half a pixel of either image apart, and 1.5 of 2^-16 for rounding.
initial_coordinate(nom, denom) ==
  LET q == Q32(nom * (kOne \div 2), denom)
  IN  [whole |-> q.whole - kOne \div 2, rest |-> q.rest + 3 * (kOne \div 2)]

coordinate_step(pixels, nom, denom) == Q32(nom * pixels * kOne, denom)

\* narrow_coordinate after i steps.
Coordinate(i, pixels, sw, dw) ==
  LET start == initial_coordinate(sw, dw)
      by == coordinate_step(pixels, sw, dw)
  IN  start.whole + i * by.whole + ((start.rest + i * by.rest) \div kOne)

scale_x(dx, sw, dw) == rounding_div(dx * sw * kOne, dw)
interpolation_fraction(q) == (q % kOne) \div 2^(kFixpBits - kInterpolationBits)
-----------------------------------------------------------------------------
(* Which kernel, of how many registers of source, resizes a row.           *)
RowOf(s) == s.src_width * s.channels

resize_linear_u8_is_implemented(s) ==
  LET sw == s.src_width
      dw == s.dst_width
  IN  \/ sw = 2 * dw /\ s.src_height = 2 * s.dst_height
      \/ dw >= sw /\ RowOf(s) >= 16
      \/ /\ dw * 3 >= sw /\ dw < sw
         /\ dw * s.channels >= 8
         /\ RowOf(s) >= (IF dw * 2 >= sw /\ s.channels # 3 THEN 16 ELSE 32)

kUpsize(s) == s.dst_width >= s.src_width
\* kRatio, the registers of a window.
resize_linear_stripe_u8(s) ==
  LET sw == s.src_width
      dw == s.dst_width
      One == CASE s.channels = 1 -> dw * 14 > sw * 15
               [] s.channels = 2 -> dw * 6 > sw * 7
               [] s.channels \in {3, 4} -> dw * 2 > sw * 3
      Two == IF s.channels = 3 THEN 10 * sw < 18 * dw ELSE dw * 2 >= sw
  IN  IF One THEN 1 ELSE IF kUpsize(s) \/ Two THEN 2 ELSE 3

\* A window of three registers may be one lane short for three channels.
kSetRightmostLanes(s) ==
  /\ s.channels = 3 /\ resize_linear_stripe_u8(s) = 3 /\ ~kUpsize(s)
  /\ 10 * s.src_width >= 28 * s.dst_width
-----------------------------------------------------------------------------
(* A vector: its first destination element, its window and its lanes.      *)
Lookup(idx, base, size) == IF idx % 256 < size THEN base + (idx % 256) ELSE None

Vector(dst, base, size, idx0, idx1, xfrac) ==
  [dst |-> dst, base |-> base, size |-> size,
   lanes |-> [i \in DOMAIN idx0 |->
                [left |-> Lookup(idx0[i], base, size),
                 right |-> Lookup(idx1[i], base, size), frac |-> xfrac[i]]]]

\* b[15] and d[15] are loaded from memory by the index of the last lane.
WithRightmost(v, idx1, set) ==
  IF set THEN [v EXCEPT !.lanes[Len(v.lanes)].right =
                 v.base + (idx1[Len(idx1)] % 256)]
  ELSE v

\* Indices and fractions of n elements from Q16 coordinates relative to
\* pixel base; limits are the smallest and largest pixel when upsizing.
Indices(coordinates, limits, upsize) ==
  LET index(q) == Wrap(q \div kOne, S8)
      limited(i) == IF upsize THEN clamp(i, limits[1], limits[2]) ELSE i
  IN  [idx0 |-> [j \in DOMAIN coordinates |-> limited(index(coordinates[j]))],
       idx1 |-> [j \in DOMAIN coordinates |->
                   limited(Wrap(index(coordinates[j]) + 1, S8))],
       xfrac |-> [j \in DOMAIN coordinates |->
                    interpolation_fraction(coordinates[j])]]

Element(idx, channel, ch) == [j \in DOMAIN idx |-> idx[j] * ch + channel[j]]

\* calculate_indices_fractions_base_fullvector and _halfvector of NEON.
IndicesFractionsBase(s, n, sx_base, sx_fixp, size, dst) ==
  LET ch == s.channels
      xfrac0 == sx_fixp - sx_base * kOne
      c == Indices([j \in 1..n |->
                      scale_x((j - 1) \div ch, s.src_width, s.dst_width) + xfrac0],
                   <<0, (size - 1) \div ch>>, kUpsize(s))
      channel == [j \in 1..n |-> (j - 1) % ch]
  IN  Vector(dst, sx_base * ch, size, Element(c.idx0, channel, ch),
             Element(c.idx1, channel, ch), c.xfrac)

calculate_num_of_vector_paths(s) ==
  LET two_x == IF RowOf(s) >= kStep * resize_linear_stripe_u8(s)
               THEN (s.dst_width * s.channels) \div (2 * kStep) ELSE 0
      remaining == s.dst_width * s.channels - two_x * 2 * kStep
  IN  [two_x |-> two_x, half |-> align_up(remaining, kHalfStep) \div kHalfStep]

HalfReadSize(s) ==
  IF (resize_linear_stripe_u8(s) = 3 \/ s.channels = 3) /\ ~kUpsize(s)
  THEN 2 * kStep ELSE kStep

\* The coordinate of the i-th half vector, pulled back when the row ends.
HalfCoordinate(s, first, i, dx, pulled) ==
  aligned_scale(first, s.src_width, s.dst_width)
  + i * rounding_div(((s.src_width * kHalfStep) \div s.channels) * kOne,
                     s.dst_width)
  - (dx - pulled) * rounding_div(s.src_width * kOne, s.dst_width)

\* RowInterpolationConstantsGenerator::operator() for 1, 2 and 4 channels.
RowConstants(s) ==
  LET ch == s.channels
      paths == calculate_num_of_vector_paths(s)
      full_size == kStep * resize_linear_stripe_u8(s)
      Full(i) ==
        LET sx_fixp == Coordinate(i, kStep \div ch, s.src_width, s.dst_width)
            sx_base == clamp(sx_fixp \div kOne, 0,
                             saturating_sub(RowOf(s), full_size) \div ch)
        IN  IndicesFractionsBase(s, kStep, sx_base, sx_fixp, full_size,
                                 i * kStep)
      first == paths.two_x * 2 * (kStep \div ch)
      HalfV(i) ==
        LET dx == first + i * (kHalfStep \div ch)
            max_dx == s.dst_width - kHalfStep \div ch
            pulled == IF dx < max_dx THEN dx ELSE max_dx
            sx_fixp == HalfCoordinate(s, first, i, dx, pulled)
            sx_base == clamp(sx_fixp \div kOne, 0,
                             (RowOf(s) - HalfReadSize(s)) \div ch)
        IN  IndicesFractionsBase(s, kHalfStep, sx_base, sx_fixp,
                                 HalfReadSize(s), pulled * ch)
  IN  {Full(i) : i \in 0..2 * paths.two_x - 1}
      \cup {HalfV(i) : i \in 0..paths.half - 1}

\* Mutant: the base is moved and the indices stay.
fill_full_constants_NotAdjusted(s, i, sx_fixp) ==
  LET sx_base == sx_fixp \div kOne
      start == (i % 3) * kStep
      size == kStep * resize_linear_stripe_u8(s)
      c == Indices([j \in 1..kStep |->
                      scale_x((start + j - 1) \div 3, s.src_width, s.dst_width)
                      + (sx_fixp % kOne)],
                   <<Saturate(-sx_base, S8),
                     Saturate(s.src_width - 1 - sx_base, S8)>>, kUpsize(s))
      channel == [j \in 1..kStep |-> (start + j - 1) % 3]
      idx0 == Element(c.idx0, channel, 3)
      idx1 == Element(c.idx1, channel, 3)
      base == clamp(3 * sx_base + Min({idx0[1], idx0[2], idx0[3]}), 0,
                    saturating_sub(RowOf(s), size))
  IN  Vector(i * kStep, base, size, idx0, idx1, c.xfrac)

\* Three channels: three vectors hold 16 pixels, so the second and third
\* begin inside a pixel; vector i begins at element start of its triplet.
fill_full_constants_vectorially(s, i, sx_fixp) ==
  LET sx_base == sx_fixp \div kOne
      start == (i % 3) * kStep
      size == kStep * resize_linear_stripe_u8(s)
      c == Indices([j \in 1..kStep |->
                      scale_x((start + j - 1) \div 3, s.src_width, s.dst_width)
                      + (sx_fixp % kOne)],
                   <<Saturate(-sx_base, S8),
                     Saturate(s.src_width - 1 - sx_base, S8)>>, kUpsize(s))
      channel == [j \in 1..kStep |-> (start + j - 1) % 3]
      element0 == Element(c.idx0, channel, 3)
      element1 == Element(c.idx1, channel, 3)
      final_base == clamp(3 * sx_base
                            + Min({element0[1], element0[2], element0[3]}),
                          0, saturating_sub(RowOf(s), size))
      adjustment == final_base - 3 * sx_base
      idx0 == [j \in 1..kStep |-> element0[j] - adjustment]
      idx1 == [j \in 1..kStep |-> element1[j] - adjustment]
  IN  WithRightmost(Vector(i * kStep, final_base, size, idx0, idx1, c.xfrac),
                    idx1, kSetRightmostLanes(s))

fill_half_constants_scalarly(s, dst_element_index) ==
  LET dx == dst_element_index \div 3
      in_pixel == dst_element_index % 3
      pixel0 == aligned_scale(dx, s.src_width, s.dst_width)
      pixel1 == aligned_scale(dx + 1, s.src_width, s.dst_width)
      element0 == (pixel0 \div kOne) * 3 + in_pixel
      lowest == Min({element0, (pixel1 \div kOne) * 3})
      base == clamp(lowest, 0, saturating_sub(RowOf(s), HalfReadSize(s)))
      \* lane j belongs to the pixel number Pixel(j), its first one being 0
      Pixel(j) == (in_pixel + j - 1) \div 3
      fixp(j) == pixel0 + Pixel(j) * rounding_div(s.src_width * kOne, s.dst_width)
      sx(q, k) == LET x == q \div kOne + k
                  IN  IF kUpsize(s) THEN clamp(x, 0, s.src_width - 1) ELSE x
      index(j, k) == sx(fixp(j), k) * 3 + ((in_pixel + j - 1) % 3) - base
  IN  Vector(dst_element_index, base, HalfReadSize(s),
             [j \in 1..kHalfStep |-> index(j, 0)],
             [j \in 1..kHalfStep |-> index(j, 1)],
             [j \in 1..kHalfStep |->
                IF Pixel(j) = 0 /\ element0 < base THEN 0
                ELSE interpolation_fraction(fixp(j))])

RowConstants_3ch(s) ==
  LET paths == calculate_num_of_vector_paths(s)
      first == paths.two_x * 2 * kStep
      max_dst == s.dst_width * 3 - kHalfStep
  IN  {fill_full_constants_vectorially(
         s, i, Coordinate(i \div 3, kStep, s.src_width, s.dst_width)) :
         i \in 0..2 * paths.two_x - 1}
      \cup {fill_half_constants_scalarly(
              s, Min({first + i * kHalfStep, max_dst})) :
              i \in 0..paths.half - 1}

neon(s) == IF s.channels = 3 THEN RowConstants_3ch(s) ELSE RowConstants(s)
-----------------------------------------------------------------------------
(* The SVE2 and SME kernel, with vectors of vl bytes.                      *)
\* calculate_indices_fractions_srcindex of iteration i.
srcindex_sc(s, vl, i, sx_fixp) ==
  LET ch == s.channels
      start == IF ch = 3 THEN (i % 3) * vl ELSE 0
      coord == [j \in 1..vl |->
                  scale_x((start + j - 1) \div ch, s.src_width, s.dst_width)
                  + (sx_fixp % kOne)]
      \* the second and third of a triplet start at a pixel of their own
      ahead == IF ch = 3 THEN coord[1] \div kOne ELSE 0
      sx_base == sx_fixp \div kOne + ahead
      c == Indices([j \in 1..vl |-> coord[j] - ahead * kOne],
                   <<Saturate(-sx_base, S8),
                     Saturate(s.src_width - 1 - sx_base, S8)>>, kUpsize(s))
      channel == [j \in 1..vl |-> (start + j - 1) % ch]
      element0 == Element(c.idx0, channel, ch)
      element1 == Element(c.idx1, channel, ch)
      lowest == IF ch = 3 \/ kUpsize(s)
                THEN Min({element0[1], element0[2], element0[3]}) ELSE 0
  IN  [index |-> sx_base * ch + lowest,
       first |-> sx_base * ch,
       idx0 |-> [j \in 1..vl |-> element0[j] - lowest],
       idx1 |-> [j \in 1..vl |-> element1[j] - lowest],
       xfrac |-> c.xfrac]

precalculate_sc(s, vl) ==
  LET n == align_up(s.dst_width * s.channels, vl) \div vl
      pixels == IF s.channels = 3 THEN vl ELSE vl \div s.channels
  IN  [i \in 0..n - 1 |->
         srcindex_sc(s, vl, i,
                     Coordinate(IF s.channels = 3 THEN i \div 3 ELSE i,
                                pixels, s.src_width, s.dst_width))]

\* The last iteration whose window ends inside the row.
n_iterations_2x(s, vl, pre) ==
  LET max_src_index ==
        saturating_sub(RowOf(s), vl * resize_linear_stripe_u8(s))
      start(i) == IF s.channels = 3 THEN pre[i].index ELSE pre[i].first
      inside == {i \in DOMAIN pre : start(i) <= max_src_index}
  IN  IF inside = {} THEN 0 ELSE Max(inside)

\* One iteration: with full loads, or with loads that end with the row and a
\* store that ends with dst.
common_vector_path_sc(s, vl, c, i, full) ==
  LET size == vl * resize_linear_stripe_u8(s)
      in_row == IF full THEN size ELSE Min({size, RowOf(s) - c.index})
      v == Vector(i * vl, c.index, in_row, c.idx0, c.idx1, c.xfrac)
      last == Min({RowOf(s) - 1, c.index + (c.idx1[vl] % 256)})
      r == IF kSetRightmostLanes(s) THEN [v EXCEPT !.lanes[vl].right = last]
           ELSE v
  IN  IF full THEN r
      ELSE [r EXCEPT !.lanes =
              SubSeq(@, 1, Min({vl, s.dst_width * s.channels - i * vl}))]

\* Iterations are taken two at a time, then one at a time.
process_row_sc(s, vl) ==
  LET pre == precalculate_sc(s, vl)
      full == 2 * (n_iterations_2x(s, vl, pre) \div 2)
  IN  {common_vector_path_sc(s, vl, pre[i], i, i < full) : i \in DOMAIN pre}
-----------------------------------------------------------------------------
(* Rows, and the interpolation itself.                                     *)

\* The source rows that destination row dy lies between.
process_row(s, dy) ==
  LET sy_fixp == aligned_scale(dy, s.src_height, s.dst_height)
      sy == sy_fixp \div kOne
  IN  [left |-> clamp(sy, 0, s.src_height - 1),
       right |-> clamp(sy + 1, 0, s.src_height - 1),
       frac |-> interpolation_fraction(sy_fixp)]

\* vqrdmulh: the rounded high half of the doubled product.
lerp_delta(x, y, w) == (2 * (y - x) * w + 2^15) \div 2^16

\* The delta is narrowed to eight bits and added modulo 256.
lerp(x, y, w) == Wrap(x + Wrap(lerp_delta(x, y, w), S8), U8)
-----------------------------------------------------------------------------
kVectorLength == 16

Src(first, n) == [i \in 1..n |-> first + i - 1]
\* vld2, vld3, vld4 and the stores that undo them.
Deinterleaved(s, ch, c) == [i \in 1..Len(s) \div ch |-> s[(i - 1) * ch + c]]
Interleaved(vs) == [i \in 1..Len(vs) * Len(vs[1]) |->
                      vs[((i - 1) % Len(vs)) + 1][(i - 1) \div Len(vs) + 1]]

\* Sums of neighbours, of even and odd lanes, then shifted and narrowed.
average_2x2_blocks_u8(s) ==
  [i \in 1..Half(s) |-> {s[2 * i - 1], s[2 * i]}]
resize_parallel_vectors(s) ==
  [i \in 1..Half(s) |-> {movlb(s)[i], movlt(s)[i]}]
resize_two_channels(c0, c1) ==
  BottomTop(resize_parallel_vectors(c0), resize_parallel_vectors(c1))

\* Four channels: each pixel is added to the next, four lanes away, and the
\* halves in the middle of two sums put together.
FourChannels(s) ==
  LET sum(k) == LET v == SubSeq(s, 8 * k + 1, 8 * k + 8)
                IN  [i \in 1..8 |-> {v[i], ext(v, v, 4)[i]}]
  IN  ext(sum(0), sum(1), 4) \o ext(sum(2), sum(3), 4)

resize_to_quarter_vector_path(s, ch) ==
  CASE ch = 1 -> average_2x2_blocks_u8(SubSeq(s, 1, 32))
                 \o average_2x2_blocks_u8(SubSeq(s, 33, 64))
    [] ch \in {2, 3} ->
         Interleaved([c \in 1..ch |->
                        average_2x2_blocks_u8(Deinterleaved(s, ch, c))])
    [] ch = 4 -> FourChannels(SubSeq(s, 1, 32)) \o FourChannels(SubSeq(s, 33, 64))

\* A row of width pixels: vectors, then pairs of pixels.
resize_to_quarter_u8_imp(ch, width) ==
  LET dst_step == kVectorLength * (IF ch = 3 THEN 3 ELSE 2)
      vectors == (width * ch) \div (2 * dst_step)
      rest == width * ch - 2 * dst_step * vectors
      vector(i) == resize_to_quarter_vector_path(
                     Src(2 * dst_step * (i - 1), 2 * dst_step), ch)
      pair(i) == LET x == 2 * dst_step * vectors + 2 * ch * (i - 1)
                 IN  [c \in 1..ch |-> {x + c - 1, x + c - 1 + ch}]
  IN  FlattenSeq([i \in 1..vectors |-> vector(i)])
      \o FlattenSeq([i \in 1..rest \div (2 * ch) |-> pair(i)])

\* n pixels in registers of vl lanes; the predicate keeps the stored ones.
parallel_rows_vectors_path(first, n, ch, vl) ==
  LET \* inactive lanes are loaded as zero
      loaded == [i \in 1..vl * ch |->
                   IF i <= n * ch THEN first + i - 1 ELSE -1]
      halved == CASE ch = 1 -> resize_parallel_vectors(loaded)
                  [] ch = 2 -> resize_two_channels(
                                 uzp1(Register(loaded, 0, vl), Register(loaded, 1, vl)),
                                 uzp2(Register(loaded, 0, vl), Register(loaded, 1, vl)))
                  [] ch \in {3, 4} ->
                       Interleaved([c \in 1..ch |->
                         resize_parallel_vectors(Deinterleaved(loaded, ch, c))])
  IN  SubSeq(halved, 1, (n \div 2) * ch)

\* Two vectors of pixels at once.
parallel_rows_vectors_path_2x(first, ch, vl) ==
  LET s == Src(first, 2 * vl * ch)
      two(c) == resize_parallel_vectors(
                  Deinterleaved(Register(s, 0, vl * ch), ch, c))
                \o resize_parallel_vectors(
                     Deinterleaved(Register(s, 1, vl * ch), ch, c))
      result_lo(k) == resize_two_channels(
                        uzp1(Register(s, 2 * k, vl), Register(s, 2 * k + 1, vl)),
                        uzp2(Register(s, 2 * k, vl), Register(s, 2 * k + 1, vl)))
  IN  IF ch = 2 THEN result_lo(0) \o result_lo(1)
      ELSE Interleaved([c \in 1..ch |-> two(c)])

process_parallel_rows(ch, width, vl) ==
  LET twice == width \div (2 * vl)
      once == (width - 2 * vl * twice) \div vl
      rest == width - 2 * vl * twice - vl * once
      at(i) == 2 * vl * ch * i
  IN  FlattenSeq([i \in 1..twice |->
                    parallel_rows_vectors_path_2x(at(i - 1), ch, vl)])
      \o FlattenSeq([i \in 1..once |->
                       parallel_rows_vectors_path(at(twice), vl, ch, vl)])
      \o parallel_rows_vectors_path(at(twice) + vl * ch * once, rest, ch, vl)

\* resize_linear_stripe_u8: destination rows [y_begin, y_end) of the image,
\* as pairs of source rows.
QuarterStripe(y_begin, y_end, src_height) ==
  LET src_begin == 2 * y_begin
      src_end == IF 2 * y_end < src_height THEN 2 * y_end ELSE src_height
  IN  [y \in y_begin..y_begin + (src_end - src_begin) \div 2 - 1 |->
         {src_begin + 2 * (y - y_begin), src_begin + 2 * (y - y_begin) + 1}]
-----------------------------------------------------------------------------
Resizes == {[src_width |-> sw, dst_width |-> dw, channels |-> ch,
             src_height |-> 3, dst_height |-> 7] :
            sw \in SrcWidths, dw \in DstWidths, ch \in 1..4}

ResizeRow ==
  \E s \in Resizes :
    /\ resize_linear_u8_is_implemented(s)
    /\ \/ /\ call' = [kernel |-> "resize", s |-> s, path |-> "neon", vl |-> kStep]
          /\ result' = neon(s)
       \/ \E vl \in ResizeLengths :
            /\ call' = [kernel |-> "resize", s |-> s, path |-> "sc", vl |-> vl]
            /\ result' = process_row_sc(s, vl)

ResizeColumn ==
  \E sh \in SrcWidths, dh \in DstWidths : \E dy \in 0..dh - 1 :
    LET s == [src_height |-> sh, dst_height |-> dh]
    IN  /\ call' = [kernel |-> "resize_column", s |-> s, dy |-> dy]
        /\ result' = process_row(s, dy)

Lerp ==
  \E x, y \in {0, 1, 100, 127, 128, 129, 254, 255},
     w \in {0, 1, 16383, 16384, 32766, 32767} :
    /\ call' = [kernel |-> "lerp", x |-> x, y |-> y, w |-> w]
    /\ result' = lerp(x, y, w)

ResizeToQuarter ==
  \E ch \in 1..4, dw \in DstWidths :
    /\ call' = [kernel |-> "quarter", channels |-> ch, dst_width |-> dw]
    /\ result' = {resize_to_quarter_u8_imp(ch, 2 * dw)}
                 \cup {process_parallel_rows(ch, 2 * dw, vl) :
                         vl \in ResizeLengths}

ResizeToQuarterRows ==
  \E height \in 1..5 : \E cut \in 0..height :
    /\ call' = [kernel |-> "quarter_rows", height |-> height]
    /\ result' = {QuarterStripe(0, cut, 2 * height),
                  QuarterStripe(cut, height, 2 * height)}

ResizeKernels ==
  \/ ResizeToQuarter \/ ResizeToQuarterRows
  \/ ResizeRow \/ ResizeColumn \/ Lerp
-----------------------------------------------------------------------------
\* Is the pair of source pixels lane.left, lane.right with that weight the
\* place of the centre of pixel x of the larger or smaller image, clamped to
\* the image?  The bounds are those of kleidicv.h:2433-2449, in 2^-17.
Near(lane, x, n, m) ==
  LET limit(z) == IF z < 0 THEN 0
                  ELSE IF z > 2 * m * (n - 1) THEN 2 * m * (n - 1) ELSE z
      exact == limit((2 * x + 1) * n - m)    \* in units of 1 / 2m
      weight == IF lane.right = lane.left THEN 0 ELSE lane.frac
      off == (exact - 2 * m * lane.left) * 2^16 - weight * 4 * m
  IN  /\ lane.left \in 0..n - 1
      /\ weight > 0 => lane.right = lane.left + 1 /\ lane.right < n
      /\ off <= 69 * m /\ off >= -69 * m

Pixel(element, ch) == IF element = None THEN None ELSE element \div ch

\* The bytes a vector's lookups may have to tell apart.
Window(s, vl) == vl * resize_linear_stripe_u8(s)

(* Indices have eight bits: of a window of more than 256 bytes they reach  *)
(* only a part, and wrap.  These are three registers of vectors of 128     *)
(* bytes, and two or three of vectors of 256.                              *)
Addressable(s, vl) == Window(s, vl) <= 256

(* The last lane of the second of three vectors of 32 bytes begins eleven  *)
(* pixels after the first one, in the third channel, and ends in the first *)
(* of them: shrunk by nearly three, its left pixel too lies behind the     *)
(* window, of which only the right one is loaded apart.                    *)
LeftOutOfWindow(s, vl, v, e) ==
  /\ vl = 32 /\ kSetRightmostLanes(s) /\ 11 * s.src_width > 32 * s.dst_width
  /\ v.dst % (3 * vl) = vl /\ e = v.dst + vl - 1

(* Every element of a row is stored, each time interpolated between the    *)
(* two source pixels around its own place, of its own channel and with the *)
(* weight the documentation promises, at every width, ratio and number of  *)
(* channels: no lookup falls outside the window that the vector loaded     *)
(* (resize_linear_generic_u8_neon.h:305,616).  The scalable kernel keeps   *)
(* this while its window is Addressable, but for the lane LeftOutOfWindow. *)
GenericInterpolates ==
  call.kernel = "resize" =>
    LET s == call.s
        ch == s.channels
        Lane(v, e) == v.lanes[e - v.dst + 1]
        Of(e) == {v \in result : e \in v.dst..v.dst + Len(v.lanes) - 1}
        Interpolated(l, e) ==
          /\ l.left % ch = e % ch
          /\ (l.right # None) => l.right % ch = e % ch
          /\ Near([left |-> Pixel(l.left, ch), right |-> Pixel(l.right, ch),
                   frac |-> l.frac],
                  e \div ch, s.src_width, s.dst_width)
        Excepted(v, e) == /\ call.path = "sc"
                          /\ \/ ~Addressable(s, call.vl)
                             \/ LeftOutOfWindow(s, call.vl, v, e)
    IN  /\ \A e \in 0..s.dst_width * ch - 1 :
             /\ Of(e) # {}
             /\ \A v \in Of(e) : Interpolated(Lane(v, e), e) \/ Excepted(v, e)
        /\ \A v \in result : v.dst >= 0
             /\ v.dst + Len(v.lanes) <= s.dst_width * ch

(* Rows shorter than the window: resize_linear_generic_sc.h:131 (:185 with *)
(* three channels) compares with a difference that saturates at zero, so   *)
(* that vectors of a much enlarged row which begin in its first pixel are  *)
(* loaded in full, two at a time.                                          *)
WindowBehindRow(s, vl) ==
  RowOf(s) < Window(s, vl) /\ s.dst_width * s.channels > 2 * vl

(* The windows lie in the source row, and so does the element that the     *)
(* widest kernels load past their window (line 847); only the scalable     *)
(* kernel leaves the row, at its end, where WindowBehindRow holds.         *)
WindowsInRow ==
  call.kernel = "resize" =>
    \A v \in result :
      /\ v.base >= 0
      /\ \/ v.base + v.size <= RowOf(call.s)
         \/ /\ call.path = "sc" /\ v.base = 0
            /\ WindowBehindRow(call.s, call.vl)
      /\ \A i \in DOMAIN v.lanes : v.lanes[i].right < RowOf(call.s)

(* Rows are taken by the same rule, above the first and below the last     *)
(* source row too.                                                         *)
ColumnInterpolates ==
  call.kernel = "resize_column" =>
    Near(result, call.dy, call.s.src_height, call.s.dst_height)

(* An interpolated value is the exact one, rounded, and so lies between    *)
(* the two it comes from: the eight-bit delta, which wraps, never shows.   *)
LerpStaysBetween ==
  call.kernel = "lerp" =>
    /\ \/ call.x <= result /\ result <= call.y
       \/ call.y <= result /\ result <= call.x
    /\ LET off == (result - call.x) * 2^15 - (call.y - call.x) * call.w
       IN  -(2^14) <= off /\ off <= 2^14

(* A halved image is made of the averages of its blocks of four pixels,    *)
(* channel by channel: four channels are summed across the registers that  *)
(* hold them (resize_to_quarter_neon.cpp:151-170).                         *)
QuarterAveragesBlocks ==
  /\ call.kernel = "quarter" =>
       LET ch == call.channels
       IN  result = {[e \in 1..call.dst_width * ch |->
                        LET x == 2 * ch * ((e - 1) \div ch) + ((e - 1) % ch)
                        IN  {x, x + ch}]}
  /\ call.kernel = "quarter_rows" =>
       \A y \in 0..call.height - 1 :
         \E stripe \in result :
           y \in DOMAIN stripe /\ stripe[y] = {2 * y, 2 * y + 1}
=============================================================================
