------------------------------- MODULE Remap -------------------------------
(***************************************************************************)
(* remap with 16-bit coordinates, nearest (remap_s16) and with 5-bit       *)
(* fractions (remap_s16point5), then remap_f32 and warp_perspective with   *)
(* float ones.  An image s = [width, height, stride, channels] is the set  *)
(* of the numbers of its elements; a map is the sequence of the            *)
(* coordinates <<x, y>> of a row.  What a pixel becomes is kept symbolic:  *)
(* the elements loaded and the pixel whose fraction weighs them.           *)
(***************************************************************************)
EXTENDS Integers, Sequences
LOCAL INSTANCE Lanes

Garbage == -99             \* a lane that was not loaded
BorderOf(c) == -1 - c      \* channel c of the border value
NoFraction == 0

\* The coordinates that a kernel of this kind accepts.
remap_s16_is_implemented(s, dst_width, border) ==
  /\ s.stride <= U16.hi /\ dst_width >= 8
  /\ s.width <= S16.hi + 1 /\ s.height <= S16.hi + 1
  /\ border \in {"replicate", "constant"} /\ s.channels = 1

remap_s16point5_is_implemented(s, dst_width, border) ==
  /\ s.stride <= U16.hi \div s.channels /\ dst_width >= 8
  /\ s.width <= S16.hi + 1 /\ s.height <= S16.hi + 1
  /\ border \in {"replicate", "constant"} /\ s.channels \in {1, 4}

Offset(s, x, y) == x * s.channels + y * s.stride

ClampTo(max, x) == LET least == IF x < max THEN x ELSE max
                   IN  IF least < 0 THEN 0 ELSE least

\* The elements stored by n vectors, one after the other; a row of vectors is
\* a function from the pixels at which they start.
Stored(n, lanes, vectors) ==
  LET F[k \in 0..n] == IF k = 0 THEN <<>> ELSE F[k - 1] \o vectors[(k - 1) * lanes]
  IN  F[n]

NeonStarts(width, lanes) ==
  {k * lanes : k \in 0..width \div lanes - 1} \cup {width - lanes}
SveStarts(width, lanes) == {k * lanes : k \in 0..(width - 1) \div lanes}
Active(width, lanes, at) == IF width - at < lanes THEN width - at ELSE lanes

\* A NEON row ends with a vector that goes back to the last `lanes` pixels.
NeonRow(width, lanes, channels, vectors) ==
  LET row == Stored(width \div lanes, lanes, vectors)
  IN  IF width % lanes = 0 THEN row
      ELSE SubSeq(row, 1, (width - lanes) * channels) \o vectors[width - lanes]

\* An SVE row ends with a vector of which some lanes are active.
SveRow(width, lanes, channels, vectors) ==
  SubSeq(Stored((width + lanes - 1) \div lanes, lanes, vectors), 1, width * channels)
-----------------------------------------------------------------------------
\* remap_s16.
RemapS16Replicate(s, map, lanes) ==
  NeonRow(Len(map), lanes, 1, [at \in NeonStarts(Len(map), lanes) |->
    [i \in 1..lanes |-> Offset(s, ClampTo(s.width - 1, map[at + i][1]),
                                  ClampTo(s.height - 1, map[at + i][2]))]])

\* Mutant: compared as signed numbers.
InRange_Signed(s, x, y) == x < s.width /\ y < s.height

\* Coordinates are compared as unsigned numbers: a negative one is too large.
InRange(s, x, y) == Wrap(x, U16) < s.width /\ Wrap(y, U16) < s.height

RemapS16ConstantBorder(s, map, lanes) ==
  NeonRow(Len(map), lanes, 1, [at \in NeonStarts(Len(map), lanes) |->
    [i \in 1..lanes |->
       LET in == InRange(s, map[at + i][1], map[at + i][2])
           pixel == IF in THEN Offset(s, Wrap(map[at + i][1], U16),
                                         Wrap(map[at + i][2], U16)) ELSE 0
       IN  IF in THEN pixel ELSE BorderOf(0)]])

\* Even and odd lanes are gathered apart, as far as they are active, and put
\* together again: loaded gives the pixels of the active lanes.
Gather(lanes, loaded) ==
  LET At(i) == IF i \in DOMAIN loaded THEN loaded[i] ELSE Garbage
      b == [j \in 1..lanes \div 2 |-> At(2 * j - 1)]
      t == [j \in 1..lanes \div 2 |-> At(2 * j)]
  IN  BottomTop(b, t)

\* The tail loads (length + 1) / 2 even and length / 2 odd lanes.
RemapS16Replicate_sve2(s, map, lanes) ==
  SveRow(Len(map), lanes, 1, [at \in SveStarts(Len(map), lanes) |->
    LET length == Active(Len(map), lanes, at)
        active == {2 * j - 1 : j \in 1..(length + 1) \div 2}
                    \cup {2 * j : j \in 1..length \div 2}
    IN  Gather(lanes,
               [i \in active |-> Offset(s, ClampTo(s.width - 1, map[at + i][1]),
                                           ClampTo(s.height - 1, map[at + i][2]))])])

RemapS16ConstantBorder_sve2(s, map, lanes) ==
  SveRow(Len(map), lanes, 1, [at \in SveStarts(Len(map), lanes) |->
    LET length == Active(Len(map), lanes, at)
        in == [i \in 1..lanes |->
                 i <= length /\ InRange(s, map[at + i][1], map[at + i][2])]
        \* pg_b is in_range seen by the even lanes, pg_t comes from svtrn2
        pg_t == trn2(in, [i \in 1..lanes |-> FALSE])
        active == {i \in 1..lanes : IF i % 2 = 1 THEN in[i] ELSE pg_t[i - 1]}
        pixel == Gather(lanes,
                   [i \in active |-> Offset(s, Wrap(map[at + i][1], U16),
                                               Wrap(map[at + i][2], U16))])
    IN  [i \in 1..lanes |-> IF in[i] THEN pixel[i] ELSE BorderOf(0)]])
-----------------------------------------------------------------------------
\* remap_s16point5.  Where the four pixels around a place are, and the pixel
\* whose fraction is used (its number, or none where it is made zero).
Fraction(x, p) == IF x < 0 THEN NoFraction ELSE p

\* The second coordinate is one more whenever the first, before it is clamped,
\* is less than the last one: a negative one too, in an image one pixel wide.
prepare_maps(s, xy, p) ==
  LET Next(z, max) == ClampTo(max, z) + (IF z < max THEN 1 ELSE 0)
  IN  [x0 |-> ClampTo(s.width - 1, xy[1]), y0 |-> ClampTo(s.height - 1, xy[2]),
       x1 |-> Next(xy[1], s.width - 1), y1 |-> Next(xy[2], s.height - 1),
       xf |-> Fraction(xy[1], p), yf |-> Fraction(xy[2], p)]

\* The loads of the 16-bit elements clamp once more; those of the 8-bit ones
\* do not.
load_pixels(s, q) ==
  [q EXCEPT !.x1 = ClampTo(s.width - 1, @), !.y1 = ClampTo(s.height - 1, @)]

\* The second coordinate is taken from the clamped first one.
get_coordinates_replicate(s, xy, p) ==
  LET x0 == ClampTo(s.width - 1, xy[1])
      y0 == ClampTo(s.height - 1, xy[2])
  IN  [x0 |-> x0, y0 |-> y0,
       x1 |-> x0 + (IF x0 < s.width - 1 THEN 1 ELSE 0),
       y1 |-> y0 + (IF y0 < s.height - 1 THEN 1 ELSE 0),
       xf |-> Fraction(xy[1], p), yf |-> Fraction(xy[2], p)]

\* SVE2 adds one with saturation before it clamps, and keeps the fraction.
load_source(s, xy, p) ==
  LET Next(z, max) == ClampTo(max, Saturate(z + 1, S16))
  IN  [x0 |-> ClampTo(s.width - 1, xy[1]), y0 |-> ClampTo(s.height - 1, xy[2]),
       x1 |-> Next(xy[1], s.width - 1), y1 |-> Next(xy[2], s.height - 1),
       xf |-> p, yf |-> p]

\* With a constant border the coordinates are unsigned and the next one wraps.
get_coordinates_constant(s, xy, p) ==
  [x0 |-> Wrap(xy[1], U16), y0 |-> Wrap(xy[2], U16),
   x1 |-> Wrap(xy[1] + 1, U16), y1 |-> Wrap(xy[2] + 1, U16),
   xf |-> p, yf |-> p]

\* The four elements of each channel around q, loaded.
Replicated(s, q) ==
  [c \in 0..s.channels - 1 |->
     [a |-> Offset(s, q.x0, q.y0) + c, b |-> Offset(s, q.x1, q.y0) + c,
      c |-> Offset(s, q.x0, q.y1) + c, d |-> Offset(s, q.x1, q.y1) + c]]

load_pixels_or_constant_border(s, q) ==
  LET Load(x, y, c) == IF x < s.width /\ y < s.height
                       THEN Offset(s, x, y) + c ELSE BorderOf(c)
  IN  [c \in 0..s.channels - 1 |->
         [a |-> Load(q.x0, q.y0, c), b |-> Load(q.x1, q.y0, c),
          c |-> Load(q.x0, q.y1, c), d |-> Load(q.x1, q.y1, c)]]

\* Four channels: an offset out of range becomes zero before the load, and
\* the pixel loaded is replaced.
load_pixels_4ch_constant(s, q) ==
  LET Load(x, y, c) ==
        LET in_range == x < s.width /\ y < s.height
            offset == IF in_range THEN Offset(s, x, y) ELSE 0
        IN  IF in_range THEN offset + c ELSE BorderOf(c)
  IN  [c \in 0..s.channels - 1 |->
         [a |-> Load(q.x0, q.y0, c), b |-> Load(q.x1, q.y0, c),
          c |-> Load(q.x0, q.y1, c), d |-> Load(q.x1, q.y1, c)]]

\* interpolate, lane by lane: what is weighed with which fraction.
interpolate(quads, xf, yf) ==
  [i \in DOMAIN quads |-> [of |-> quads[i], xf |-> xf[i], yf |-> yf[i]]]

\* One channel on NEON: coordinates, fractions and pixels in the same lane.
\* q and quads give the coordinates and the loaded elements of each pixel.
process_row(q, quads, lanes) ==
  NeonRow(Len(q), lanes, 1, [at \in NeonStarts(Len(q), lanes) |->
    interpolate([i \in 1..lanes |-> quads[at + i][0]],
                [i \in 1..lanes |-> q[at + i].xf], [i \in 1..lanes |-> q[at + i].yf])])

\* One channel on SVE2: the pixels are gathered in even and odd lanes.
process_row_sve2(q, quads, lanes) ==
  SveRow(Len(q), lanes, 1, [at \in SveStarts(Len(q), lanes) |->
    LET length == Active(Len(q), lanes, at)
        pixels == Gather(lanes, [i \in 1..length |-> quads[at + i][0]])
    IN  interpolate(
          pixels,
          [i \in 1..lanes |-> IF i <= length THEN q[at + i].xf ELSE Garbage],
          [i \in 1..lanes |-> IF i <= length THEN q[at + i].yf ELSE Garbage])])

\* Mutant: the fractions of a quarter of the vector are spread over the
\* wrong half.
Spread_SameHalf(f, half) ==
  LET f2 == IF half = 1 THEN zip1(f, f) ELSE zip2(f, f)
  IN  zip1(f2, f2) \o zip1(f2, f2)

\* Four channels on NEON: each fraction is spread over the four channels of
\* its pixel by zipping the vector with itself twice.
Spread(f, half) ==
  LET f2 == IF half = 1 THEN zip1(f, f) ELSE zip2(f, f)
  IN  zip1(f2, f2) \o zip2(f2, f2)

\* The elements of the pixels of a half of the vector, pixel by pixel.
HalfPixels(quads, half) ==
  LET n == Half(quads)
      of == IF half = 1 THEN low(quads) ELSE high(quads)
  IN  [e \in 1..4 * n |-> of[(e - 1) \div 4 + 1][(e - 1) % 4]]

process_row_4ch(q, quads, lanes) ==
  NeonRow(Len(q), lanes, 4, [at \in NeonStarts(Len(q), lanes) |->
    LET xf == [i \in 1..lanes |-> q[at + i].xf]
        yf == [i \in 1..lanes |-> q[at + i].yf]
        Res(half) == interpolate(HalfPixels(SubSeq(quads, at + 1, at + lanes), half),
                                 Spread(xf, half), Spread(yf, half))
    IN  Res(1) \o Res(2)])

\* load_4ch_b, load_4ch_t: the channels of the even or of the odd pixels.
Gathered(pixels, lanes, odd) ==
  [e \in 1..2 * lanes |->
     LET i == 2 * ((e - 1) \div 4 + 1) - (IF odd THEN 0 ELSE 1)
     IN  IF i <= Len(pixels) THEN pixels[i][(e - 1) % 4]
         ELSE [a |-> Garbage, b |-> Garbage, c |-> Garbage, d |-> Garbage]]

\* Four channels of 8 bits on SVE2: the pixels of the even lanes, then those
\* of the odd lanes; of each, channels 0 and 2, then 1 and 3.
vector_path_4ch_u8(pixels, xf, yf, lanes) ==
  LET Frac(f, odd) == IF odd THEN trn2(f, f) ELSE trn1(f, f)
      Res(odd) ==
        LET of == Gathered(pixels, lanes, odd)
        IN  BottomTop(interpolate(movlb(of), Frac(xf, odd), Frac(yf, odd)),
                      interpolate(movlt(of), Frac(xf, odd), Frac(yf, odd)))
      b == Wide(Res(FALSE), 4)
      t == Wide(Res(TRUE), 4)
  IN  Narrow(zip1(b, t) \o zip2(b, t))

\* Four channels of 16 bits: half as many pixels in a vector, 64 bits each;
\* a fraction is doubled in its 32-bit lane and then in the 64-bit lane.
vector_path_4ch_u16(pixels, xf, yf, lanes) ==
  LET Doubled(f) == [i \in DOMAIN f |-> <<f[i], f[i]>>]
      Frac(f, odd) == Narrow(IF odd THEN trn2(Doubled(f), Doubled(f))
                                    ELSE trn1(Doubled(f), Doubled(f)))
      Res(odd) == interpolate(Gathered(pixels, lanes, odd), Frac(xf, odd),
                              Frac(yf, odd))
      b == Wide(Res(FALSE), 4)
      t == Wide(Res(TRUE), 4)
  IN  Narrow(zip1(b, t) \o zip2(b, t))

\* Which of the stored pixels of a vector are active: pg_low and pg_high.
process_row_4ch_sve2(q, quads, lanes, bits) ==
  SveRow(Len(q), lanes, 4, [at \in SveStarts(Len(q), lanes) |->
    LET length == Active(Len(q), lanes, at)
        pixels == SubSeq(quads, at + 1, at + length)
        xf == [i \in 1..lanes |-> IF i <= length THEN q[at + i].xf ELSE Garbage]
        yf == [i \in 1..lanes |-> IF i <= length THEN q[at + i].yf ELSE Garbage]
    IN  IF bits = 8 THEN vector_path_4ch_u8(pixels, xf, yf, lanes)
                    ELSE vector_path_4ch_u16(pixels, xf, yf, lanes)])
-----------------------------------------------------------------------------
\* The classes: the coordinates of a row of the map, and what they load.
prepared(s, map) == [p \in 1..Len(map) |-> prepare_maps(s, map[p], p)]
replicate(s, map) == [p \in 1..Len(map) |-> get_coordinates_replicate(s, map[p], p)]
constant(s, map) == [p \in 1..Len(map) |-> get_coordinates_constant(s, map[p], p)]
sources(s, map) == [p \in 1..Len(map) |-> load_source(s, map[p], p)]
ReplicatedQuads(s, q) == [p \in 1..Len(q) |-> Replicated(s, q[p])]
ConstantQuads(s, q) == [p \in 1..Len(q) |-> load_pixels_or_constant_border(s, q[p])]

Replicate_u8(s, map) ==
  LET q == prepared(s, map) IN process_row(q, ReplicatedQuads(s, q), 8)
Replicate_u16(s, map) ==
  LET q == [p \in 1..Len(map) |-> load_pixels(s, prepared(s, map)[p])]
  IN  process_row(q, ReplicatedQuads(s, q), 8)
ConstantBorder_u8(s, map) ==
  LET q == constant(s, map) IN process_row(q, ConstantQuads(s, q), 8)
ConstantBorder_u16(s, map) ==
  LET q == constant(s, map) IN process_row(q, ConstantQuads(s, q), 8)
Replicate4ch_u8(s, map) ==
  LET q == replicate(s, map) IN process_row_4ch(q, ReplicatedQuads(s, q), 8)
Replicate4ch_u16(s, map) ==
  LET q == replicate(s, map) IN process_row_4ch(q, ReplicatedQuads(s, q), 8)
Constant4ch_u8(s, map) ==
  LET q == constant(s, map)
  IN  process_row_4ch(q, [p \in 1..Len(q) |-> load_pixels_4ch_constant(s, q[p])], 8)
Constant4ch_u16(s, map) ==
  LET q == constant(s, map)
  IN  process_row_4ch(q, [p \in 1..Len(q) |-> load_pixels_4ch_constant(s, q[p])], 8)

\* lanes is the number of 16-bit lanes of a vector.
Replicate_u8_sve2(s, map, lanes) ==
  LET q == sources(s, map) IN process_row_sve2(q, ReplicatedQuads(s, q), lanes)
Replicate_u16_sve2(s, map, lanes) ==
  LET q == sources(s, map) IN process_row_sve2(q, ReplicatedQuads(s, q), lanes)
ConstantBorder_u8_sve2(s, map, lanes) ==
  LET q == constant(s, map) IN process_row_sve2(q, ConstantQuads(s, q), lanes)
ConstantBorder_u16_sve2(s, map, lanes) ==
  LET q == constant(s, map) IN process_row_sve2(q, ConstantQuads(s, q), lanes)
Replicate4ch_u8_sve2(s, map, lanes) ==
  LET q == sources(s, map) IN process_row_4ch_sve2(q, ReplicatedQuads(s, q), lanes, 8)
Replicate4ch_u16_sve2(s, map, lanes) ==
  LET q == sources(s, map)
  IN  process_row_4ch_sve2(q, ReplicatedQuads(s, q), lanes \div 2, 16)
Constant4ch_u8_sve2(s, map, lanes) ==
  LET q == constant(s, map) IN process_row_4ch_sve2(q, ConstantQuads(s, q), lanes, 8)
Constant4ch_u16_sve2(s, map, lanes) ==
  LET q == constant(s, map)
  IN  process_row_4ch_sve2(q, ConstantQuads(s, q), lanes \div 2, 16)

\* The class that the border, the number of channels and the type select.
remap_s16point5(s, map, border, bits) ==
  CASE border = "replicate" /\ s.channels = 1 ->
         IF bits = 8 THEN Replicate_u8(s, map) ELSE Replicate_u16(s, map)
    [] border = "constant" /\ s.channels = 1 ->
         IF bits = 8 THEN ConstantBorder_u8(s, map) ELSE ConstantBorder_u16(s, map)
    [] border = "replicate" /\ s.channels = 4 ->
         IF bits = 8 THEN Replicate4ch_u8(s, map) ELSE Replicate4ch_u16(s, map)
    [] border = "constant" /\ s.channels = 4 ->
         IF bits = 8 THEN Constant4ch_u8(s, map) ELSE Constant4ch_u16(s, map)

remap_s16point5_sve2(s, map, border, bits, lanes) ==
  CASE border = "replicate" /\ s.channels = 1 ->
         IF bits = 8 THEN Replicate_u8_sve2(s, map, lanes)
         ELSE Replicate_u16_sve2(s, map, lanes)
    [] border = "constant" /\ s.channels = 1 ->
         IF bits = 8 THEN ConstantBorder_u8_sve2(s, map, lanes)
         ELSE ConstantBorder_u16_sve2(s, map, lanes)
    [] border = "replicate" /\ s.channels = 4 ->
         IF bits = 8 THEN Replicate4ch_u8_sve2(s, map, lanes)
         ELSE Replicate4ch_u16_sve2(s, map, lanes)
    [] border = "constant" /\ s.channels = 4 ->
         IF bits = 8 THEN Constant4ch_u8_sve2(s, map, lanes)
         ELSE Constant4ch_u16_sve2(s, map, lanes)

\* remap_s16 selects by the border alone.
remap_s16(s, map, border) ==
  IF border = "constant" THEN RemapS16ConstantBorder(s, map, 8)
  ELSE RemapS16Replicate(s, map, 8)

remap_s16_sve2(s, map, border, lanes) ==
  IF border = "constant" THEN RemapS16ConstantBorder_sve2(s, map, lanes)
  ELSE RemapS16Replicate_sve2(s, map, lanes)
-----------------------------------------------------------------------------
\* The arithmetic.  Eight-bit pixels: the sums of a row fit 16 bits.
Lerp_u8(a, b, c, d, xf, yf) ==
  LET line0 == Wrap(xf * b + (32 - xf) * a, U16)
      line1 == Wrap(xf * d + (32 - xf) * c, U16)
  IN  (512 + line0 * (32 - yf) + line1 * yf) \div 1024

\* Sixteen-bit pixels: 32 bits throughout, narrowed at the end.
Lerp_u16(a, b, c, d, xf, yf) ==
  LET line0 == xf * b + (32 - xf) * a
      line1 == xf * d + (32 - xf) * c
  IN  Wrap((512 + line0 * (32 - yf) + line1 * yf) \div 1024, U16)
-----------------------------------------------------------------------------
(***************************************************************************)
(* The pixels that remap_f32 and warp_perspective take: transform_neon.h,  *)
(* transform_sve2.h.  A coordinate is [floor, quarter], floor + quarter/4, *)
(* with the floor at the ends of int32_t when it is beyond them.           *)
(***************************************************************************)
S32 == [lo |-> -2147483647 - 1, hi |-> 2147483647]

remap_f32_is_implemented(s, dst_width, border) ==
  /\ dst_width >= 4 /\ s.width > 0 /\ s.height > 0
  /\ border \in {"replicate", "constant"} /\ s.channels \in {1, 2}

\* The bits of the indices of a small image, which stand for 32.
IndexBits == 8
\* s.size is the number of bytes of an element.
is_image_large(s) == s.stride * s.size * s.height >= 2^IndexBits
load_xy(s, x, y) ==
  LET index == x * s.channels + y * s.stride
  IN  IF is_image_large(s) THEN index ELSE index % 2^IndexBits
\* vcvtm and vcvta with an unsigned result: nothing is below zero.
cvtm_u32(z) == IF z.floor < 0 THEN 0 ELSE z.floor
\* Ties are rounded away from zero; beyond int32_t nothing is rounded.
cvta_s32(z) ==
  IF z.floor \in {S32.lo, S32.hi} THEN z.floor
  ELSE IF z.quarter > 2 \/ (z.quarter = 2 /\ z.floor >= 0) THEN z.floor + 1
  ELSE z.floor
cvta_u32(z) == IF cvta_s32(z) < 0 THEN 0 ELSE cvta_s32(z)
\* svcvt of the coordinate plus a half, which truncates.
AddHalf_u32(z) ==
  LET floor == IF z.quarter >= 2 /\ z.floor # S32.hi THEN z.floor + 1 ELSE z.floor
  IN  IF floor < 0 THEN 0 ELSE floor
Least(x, max) == IF x < max THEN x ELSE max
\* An unsigned comparison of a number whose sign bit may be set.
Below(x, max) == x >= 0 /\ x <= max
Successor(x) == IF x = S32.hi THEN S32.lo ELSE x + 1
-----------------------------------------------------------------------------
\* The nearest pixel.
transform_pixels_replicate(s, z) ==
  load_xy(s, Least(cvta_u32(z.x), s.width - 1), Least(cvta_u32(z.y), s.height - 1))

transform_pixels_constant(s, z) ==
  LET x == cvta_s32(z.x)
      y == cvta_s32(z.y)
  IN  IF Below(x, s.width - 1) /\ Below(y, s.height - 1)
      THEN load_xy(s, x, y) ELSE BorderOf(0)

nearest_replicate_sve2(s, z) ==
  load_xy(s, Least(AddHalf_u32(z.x), s.width - 1), Least(AddHalf_u32(z.y), s.height - 1))

get_pixels_or_border(s, x, y) ==
  IF Below(x, s.width - 1) /\ Below(y, s.height - 1)
  THEN load_xy(s, x, y) ELSE BorderOf(0)

nearest_constant_sve2(s, z) == get_pixels_or_border(s, cvta_s32(z.x), cvta_s32(z.y))
-----------------------------------------------------------------------------
\* The four pixels around a place and the quarters that weigh them.
Quad(a, b, c, d, xf, yf) ==
  [a |-> a, b |-> b, c |-> c, d |-> d, xf |-> xf, yf |-> yf]

load_quad_pixels_replicate(s, z) ==
  LET x0 == Least(cvtm_u32(z.x), s.width - 1)
      y0 == Least(cvtm_u32(z.y), s.height - 1)
      x1 == x0 + (IF z.x.floor >= 0 /\ x0 < s.width - 1 THEN 1 ELSE 0)
      y1 == y0 + (IF z.y.floor >= 0 /\ y0 < s.height - 1 THEN 1 ELSE 0)
  IN  Quad(load_xy(s, x0, y0), load_xy(s, x1, y0), load_xy(s, x0, y1),
           load_xy(s, x1, y1), z.x.quarter, z.y.quarter)

load_xy_or_border(s, x, y) ==
  IF Below(x, s.width - 1) /\ Below(y, s.height - 1)
  THEN load_xy(s, x, y) ELSE BorderOf(0)

load_quad_pixels_constant(s, z) ==
  LET x1 == Successor(z.x.floor)
      y1 == Successor(z.y.floor)
  IN  Quad(load_xy_or_border(s, z.x.floor, z.y.floor),
           load_xy_or_border(s, x1, z.y.floor),
           load_xy_or_border(s, z.x.floor, y1), load_xy_or_border(s, x1, y1),
           z.x.quarter, z.y.quarter)

\* SVE2 truncates the smaller of the coordinate and the last one, and makes
\* the fraction zero outside.
calculate_linear_replicated_border(s, z) ==
  LET Inside(v, max) == v.floor >= 0 /\ v.floor < max
      x0 == Least(cvtm_u32(z.x), s.width - 1)
      y0 == Least(cvtm_u32(z.y), s.height - 1)
      x1 == IF Inside(z.x, s.width - 1) THEN x0 + 1 ELSE x0
      y1 == IF Inside(z.y, s.height - 1) THEN y0 + 1 ELSE y0
  IN  Quad(load_xy(s, x0, y0), load_xy(s, x1, y0), load_xy(s, x0, y1),
           load_xy(s, x1, y1),
           IF Inside(z.x, s.width - 1) THEN z.x.quarter ELSE 0,
           IF Inside(z.y, s.height - 1) THEN z.y.quarter ELSE 0)

calculate_linear_constant_border(s, z) ==
  LET x1 == Successor(z.x.floor)
      y1 == Successor(z.y.floor)
  IN  Quad(get_pixels_or_border(s, z.x.floor, z.y.floor),
           get_pixels_or_border(s, x1, z.y.floor),
           get_pixels_or_border(s, z.x.floor, y1), get_pixels_or_border(s, x1, y1),
           z.x.quarter, z.y.quarter)
-----------------------------------------------------------------------------
\* Rows.  Channel c of a pixel, or of the four around a place.
OfChannel(e, c) == IF e < 0 THEN BorderOf(c) ELSE e + c
QuadOfChannel(q, c) ==
  [q EXCEPT !.a = OfChannel(@, c), !.b = OfChannel(@, c),
            !.c = OfChannel(@, c), !.d = OfChannel(@, c)]

\* pixels and quads give what is loaded for each entry of the map.
remap_f32_nearest(s, pixels) ==
  NeonRow(Len(pixels), 4, s.channels, [at \in NeonStarts(Len(pixels), 4) |->
    [e \in 1..4 * s.channels |->
       OfChannel(pixels[at + ((e - 1) \div s.channels) + 1], (e - 1) % s.channels)]])

\* Two channels: the pixels of a half of the vector are widened together and
\* each fraction is doubled.
vector_path_2ch(q, half) ==
  LET xf == [i \in 1..4 |-> q[i].xf]
      yf == [i \in 1..4 |-> q[i].yf]
      Doubled(f) == IF half = 1 THEN zip1(f, f) ELSE zip2(f, f)
      of == IF half = 1 THEN low(q) ELSE high(q)
  IN  [e \in 1..4 |->
         [QuadOfChannel(of[(e - 1) \div 2 + 1], (e - 1) % 2)
            EXCEPT !.xf = Doubled(xf)[e], !.yf = Doubled(yf)[e]]]

remap_f32_linear(s, quads) ==
  NeonRow(Len(quads), 4, s.channels, [at \in NeonStarts(Len(quads), 4) |->
    LET q == [i \in 1..4 |-> quads[at + i]]
    IN  IF s.channels = 1 THEN q ELSE vector_path_2ch(q, 1) \o vector_path_2ch(q, 2)])

\* load_table_2ch spreads the two bytes of a pixel over the two halves of
\* its 32-bit lane.
load_xy_2ch(pixel) ==
  LET bytes == tbl(<<OfChannel(pixel, 0), OfChannel(pixel, 1), 0, 0>>, <<0, 2, 1, 3>>)
  IN  <<bytes[1], bytes[3]>>

remap_f32_nearest_sve2(s, pixels, lanes) ==
  SveRow(Len(pixels), lanes, s.channels, [at \in SveStarts(Len(pixels), lanes) |->
    LET length == Active(Len(pixels), lanes, at)
    IN  IF s.channels = 1 THEN [i \in 1..length |-> pixels[at + i]]
        ELSE Narrow([i \in 1..length |-> load_xy_2ch(pixels[at + i])])])

remap_f32_linear_sve2(s, quads, lanes) ==
  SveRow(Len(quads), lanes, s.channels, [at \in SveStarts(Len(quads), lanes) |->
    LET length == Active(Len(quads), lanes, at)
        Res(c) == [i \in 1..length |-> QuadOfChannel(quads[at + i], c)]
    IN  IF s.channels = 1 THEN [i \in 1..length |-> quads[at + i]]
        ELSE BottomTop(Res(0), Res(1))])

transform_operation(s, map, border, interpolation) ==
  CASE interpolation = "nearest" /\ border = "replicate" ->
         remap_f32_nearest(s, [p \in 1..Len(map) |-> transform_pixels_replicate(s, map[p])])
    [] interpolation = "nearest" /\ border = "constant" ->
         remap_f32_nearest(s, [p \in 1..Len(map) |-> transform_pixels_constant(s, map[p])])
    [] interpolation = "linear" /\ border = "replicate" ->
         remap_f32_linear(s, [p \in 1..Len(map) |-> load_quad_pixels_replicate(s, map[p])])
    [] interpolation = "linear" /\ border = "constant" ->
         remap_f32_linear(s, [p \in 1..Len(map) |-> load_quad_pixels_constant(s, map[p])])

transform_operation_sve2(s, map, border, interpolation, lanes) ==
  CASE interpolation = "nearest" /\ border = "replicate" ->
         remap_f32_nearest_sve2(
           s, [p \in 1..Len(map) |-> nearest_replicate_sve2(s, map[p])], lanes)
    [] interpolation = "nearest" /\ border = "constant" ->
         remap_f32_nearest_sve2(
           s, [p \in 1..Len(map) |-> nearest_constant_sve2(s, map[p])], lanes)
    [] interpolation = "linear" /\ border = "replicate" ->
         remap_f32_linear_sve2(
           s, [p \in 1..Len(map) |-> calculate_linear_replicated_border(s, map[p])], lanes)
    [] interpolation = "linear" /\ border = "constant" ->
         remap_f32_linear_sve2(
           s, [p \in 1..Len(map) |-> calculate_linear_constant_border(s, map[p])], lanes)
-----------------------------------------------------------------------------
\* warp_perspective divides by a weight that is linear in x and y.  A fused
\* multiply-add rounds once; here to a multiple of four.
Fma(a, b, c) == ((a * b + c + 2) \div 4) * 4
perspective_weight_at_x0(t, y) == Fma(t[8], y, t[9])
perspective_weight(t, x, y) == Fma(t[7], x, perspective_weight_at_x0(t, y))

weight_may_be_zero(t, dst_width, y_begin, y_end) ==
  LET corners == {perspective_weight(t, x, y) :
                    x \in {0, dst_width - 1}, y \in {y_begin, y_end - 1}}
  IN  (\E w \in corners : w <= 0) /\ (\E w \in corners : w >= 0)

\* The coordinates of the pixel in column x: the weight divided by, and
\* whether a zero is replaced.
calculate_coordinates(t, tw0, x, check_zero_divisor) ==
  [x |-> x, tw |-> Fma(t[7], x, tw0), checked |-> check_zero_divisor]

\* A row of a stripe, on NEON and on SVE2.
process_rows(t, dst_width, y_begin, y_end, y) ==
  LET tw0 == perspective_weight_at_x0(t, y)
      check == weight_may_be_zero(t, dst_width, y_begin, y_end)
  IN  NeonRow(dst_width, 4, 1, [at \in NeonStarts(dst_width, 4) |->
        [i \in 1..4 |-> calculate_coordinates(t, tw0, at + i - 1, check)]])

process_rows_sve2(t, dst_width, y_begin, y_end, y, lanes) ==
  LET tw0 == perspective_weight_at_x0(t, y)
      check == weight_may_be_zero(t, dst_width, y_begin, y_end)
  IN  SveRow(dst_width, lanes, 1, [at \in SveStarts(dst_width, lanes) |->
        [i \in 1..Active(dst_width, lanes, at) |->
           calculate_coordinates(t, tw0, at + i - 1, check)]])
=============================================================================
