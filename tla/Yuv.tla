-------------------------------- MODULE Yuv ---------------------------------
(***************************************************************************)
(* RGB to YUV 4:2:0, 4:2:2 and 4:4:4 and back (kleidicv/src/conversions,   *)
(* the files rgb_to_yuv* and yuv*_to_rgb): the fixed-point arithmetic of   *)
(* one pixel, what each code path computes for the lanes of a vector, the  *)
(* order of the lanes in a block of pixels, which chroma samples a pixel   *)
(* is given, and where the rows of the luma and chroma planes begin.       *)
(* Channels are 1 = R, 2 = G, 3 = B.                                       *)
(***************************************************************************)
EXTENDS Lanes, FiniteSets, TLC

Min2(a, b) == IF a < b THEN a ELSE b

kWeightScale == 20
kHalfShift == 2^(kWeightScale - 1)
Y_Weights == <<269484, 528482, 102760>>
U_Weights == <<-155188, -305135, 460324>>
V_Weights == <<460324, -385875, -74448>>

Weighted(w, p, offset) ==
  w[1] * p[1] + w[2] * p[2] + w[3] * p[3] + kHalfShift
    + offset * 2^kWeightScale

\* scalar_path: shift, then clamp.
rgb_to_y(p) == Saturate(Weighted(Y_Weights, p, 16) \div 2^kWeightScale, U8)
rgb_to_uv(p, w) == Saturate(Weighted(w, p, 128) \div 2^kWeightScale, U8)

\* normalize_and_pack_y and _u_or_v: narrow to 16 bits after a shift by
\* kWeightScale - 8, and keep the high byte.  Nothing saturates.
HighByte(sum) == ((sum \div 2^(kWeightScale - 8)) % 2^16) \div 2^8
rgb_to_y_vector(p) == HighByte(Weighted(Y_Weights, p, 16))
compute_u_or_v_2x(p, w) == HighByte(Weighted(w, p, 128))

\* compute_u_or_v_2x of the sc class keeps the high half of each word first.
compute_u_or_v_sc(p, w) ==
  LET half == Wrap(Weighted(w, p, 128) \div 2^16, S16)
  IN  (half \div 2^(kWeightScale - 16)) % 2^8

-----------------------------------------------------------------------------
(***************************************************************************)
(* Lanes.  The pixels of a block are numbers; a 16-bit lane is the pair of *)
(* its bytes, <<x, "lo">> and <<x, "hi">>, of which only "hi" is right.    *)
(***************************************************************************)
Bytes(s) == [i \in 1..2 * Len(s) |->
               <<s[(i + 1) \div 2], IF i % 2 = 1 THEN "lo" ELSE "hi">>]
Hi(s) == [i \in 1..Len(s) |-> <<s[i], "hi">>]

\* load_rgb_2x: the tables split a register into even and odd pixels.
LoadIndices == <<<<0, 2, 4, 6>>, <<1, 3, 5, 7>>, <<8, 10, 12, 14>>,
                 <<9, 11, 13, 15>>>>
load_rgb(block) == [i \in 1..4 |-> tbl(block, LoadIndices[i])]

normalize_and_pack_y(vec) ==
  LET y_index == <<1, 17, 3, 19, 5, 21, 7, 23, 9, 25, 11, 27, 13, 29, 15, 31>>
  IN  tbl(Bytes(vec[1] \o vec[3]) \o Bytes(vec[2] \o vec[4]), y_index)

normalize_and_pack_u_or_v(vec) ==
  LET uv_index == [i \in 1..16 |-> 2 * i - 1]
  IN  tbl(Bytes(vec[1] \o vec[2]) \o Bytes(vec[3] \o vec[4]), uv_index)

\* The luma of a block of 16 pixels, and the chroma of two blocks.
PackedLuma(block) == normalize_and_pack_y(load_rgb(block))
PackedChroma(block0, block1) ==
  LET r0 == load_rgb(block0)
      r1 == load_rgb(block1)
  IN  normalize_and_pack_u_or_v(<<r0[1], r0[3], r1[1], r1[3]>>)

\* svunpklo and svunpkhi take the two halves of the even and the odd lanes.
load_rgb_sc(block) ==
  <<low(movlb(block)), high(movlb(block)), low(movlt(block)),
    high(movlt(block))>>
Interleave(b, t) == zip1(b, t) \o zip2(b, t)
PackedLuma_sc(block) ==
  LET r == load_rgb_sc(block)
  IN  uzp2(Bytes(Interleave(r[1], r[3])), Bytes(Interleave(r[2], r[4])))
PackedChroma_2x_sc(block0, block1) ==
  LET r0 == load_rgb_sc(block0)
      r1 == load_rgb_sc(block1)
  IN  r0[1] \o r0[2] \o r1[1] \o r1[2]
\* The chroma of one block fills half a register; the other half repeats it.
PackedChroma_sc(block) ==
  LET r == load_rgb_sc(block)
  IN  r[1] \o r[2] \o r[1] \o r[2]

-----------------------------------------------------------------------------
(***************************************************************************)
(* Rows.  A stripe converts the pairs of rows begin .. end - 1; the chroma *)
(* of an even row goes to row h / 2 of the chroma planes.  An address is   *)
(* the pair of a row and a column of the chroma area.                      *)
(***************************************************************************)
StripeRows(begin, end, height) == 2 * begin..Min2(height, 2 * end) - 1

StripeCount(height) == (height + 1) \div 2
ChromaWidth(width) == (width + 1) \div 2

\* Two planar chroma rows share one row of the destination; the V plane
\* begins where the U plane ends, possibly in the middle of a row.
u_row(h, width) ==
  <<h \div 4, ((h \div 2) % 2) * ChromaWidth(width)>>
v_row(h, width, height) ==
  <<(h + height + 1) \div 4,
    (((h + height + 1) \div 2) % 2) * ChromaWidth(width)>>

\* The stores of one plane of a chroma row, by column: the pixel each value
\* comes from.  Two vectors of n pixels give one vector of chroma.
Block(index, n) == [i \in 1..n |-> index + i - 1]
ChromaStores_neon(width, n) ==
  [c \in 0..ChromaWidth(width) - 1 |->
     LET index == 2 * n * (c \div n)
     IN  IF index + 2 * n <= width
           THEN PackedChroma(Block(index, n), Block(index + n, n))[(c % n) + 1]
           ELSE <<2 * c, "hi">>]

\* What is left of a row after the unrolled loop takes up to two vectors.
\* The predicate of the first one is not limited to the half register that
\* is meaningful: the next vector replaces what it stored too much.
Remaining_sc(width, n, index) ==
  LET first == (index + 1) \div 2
      active == Min2(n, ChromaWidth(width) - first)
  IN  [c \in first..first + active - 1 |->
         PackedChroma_sc(Block(index, n))[c - first + 1]]

ChromaStores_sc(width, n) ==
  LET full == (width \div (2 * n)) * (2 * n)
      unrolled == [c \in 0..full \div 2 - 1 |->
                     LET index == 2 * n * (c \div n)
                     IN  PackedChroma_2x_sc(Block(index, n),
                           Block(index + n, n))[(c % n) + 1]]
      first == IF width > full THEN Remaining_sc(width, n, full) ELSE <<>>
      second == IF width > full + n THEN Remaining_sc(width, n, full + n)
                ELSE <<>>
  IN  second @@ first @@ unrolled

-----------------------------------------------------------------------------
(***************************************************************************)
(* YUV 4:2:2 in four bytes for two pixels, with weights of 14 bits.        *)
(***************************************************************************)
kWeightScale422 == 14
Y422_Weights == <<4211, 8258, 1606>>
U422_Weights == <<-1212, -2384, 3596>>
V422_Weights == <<3596, -3015, -582>>
y_base == 2^(kWeightScale422 - 1) + 16 * 2^kWeightScale422
uv_bias == 2^(kWeightScale422 - 1) + 256 * 2^(kWeightScale422 - 1)

Dot(w, p) == w[1] * p[1] + w[2] * p[2] + w[3] * p[3]
Sum(p, q) == [c \in 1..3 |-> p[c] + q[c]]

compute_y(p) == Saturate((Dot(Y422_Weights, p) + y_base) \div 2^kWeightScale422,
                         U8)
compute_uv(p, q, w) ==
  Saturate((Dot(w, Sum(p, q)) + uv_bias) \div 2^kWeightScale422, U8)
\* The pair of pixels p, q as <<luma of p, luma of q, u, v>>, on the scalar
\* path and on the vector paths: those keep the low byte of 16 bits, after a
\* saturating shift (NEON) or a truncating one (SVE2, SME).
rgb_to_yuv422_scalar(p, q) ==
  <<compute_y(p), compute_y(q), compute_uv(p, q, U422_Weights),
    compute_uv(p, q, V422_Weights)>>
compute_weighted_channel_422(sum) ==
  Saturate(sum \div 2^kWeightScale422, U16) % 256
compute_weighted_channel_422_sc(sum) ==
  Wrap(sum \div 2^kWeightScale422, U16) % 256
rgb_to_yuv422(p, q, sc) ==
  LET sums == <<Dot(Y422_Weights, p) + y_base, Dot(Y422_Weights, q) + y_base,
                Dot(U422_Weights, Sum(p, q)) + uv_bias,
                Dot(V422_Weights, Sum(p, q)) + uv_bias>>
  IN  [k \in 1..4 |-> IF sc THEN compute_weighted_channel_422_sc(sums[k])
                             ELSE compute_weighted_channel_422(sums[k])]

\* Lanes: the even and the odd pixels of two registers, in halves, packed.
index_even == <<0, 2, 4, 6, 8, 10, 12, 14>>
index_odd == <<1, 3, 5, 7, 9, 11, 13, 15>>
PackedEven422(r0, r1) ==
  LET e0 == tbl(r0, index_even)
      e1 == tbl(r1, index_even)
  IN  low(e0) \o high(e0) \o low(e1) \o high(e1)
PackedOdd422(r0, r1) ==
  LET o0 == tbl(r0, index_odd)
      o1 == tbl(r1, index_odd)
  IN  low(o0) \o high(o0) \o low(o1) \o high(o1)
Packed422_sc(r0, r1, even) ==
  LET mov(r) == IF even THEN movlb(r) ELSE movlt(r)
  IN  BottomTop(movlb(mov(r0)), movlt(mov(r0)))
        \o BottomTop(movlb(mov(r1)), movlt(mov(r1)))

\* The pairs a remaining path of SVE2 loads and stores: the predicates of the
\* two loads count pixels, the one of the store counts pairs.
RemainingPairs422_sc(length, n) ==
  LET loaded == {i \in 0..2 * n - 1 : i < length}
      stored == {k \in 0..n - 1 : k < length \div 2}
  IN  [loaded |-> loaded, stored |-> stored]

-----------------------------------------------------------------------------
(***************************************************************************)
(* YUV 4:4:4.  Chroma is computed from the rounded luma.                   *)
(***************************************************************************)
Y444_Weights == <<4899, 9617, 1868>>
kRVWeight == 14369
kBUWeight == 8061
half_ == 128 * 2^14

rgb_to_yuv444_scalar(p) ==
  LET y == RoundingShift(Dot(Y444_Weights, p), 14)
      u == RoundingShift((p[3] - y) * kBUWeight + half_, 14)
      v == RoundingShift((p[1] - y) * kRVWeight + half_, 14)
  IN  <<Saturate(y, U8), Saturate(u, U8), Saturate(v, U8)>>
\* combine_scaled_s16 truncates to 16 bits on NEON and saturates on SVE2.
rgb_to_yuv444_vector(p) ==
  LET y == Wrap(RoundingShift(Dot(Y444_Weights, p), 14), S16)
      u == Wrap(RoundingShift(Saturate(p[3] - y, S16) * kBUWeight + half_, 14),
                S16)
      v == Wrap(RoundingShift(Saturate(p[1] - y, S16) * kRVWeight + half_, 14),
                S16)
  IN  <<Saturate(y, U8), Saturate(u, U8), Saturate(v, U8)>>
vector_calculation_path(p) ==
  LET y == Saturate(RoundingShift(Dot(Y444_Weights, p), 14), S16)
      u == Saturate(RoundingShift(Wrap(p[3] - y, S16) * kBUWeight + half_, 14),
                    S16)
      v == Saturate(RoundingShift(Wrap(p[1] - y, S16) * kRVWeight + half_, 14),
                    S16)
  IN  <<Saturate(y, U8), Saturate(u, U8), Saturate(v, U8)>>

\* Four registers of RGBA pixels, deinterleaved: the pixels of channel c.
DeinterleaveRGBA(mem) ==
  LET r(k) == Register(mem, k, 16)
      rb_l == uzp1(r(0), r(1))
      rb_h == uzp1(r(2), r(3))
      ga_l == uzp2(r(0), r(1))
      ga_h == uzp2(r(2), r(3))
  IN  <<movlb(rb_l) \o movlb(rb_h), movlb(ga_l) \o movlb(ga_h),
        movlt(rb_l) \o movlt(rb_h)>>
\* On SVE2 a table of two registers widens to 16 bits: the high byte of
\* every index is 255, which is meant to lie outside the table; two registers of
\* 128 bytes have an element 255.  A lane is the pair of its low and its high
\* byte.
Widened(s) == [i \in DOMAIN s |-> <<s[i], 0>>]

DeinterleaveRGBA_sc(mem, n) ==
  LET r(k) == Register(mem, k, n)
      rb == <<uzp1(r(0), r(1)), uzp1(r(2), r(3))>>
      ga == <<uzp2(r(0), r(1)), uzp2(r(2), r(3))>>
      index16(k) == [i \in 1..n \div 2 |-> (2^16 - 2^8 + k + 4 * (i - 1)) % 2^16]
      tbl2(pair, index) == tbl(pair[1] \o pair[2], index)
      lookup(pair, k) ==
        LET lows == tbl2(pair, [i \in 1..n \div 2 |-> index16(k)[i] % 2^8])
            highs == tbl2(pair, [i \in 1..n \div 2 |-> index16(k)[i] \div 2^8])
        IN  [i \in 1..n \div 2 |-> <<lows[i], highs[i]>>]
      both(pair, k) == BottomTop(lookup(pair, k), lookup(pair, k + 2))
  IN  IF n >= 256
        THEN <<Widened(uzp1(rb[1], rb[2])), Widened(uzp1(ga[1], ga[2])),
               Widened(uzp2(rb[1], rb[2]))>>
        ELSE <<both(rb, 0), both(ga, 0), both(rb, 1)>>
-----------------------------------------------------------------------------
(* YUV to RGB. *)
\* A load of n lanes of which `active` are loaded, the others being zero.
LoadActive(row, index, n, active) ==
  [i \in 1..n |-> IF i <= active THEN row[index + i - 1] ELSE 0]
Load(row, index, n) == LoadActive(row, index, n, n)
\* The 16-bit halves of 32-bit lanes and the bytes of 16-bit lanes.
Halves(s) == [i \in 1..2 * Len(s) |->
                IF i % 2 = 1 THEN Wrap(s[(i + 1) \div 2], S16)
                             ELSE Wrap(s[i \div 2] \div 2^16, S16)]
BytesU16(s) == [i \in 1..2 * Len(s) |->
                  IF i % 2 = 1 THEN s[(i + 1) \div 2] % 2^8
                               ELSE s[i \div 2] \div 2^8]
EachLane(f(_), s) == [i \in DOMAIN s |-> f(s[i])]
Plus(a, b) == [i \in DOMAIN a |-> Wrap(a[i] + b[i], S16)]
qmovun(s) == [i \in DOMAIN s |-> Saturate(s[i], U8)]

-----------------------------------------------------------------------------
(***************************************************************************)
(* 4:4:4, with weights of 14 bits.  The vectors shift chroma left by two,  *)
(* so that the high half of a product is the result.                       *)
(***************************************************************************)
U444 == <<0, -6472, 33292>>
V444 == <<18678, -9519, 0>>

\* Mutant: the vectors do not round.
Delta4_NoRounding(c) == -128 * (U444[c] + V444[c]) * 4

Delta4(c) == (-128 * (U444[c] + V444[c]) + 2^13) * 4

scalar_path_444(c, y, u, v) ==
  Saturate(y + RoundingShift((u - 128) * U444[c] + (v - 128) * V444[c], 14), U8)

Products444(c, u, v) ==
  [i \in DOMAIN u |-> 4 * u[i] * U444[c] + 4 * v[i] * V444[c] + Delta4(c)]
vector_path_444(c, y, u, v) ==
  LET part(h(_)) ==
        LET sums == Products444(c, h(u), h(v))
        IN  qmovun(Plus(h(y), uzp2(Halves(low(sums)), Halves(high(sums)))))
  IN  part(low) \o part(high)
vector_path_444_sc(c, y, u, v) ==
  LET part(h(_)) ==
        LET sums == Products444(c, h(u), h(v))
        IN  qmovun(Plus(h(y), trn2(Halves(movlb(sums)), Halves(movlt(sums)))))
  IN  BottomTop(part(movlb), part(movlt))

-----------------------------------------------------------------------------
(***************************************************************************)
(* 4:2:0 and 4:2:2, with weights of 20 bits.                               *)
(***************************************************************************)
kYWeight == 1220542
UWeights == <<0, -409993, 2116026>>
VWeights == <<1673527, -852492, 0>>
Base(c) == 2^19 - 128 * (UWeights[c] + VWeights[c])
\* vmla of a base, and the luma; vqsub has taken 16 from it.
Sums(c, y, u, v) ==
  [i \in DOMAIN y |-> Base(c) + UWeights[c] * u[i] + VWeights[c] * v[i]
                        + kYWeight * Saturate(y[i] - 16, U8)]

yuv420x_to_rgb_scalar(c, y, u, v) ==
  Saturate(RoundingShift(kYWeight * (IF y > 16 THEN y - 16 ELSE 0)
             + UWeights[c] * (u - 128) + VWeights[c] * (v - 128), 20), U8)

kDeInterleaveTableIndices ==
  <<<<0, 2, 4, 6>>, <<8, 10, 12, 14>>, <<1, 3, 5, 7>>, <<9, 11, 13, 15>>>>
DeInterleave(s) == [k \in 1..4 |-> tbl(s, kDeInterleaveTableIndices[k])]
combine_scaled_s16(a, b) ==
  LET shift(x) == Wrap(x \div 2^20, S16) IN EachLane(shift, a \o b)

\* Sixteen luma samples, and eight chroma samples in two registers.
yuv420x_to_rgb(c, y, u_l, u_h, v_l, v_h) ==
  LET luma == DeInterleave(y)
      even == combine_scaled_s16(Sums(c, luma[1], u_l, v_l),
                                 Sums(c, luma[2], u_h, v_h))
      odd == combine_scaled_s16(Sums(c, luma[3], u_l, v_l),
                                Sums(c, luma[4], u_h, v_h))
  IN  zip1(qmovun(even), qmovun(odd)) \o zip2(qmovun(even), qmovun(odd))

\* svaddhnb and svaddhnt keep the high half, svsra the bits above the scale.
HighScaled(s) ==
  LET shift(x) == Wrap(x \div 2^16, S16) \div 2^4 IN EachLane(shift, s)
yuv420x_to_rgb_sc(c, y, u, v) ==
  LET part(luma) ==
        BottomTop(HighScaled(Sums(c, movlb(luma), movlb(u), movlb(v))),
                  HighScaled(Sums(c, movlt(luma), movlt(u), movlt(v))))
  IN  BottomTop(qmovun(part(movlb(y))), qmovun(part(movlt(y))))

-----------------------------------------------------------------------------
(***************************************************************************)
(* A row of width pixels: y, u and v are its samples, uv the interleaved   *)
(* chroma.  A row function gives the channel c of every pixel.             *)
(***************************************************************************)
QuarterOf(s, k) == SubSeq(s, 4 * k - 3, 4 * k)

\* Planar, NEON: two vectors of luma use one of u and one of v.
YUVpToRGB_vector_path(c, y0, y2, u, v) ==
  yuv420x_to_rgb(c, y0, QuarterOf(u, 1), QuarterOf(u, 2), QuarterOf(v, 1),
                 QuarterOf(v, 2))
    \o yuv420x_to_rgb(c, y2, QuarterOf(u, 3), QuarterOf(u, 4),
                      QuarterOf(v, 3), QuarterOf(v, 4))

\* The scalar path takes the next sample at every other pixel it is given.
YUVpToRGB_scalar_path(c, p, index, y, u, v) ==
  LET k == index \div 2 + (p - index) \div 2
  IN  yuv420x_to_rgb_scalar(c, y[p], u[k], v[k])
YUVpToRGB_row(c, width, y, u, v) ==
  LET vectors == (width \div 32) * 32
  IN  [p \in 0..width - 1 |->
         LET index == (p \div 32) * 32
         IN  IF p < vectors
               THEN YUVpToRGB_vector_path(c, Load(y, index, 16),
                      Load(y, index + 16, 16), Load(u, index \div 2, 16),
                      Load(v, index \div 2, 16))[p - index + 1]
               ELSE YUVpToRGB_scalar_path(c, p, vectors, y, u, v)]

\* Planar, SVE2: two vectors, one vector, and what remains.
YUVpToRGB_row_sc(c, width, y, u, v, n) ==
  LET twice == (width \div (2 * n)) * 2 * n
      once == (width \div n) * n
      pixels(index, luma, chroma, part(_)) ==
        yuv420x_to_rgb_sc(c, LoadActive(y, index, n, luma),
          part(LoadActive(u, chroma[1], n, chroma[2])),
          part(LoadActive(v, chroma[1], n, chroma[2])))
  IN  [p \in 0..width - 1 |->
         LET first == (p \div (2 * n)) * 2 * n
             index == (p \div n) * n
         IN  IF p < twice
               THEN IF p < first + n
                      THEN pixels(first, n, <<first \div 2, n>>, low)[p - first + 1]
                      ELSE pixels(first + n, n, <<first \div 2, n>>,
                                  high)[p - first - n + 1]
               ELSE IF p < once
                 THEN pixels(index, n, <<index \div 2, n \div 2>>,
                             low)[p - index + 1]
                 ELSE pixels(index, width - index,
                        <<index \div 2,
                          (width + 1) \div 2 - (index + 1) \div 2>>,
                        low)[p - index + 1]]

\* Semi-planar, NEON: a vector of uv for one of luma.  When the row is not
\* a multiple of a vector the last vector begins before the end of the
\* previous one, in the luma and in the chroma row alike; in a row of odd width
\* that is in the middle of a pair.
YUVSpToRGB_vector_path(c, y, uv) ==
  LET chroma == DeInterleave(uv)
  IN  yuv420x_to_rgb(c, y, chroma[1], chroma[2], chroma[3], chroma[4])
YUVSpToRGB_scalar_path(c, p, y, uv) ==
  yuv420x_to_rgb_scalar(c, y[p], uv[2 * (p \div 2)], uv[2 * (p \div 2) + 1])
YUVSpToRGB_row(c, width, y, uv) ==
  LET vectors == (width \div 16) * 16
      pixels(index) == YUVSpToRGB_vector_path(c, Load(y, index, 16),
                                              Load(uv, index, 16))
  IN  [p \in 0..width - 1 |->
         IF width < 16 THEN YUVSpToRGB_scalar_path(c, p, y, uv)
         ELSE IF p < vectors /\ (vectors = width \/ p < width - 16)
           THEN pixels((p \div 16) * 16)[(p % 16) + 1]
           ELSE pixels(width - 16)[p - (width - 16) + 1]]
\* SVE2: one predicate for the luma and the chroma row, which ends before the
\* last v when the width is odd.
YUVSpToRGB_row_sc(c, width, y, uv, n) ==
  [p \in 0..width - 1 |->
     LET index == (p \div n) * n
         active == IF width - index < n THEN width - index ELSE n
         chroma == LoadActive(uv, index, n, active)
     IN  yuv420x_to_rgb_sc(c, LoadActive(y, index, n, active), movlb(chroma),
                           movlt(chroma))[p - index + 1]]

-----------------------------------------------------------------------------
(***************************************************************************)
(* 4:2:2: a vector each of even luma, odd luma, u and v gives two vectors  *)
(* of pixels.                                                              *)
(***************************************************************************)
yuv422_to_rgb_scalar(c, y, u, v) ==
  Saturate((kYWeight * (IF y > 16 THEN y - 16 ELSE 0) + UWeights[c] * (u - 128)
              + VWeights[c] * (v - 128) + 2^19) \div 2^20, U8)

normalize_and_pack_422(vec_0, vec_1, vec_2, vec_3) ==
  LET shift(x) == Saturate(x \div 2^12, U16)
  IN  trn2(BytesU16(EachLane(shift, vec_0 \o vec_1)),
           BytesU16(EachLane(shift, vec_2 \o vec_3)))
yuv422_to_rgb(c, y_even, y_odd, u, v) ==
  LET sums(y, k) == Sums(c, QuarterOf(y, k), QuarterOf(u, k), QuarterOf(v, k))
  IN  normalize_and_pack_422(sums(y_even, 1), sums(y_even, 2), sums(y_odd, 1),
                             sums(y_odd, 2))
        \o normalize_and_pack_422(sums(y_even, 3), sums(y_even, 4),
                                  sums(y_odd, 3), sums(y_odd, 4))

\* index0 .. index3, or, when an index of eight bits would reach the bytes
\* that have to be zero, svmovl and svunpk.
Widen422(s) ==
  LET n == Len(s)
      index(first) == [i \in 1..n \div 4 |-> (first + 2 * (i - 1)) % 2^8]
  IN  IF n >= 256
        THEN [lo_lo |-> low(movlb(s)), lo_hi |-> low(movlt(s)),
              hi_lo |-> high(movlb(s)), hi_hi |-> high(movlt(s))]
        ELSE [lo_lo |-> tbl(s, index(0)), lo_hi |-> tbl(s, index(1)),
              hi_lo |-> tbl(s, index(n \div 2)),
              hi_hi |-> tbl(s, index(n \div 2 + 1))]
yuv422_to_rgb_sc(c, y_even, y_odd, u, v) ==
  LET wu == Widen422(u)
      wv == Widen422(v)
      half(y, lo, hi) ==
        LET wy == Widen422(y)
        IN  BottomTop(HighScaled(Sums(c, wy[lo], wu[lo], wv[lo])),
                      HighScaled(Sums(c, wy[hi], wu[hi], wv[hi])))
      out(lo, hi) == BottomTop(qmovun(half(y_even, lo, hi)),
                               qmovun(half(y_odd, lo, hi)))
  IN  out("lo_lo", "lo_hi") \o out("hi_lo", "hi_hi")

\* The remaining path of SVE2: pairs loaded, pixels stored from each vector.
Remaining422_sc(index, length, n) ==
  [loaded |-> {k \in 0..n - 1 : k < (length - index) \div 2},
   stored |-> {p \in 0..n - 1 : index + p < length}
                \cup {n + p : p \in {q \in 0..n - 1 : index + n + q < length}}]

-----------------------------------------------------------------------------
(***************************************************************************)
(* Where the rows of the planar chroma planes begin, as offsets from the   *)
(* end of the luma plane.  Two rows of width / 2 samples share one of      *)
(* stride bytes, so that the steps alternate; V begins where U ends.  It   *)
(* then begins with the step of a second half for heights of 2 modulo 4,   *)
(* and not for those of 3, where it begins with a second half as well.     *)
(***************************************************************************)
uv_strides(width, stride) == <<width \div 2, stride - width \div 2>>
v_begin(width, height, stride) ==
  stride * (height \div 4) + (width \div 2) * ((height % 4) \div 2)

v_index(height) == IF height % 4 = 2 THEN 1 ELSE 0

\* Mutant: a stripe that begins with an odd pair steps as an even one does.
ChromaRows_OddBegin(start, index, width, stride, begin, end) ==
  LET steps == uv_strides(width, stride)
      row[k \in begin..end] ==
        IF k = begin
          THEN start + (begin \div 2) * stride
                 + (IF begin % 2 = 1 THEN steps[index + 1] ELSE 0)
          ELSE row[k - 1] + steps[((index + k - 1 - begin) % 2) + 1]
  IN  [k \in begin..end - 1 |-> row[k]]

\* yuv2rgbx_operation of a stripe: the offset for each pair of rows.
ChromaRows(start, index, width, stride, begin, end) ==
  LET steps == uv_strides(width, stride)
      odd == begin % 2
      row[k \in begin..end] ==
        IF k = begin
          THEN start + (begin \div 2) * stride
                 + (IF odd = 1 THEN steps[index + 1] ELSE 0)
          ELSE row[k - 1] + steps[((index + odd + k - 1 - begin) % 2) + 1]
  IN  [k \in begin..end - 1 |-> row[k]]
yuv2rgbx_operation(width, height, stride, begin, end) ==
  [u |-> ChromaRows(0, 0, width, stride, begin, end),
   v |-> ChromaRows(v_begin(width, height, stride), v_index(height), width,
                    stride, begin, end)]
=============================================================================
