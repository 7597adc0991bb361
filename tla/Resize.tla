------------------------------- MODULE Resize -------------------------------
(***************************************************************************)
(* Enlarging an image by 2, 4 or 8 (kleidicv/src/resize/resize_linear_neon *)
(* and _sc), in the stripes kleidicv_thread_resize_linear hands to its     *)
(* threads.                                                                *)
(*                                                                         *)
(* A destination pixel is the set of <<row, column, weight>> of the source *)
(* pixels it is interpolated from, so that a wrong coefficient, a pixel    *)
(* taken from the wrong row and a pixel never stored all show.  Weights    *)
(* are integers over Unit(k); how a float is rounded is left out.          *)
(***************************************************************************)
EXTENDS Integers, Sequences
LOCAL INSTANCE Lanes

CONSTANTS
  Kernels,     \* records [factor, type, backend, lanes]
  Sizes,       \* <<src_width, src_height>>
  Cuts         \* where batches may begin, besides row 0

VARIABLES
  kernel, src_width, src_height,
  stripes,     \* stripe -> its rows [y_begin, y_end) and the row it is at
  dst,         \* row -> its pixels and its padding, named after its first row
  writers      \* row -> the stripes that stored to it

vars == <<kernel, src_width, src_height, stripes, dst, writers>>

k == kernel.factor
Half_k == k \div 2
Rows == 0..src_height * k - 1
Columns == 0..src_width * k - 1
-----------------------------------------------------------------------------
(* Interpolation coefficients.  A vector of four weights stands for a sum  *)
(* of the pixels a, b of the upper and c, d of the lower source row.       *)
W(p, q, r, s) == <<p, q, r, s>>
a == W(1, 0, 0, 0)
b == W(0, 1, 0, 0)
c == W(0, 0, 1, 0)
d == W(0, 0, 0, 1)
lerp1d(p, u, q, v) == [i \in 1..4 |-> p * u[i] + q * v[i]]
lerp2d(p, u, q, v, r, w, s, x) ==
  [i \in 1..4 |-> p * u[i] + q * v[i] + r * w[i] + s * x[i]]
lerp2d_vector_p_q_q_1(p, q, u, v, w, x) ==
  [i \in 1..4 |-> p * u[i] + q * (v[i] + w[i]) + x[i]]
lerp2d_vector_p_q_q_r(p, q, r, u, v, w, x) ==
  [i \in 1..4 |-> p * u[i] + q * (v[i] + w[i]) + r * x[i]]

\* Weights of the vertical edges and the edge rows, over 2 * factor.
Near(f, i) == 2 * f - 1 - 2 * i

\* The rows of dst pixels between four source pixels, over (2 * factor)^2.
Block2x2 ==
  LET lerp(u, v, w, x) == lerp2d_vector_p_q_q_1(9, 3, u, v, w, x)
  IN  <<<<lerp(a, b, c, d), lerp(b, a, d, c)>>,
        <<lerp(c, a, d, b), lerp(d, b, c, a)>>>>

Block4x4_scalar ==
  <<<<W(49, 7, 7, 1), W(35, 21, 5, 3), W(21, 35, 3, 5), W(7, 49, 1, 7)>>,
    <<W(35, 5, 21, 3), W(25, 15, 15, 9), W(15, 25, 9, 15), W(5, 35, 3, 21)>>,
    <<W(21, 3, 35, 5), W(15, 9, 25, 15), W(9, 15, 15, 25), W(3, 21, 5, 35)>>,
    <<W(7, 1, 49, 7), W(5, 3, 35, 21), W(3, 5, 21, 35), W(1, 7, 7, 49)>>>>

Block4x4_vector ==
  LET lerp2d_49(u, v, w, x) == lerp2d_vector_p_q_q_1(49, 7, u, v, w, x)
      lerp2d_25(u, v, w, x) == lerp2d_vector_p_q_q_r(25, 15, 9, u, v, w, x)
  IN  <<<<lerp2d_49(a, b, c, d), W(35, 21, 5, 3),
          W(21, 35, 3, 5), lerp2d_49(b, a, d, c)>>,
        <<W(35, 5, 21, 3), lerp2d_25(a, b, c, d),
          lerp2d_25(b, a, d, c), W(5, 35, 3, 21)>>,
        <<W(21, 3, 35, 5), lerp2d_25(c, a, d, b),
          lerp2d_25(d, b, c, a), W(3, 21, 5, 35)>>,
        <<lerp2d_49(c, a, d, b), W(5, 3, 35, 21),
          W(3, 5, 21, 35), lerp2d_49(d, b, c, a)>>>>

Block4x4_sc ==
  [Block4x4_scalar EXCEPT
     ![1][4] = lerp2d(49, b, 7, a, 7, d, 1, c),
     ![4] = <<lerp2d(49, c, 7, a, 7, d, 1, b), @[2], @[3],
              lerp2d(49, d, 7, b, 7, c, 1, a)>>]

\* The rows between the first and the last are interpolated from those two.
Between(first, last, n) ==
  [i \in 1..n |->
     [j \in 1..n |-> lerp1d(n - i, first[j], i - 1, last[j])]]

Block4x4_f32_vector == Between(Block4x4_scalar[1], Block4x4_scalar[4], 4)

Block8x8 ==
  LET coeffs_a == [j \in 1..8 |-> 17 - 2 * j]
      coeffs_b == [j \in 1..8 |-> 2 * j - 1]
      dst_0 == [j \in 1..8 |-> W(15 * coeffs_a[j], 15 * coeffs_b[j],
                                 coeffs_a[j], coeffs_b[j])]
      dst_7 == [j \in 1..8 |-> W(coeffs_a[j], coeffs_b[j],
                                 15 * coeffs_a[j], 15 * coeffs_b[j])]
  IN  Between(dst_0, dst_7, 8)

\* The units of the weights: n - 1 times what Between was given.
Unit(f) == 4 * f * f * (CASE f = 2 -> 1 [] f = 4 -> 3 [] f = 8 -> 7)
Times(n, block) == [i \in DOMAIN block |->
                      [j \in DOMAIN block |-> lerp1d(n, block[i][j], 0, a)]]
-----------------------------------------------------------------------------
\* Do the source pixels from src_x on still take a vector?
InVectorLoop(src_x) ==
  (src_x - (src_x % kernel.lanes)) + kernel.lanes < src_width

\* The kernels: the block of a pixel in the vector loop and after it (NEON
\* ends a row with single pixels, SVE with a predicated vector), and whether
\* an edge row is copied with memcpy(..., dst_stride), padding included.
Class(vector, tail, copies) ==
  [vector |-> vector, tail |-> tail, copies_stride |-> copies]

kleidicv_resize_2x2_stripe_u8 == Class(Block2x2, Block2x2, FALSE)
kleidicv_resize_4x4_stripe_u8 ==
  Class(Times(3, Block4x4_vector), Times(3, Block4x4_scalar), TRUE)
resize_2x2_f32 == Class(Block2x2, Block2x2, FALSE)
resize_4x4_f32 ==
  Class(Block4x4_f32_vector, Times(3, Block4x4_scalar), TRUE)
resize_8x8_f32 == Class(Block8x8, Block8x8, FALSE)
kleidicv_resize_2x2_u8_sc == Class(Block2x2, Block2x2, FALSE)
kleidicv_resize_4x4_u8_sc ==
  Class(Times(3, Block4x4_sc), Times(3, Block4x4_sc), FALSE)
resize_2x2_f32_sc == Class(Block2x2, Block2x2, FALSE)
resize_4x4_f32_sc == Class(Block4x4_f32_vector, Block4x4_f32_vector, FALSE)
resize_8x8_f32_sve128_sc == Class(Block8x8, Block8x8, FALSE)

resize_linear_neon ==
  CASE k = 2 /\ kernel.type = "u8" -> kleidicv_resize_2x2_stripe_u8
    [] k = 4 /\ kernel.type = "u8" -> kleidicv_resize_4x4_stripe_u8
    [] k = 2 /\ kernel.type = "f32" -> resize_2x2_f32
    [] k = 4 /\ kernel.type = "f32" -> resize_4x4_f32
    [] k = 8 -> resize_8x8_f32

resize_linear_sc ==
  CASE k = 2 /\ kernel.type = "u8" -> kleidicv_resize_2x2_u8_sc
    [] k = 4 /\ kernel.type = "u8" -> kleidicv_resize_4x4_u8_sc
    [] k = 2 /\ kernel.type = "f32" -> resize_2x2_f32_sc
    [] k = 4 /\ kernel.type = "f32" -> resize_4x4_f32_sc
    [] k = 8 -> resize_8x8_f32_sve128_sc   \* unless UsesIndices

Kernel == IF kernel.backend = "neon" THEN resize_linear_neon
                                     ELSE resize_linear_sc
Block(src_x) == IF InVectorLoop(src_x) THEN Kernel.vector ELSE Kernel.tail

\* resize_8x8_f32_sve256plus_sc: four vectors of destination pixels from one
\* of source pixels, picked by indices zipped from svindex(first).
indices(first) ==
  LET tmp_2x == [i \in 1..kernel.lanes |-> (i - 1) \div 2 + first]
      lo == zip1(tmp_2x, tmp_2x)
      hi == zip2(tmp_2x, tmp_2x)
  IN  zip1(lo, lo) \o zip2(lo, lo) \o zip1(hi, hi) \o zip2(hi, hi)

coeffs == [i \in 1..kernel.lanes |-> (2 * i - 1) % 16]

\* The source pixel, relative to the vector, and the column of its block
\* that lane i of the four vectors stores.
PickedBy(i) ==
  LET lane == (i % kernel.lanes) + 1
  IN  [left |-> indices(0)[i + 1], right |-> indices(1)[i + 1],
       column |-> (coeffs[lane] + 1) \div 2]

UsesIndices == k = 8 /\ kernel.backend = "sc" /\ kernel.lanes >= 8

\* Weighted pixels; a weight of zero takes no part.
Sum4(y, x0, x1, w) ==
  {t \in {<<y, x0, w[1]>>, <<y, x1, w[2]>>,
          <<y + 1, x0, w[3]>>, <<y + 1, x1, w[4]>>} : t[3] # 0}

\* One pixel of dst row i of the rows below src_y, right of the left edge.
resize_8x8_f32_sve256plus_sc(y, i, offset) ==
  LET n == kernel.lanes \div 2
      start == ((offset \div 8) \div n) * n
      p == PickedBy(offset - 8 * start)
  IN  Sum4(y, start + p.left, start + p.right, Block8x8[i + 1][p.column])

Interior(y, i, dst_x) ==
  LET offset == dst_x - Half_k
      x == offset \div k
  IN  IF UsesIndices THEN resize_8x8_f32_sve256plus_sc(y, i, offset)
      ELSE Sum4(y, x, x + 1, Block(x)[i + 1][(offset % k) + 1])

\* A row of edge pixels takes its values from one source row.
EdgeInterior(y, dst_x) ==
  LET x == (dst_x - Half_k) \div k
      near == Near(k, (dst_x - Half_k) % k)
      scale == Unit(k) \div (2 * k)
  IN  {<<y, x, scale * near>>, <<y, x + 1, scale * (2 * k - near)>>}

Left(dst_x) == dst_x < Half_k
Right(dst_x) == dst_x >= src_width * k - Half_k

process_edge_row(y) ==
  [dst_x \in Columns |->
     IF Left(dst_x) THEN {<<y, 0, Unit(k)>>}
     ELSE IF Right(dst_x) THEN {<<y, src_width - 1, Unit(k)>>}
     ELSE EdgeInterior(y, dst_x)]

process_row(y, i) ==
  LET vertical(x) == LET scale == Unit(k) \div (2 * k)
                     IN  {<<y, x, scale * Near(k, i)>>,
                          <<y + 1, x, scale * (2 * k - Near(k, i))>>}
  IN  [dst_x \in Columns |->
         IF Left(dst_x) THEN vertical(0)
         ELSE IF Right(dst_x) THEN vertical(src_width - 1)
         ELSE Interior(y, i, dst_x)]
-----------------------------------------------------------------------------
\* kleidicv_thread_resize_linear_*: a batch [begin, end) of the pairs of
\* neighbouring rows is the stripe that ends a row later.  An image without rows
\* or columns was returned before.
Batches == IF src_height > 1 THEN src_height - 1 ELSE 1
StripeOf(begin, end) ==
  [y_begin |-> begin,
   y_end |-> IF end + 1 < src_height THEN end + 1 ELSE src_height,
   src_y |-> begin, at |-> "top"]

Init ==
  /\ kernel \in Kernels
  /\ \E size \in Sizes : src_width = size[1] /\ src_height = size[2]
  /\ \E cuts \in SUBSET (Cuts \cap 1..Batches - 1) :
       LET begins == cuts \cup {0}
           End(begin) == CHOOSE e \in begins \cup {Batches} :
                           /\ e > begin
                           /\ \A f \in begins \cup {Batches} : f > begin => f >= e
       IN  stripes = [begin \in begins |-> StripeOf(begin, End(begin))]
  /\ dst = [r \in Rows |-> [pixels |-> [x \in Columns |-> {}], padding |-> r]]
  /\ writers = [r \in Rows |-> {}]

Store(s, new) ==
  /\ dst' = [r \in Rows |-> IF r \in DOMAIN new THEN new[r] ELSE dst[r]]
  /\ writers' = [r \in Rows |-> IF r \in DOMAIN new THEN writers[r] \cup {s}
                                                    ELSE writers[r]]
  /\ UNCHANGED <<kernel, src_width, src_height>>

\* The edge rows that start at first: the first one is processed and then
\* copied as a whole, or the pixels of each row are stored.
EdgeRows(first, y) ==
  LET row == [dst[first] EXCEPT !.pixels = process_edge_row(y)]
  IN  [r \in first..first + Half_k - 1 |->
         IF Kernel.copies_stride THEN row
         ELSE [dst[r] EXCEPT !.pixels = process_edge_row(y)]]

TopEdge(s) ==
  /\ stripes[s].at = "top"
  /\ stripes' = [stripes EXCEPT ![s].at = "rows"]
  /\ IF stripes[s].y_begin = 0
     THEN Store(s, EdgeRows(0, 0))
     ELSE UNCHANGED <<kernel, src_width, src_height, dst, writers>>

ProcessRow(s) ==
  /\ stripes[s].at = "rows"
  /\ stripes[s].src_y + 1 < stripes[s].y_end
  /\ LET y == stripes[s].src_y
         dst_y == y * k + Half_k
     IN  Store(s, [r \in dst_y..dst_y + k - 1 |->
                     [dst[r] EXCEPT !.pixels = process_row(y, r - dst_y)]])
  /\ stripes' = [stripes EXCEPT ![s].src_y = @ + 1]

\* Mutant: every stripe closes the image with edge rows.
LastStripe_Any(s) == TRUE

LastStripe(s) == stripes[s].y_end = src_height

BottomEdge(s) ==
  /\ stripes[s].at = "rows"
  /\ stripes[s].src_y + 1 >= stripes[s].y_end
  /\ stripes' = [stripes EXCEPT ![s].at = "done"]
  /\ IF LastStripe(s)
     THEN Store(s, EdgeRows(src_height * k - Half_k, src_height - 1))
     ELSE UNCHANGED <<kernel, src_width, src_height, dst, writers>>

Next ==
  \E s \in DOMAIN stripes : TopEdge(s) \/ ProcessRow(s) \/ BottomEdge(s)

Spec == Init /\ [][Next]_vars
-----------------------------------------------------------------------------
Done == \A s \in DOMAIN stripes : stripes[s].at = "done"

\* The source rows (or columns), with weights over 2k, that destination row
\* (or column) z lies between when pixel centres are aligned, out of n.
Bilinear(z, n) ==
  LET position == 2 * z + 1 - k    \* in units of 1 / 2k
      i == position \div (2 * k)
      f == position % (2 * k)
  IN  IF position < 0 THEN {<<0, 2 * k>>}
      ELSE IF i >= n - 1 THEN {<<n - 1, 2 * k>>}
      ELSE {<<i, 2 * k - f>>, <<i + 1, f>>}

(* When all stripes are done, every destination pixel is the bilinear      *)
(* interpolation of the source with aligned pixel centres: the tables of   *)
(* coefficients of every backend agree with it, vectors and row tails      *)
(* alike, the rows between two stripes included                            *)
(* (src/kleidicv_thread/src/kleidicv_thread.cpp:1166).                     *)
ResizedBilinear ==
  Done => \A r \in Rows, x \in Columns :
    dst[r].pixels[x] =
      {<<v[1], h[1], (Unit(k) \div (4 * k * k)) * v[2] * h[2]>> :
         v \in Bilinear(r, src_height), h \in Bilinear(x, src_width)}

(* No destination row is stored by two stripes, which run in different     *)
(* threads: neighbouring stripes read a source row in common, but each row *)
(* between two source rows has one owner.                                  *)
RowsHaveOneWriter ==
  \A r \in Rows : \A s, t \in writers[r] : s = t

(* The bytes between the rows of the destination are not the library's:    *)
(* "padding bytes are not overwritten" (test/framework/array.h:50).        *)
PaddingKept == \A r \in Rows : dst[r].padding = r
=============================================================================
