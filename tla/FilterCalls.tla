---------------------------- MODULE FilterCalls -----------------------------
(***************************************************************************)
(* What the filters of kleidicv/src/filters compute from the taps of one   *)
(* element: the passes of GaussianBlur, BlurAndDownsample,                 *)
(* SeparableFilter2D, Sobel and Scharr, lane by lane, with the widths of   *)
(* the registers and variables they compute in.  They are applied to       *)
(* windows of pixels in which their sums are largest, smallest or round,   *)
(* and Scharr to a row.                                                    *)
(*                                                                         *)
(* s holds the taps, numbered from 0.  NEON computes the low and the high  *)
(* half of a vector, SVE its even and its odd lanes, in the same way.      *)
(***************************************************************************)
EXTENDS KernelCall, Integers, Sequences, FiniteSets
LOCAL INSTANCE FilterRows
LOCAL INSTANCE Lanes

CONSTANTS
  One,               \* units of a weight of the generated kernels
  Weights,           \* sequences of such weights
  KernelTaps,        \* values of the kernels of separable_filter_2d
  ScharrWidths

add16(a, b) == Wrap(a + b, U16)
mla16(acc, a, b) == Wrap(acc + a * b, U16)
\* Narrowing, and the conversion to uint8_t of what is stored.
byte(x) == Wrap(x, U8)
-----------------------------------------------------------------------------
\* GaussianBlur<uint8_t, 3, true>
vertical_vector_3(s) == add16(add16(s[0], s[2]), 2 * s[1])
vertical_scalar_3(s) == Wrap(s[0] + 2 * s[1] + s[2], U16)
horizontal_vector_3(s) ==
  byte(RoundingShift(add16(add16(s[0], s[2]), Wrap(2 * s[1], U16)), 4))
horizontal_scalar_3(s) == byte(RoundingShift(s[0] + 2 * s[1] + s[2], 4))

vertical_vector_3_sc(s) == add16(add16(s[0], s[2]), 2 * s[1])

\* svhadd halves the sum of the outer taps before the others are added.
horizontal_vector_3_sc(s) ==
  byte(RoundingShift(add16((s[0] + s[2]) \div 2, s[1]), 3))
horizontal_scalar_3_sc(s) == byte(RoundingShift(s[0] + 2 * s[1] + s[2], 4))

\* GaussianBlur<uint8_t, 5, true>, and the same passes in BlurAndDownsample.
sum_5(s) == mla16(mla16(add16(s[0], s[4]), s[2], 6), add16(s[1], s[3]), 4)
plain_sum_5(s) == s[0] + s[4] + 4 * (s[1] + s[3]) + 6 * s[2]

vertical_vector_5(s) == sum_5(s)
vertical_scalar_5(s) == Wrap(plain_sum_5(s), U16)
horizontal_vector_5(s) == byte(RoundingShift(sum_5(s), 8))
horizontal_scalar_5(s) == byte(RoundingShift(plain_sum_5(s), 8))

vertical_vector_5_sc(s) == sum_5(s)
horizontal_vector_5_sc(s) == byte(RoundingShift(sum_5(s), 8))
horizontal_scalar_5_sc(s) == byte(RoundingShift(plain_sum_5(s), 8))

vertical_vector_down(s) == sum_5(s)
vertical_scalar_down(s) == Wrap(plain_sum_5(s), U16)
horizontal_vector_down(s) == byte(RoundingShift(sum_5(s), 8))
process_horizontal_scalar_down(s) == byte(RoundingShift(plain_sum_5(s), 8))

vertical_vector_down_sc(s) == sum_5(s)
horizontal_vector_down_sc(s) == byte(RoundingShift(sum_5(s), 8))
horizontal_border_down_sc(s) == byte(RoundingShift(sum_5(s), 8))

\* GaussianBlur<uint8_t, 7, true>: the weights 2, 14 and 18 are halved, and the
\* sum of their taps doubled.
plain_sum_7(s) ==
  s[0] * 2 + s[1] * 7 + s[2] * 14 + s[3] * 18 + s[4] * 14 + s[5] * 7 + s[6] * 2

vertical_vector_7(s) ==
  LET acc_0_2_4_6 == mla16(add16(s[0], s[6]), add16(s[2], s[4]), 7)
      acc_0_2_3_4_6 == mla16(acc_0_2_4_6, s[3], 9)
  IN  mla16(Wrap(2 * acc_0_2_3_4_6, U16), add16(s[1], s[5]), 7)
vertical_scalar_7(s) == Wrap(plain_sum_7(s), U16)

\* In 32 bits but for the sum of taps 2 and 4.
horizontal_vector_7(s) ==
  LET acc_0_2_3_4_6 == s[0] + s[6] + add16(s[2], s[4]) * 7 + s[3] * 9
  IN  byte(RoundingShift(2 * acc_0_2_3_4_6 + (s[1] + s[5]) * 7, 12))
horizontal_scalar_7(s) == byte(RoundingShift(plain_sum_7(s), 12))

vertical_vector_7_sc(s) == vertical_vector_7(s)
horizontal_vector_7_sc(s) == horizontal_vector_7(s)
horizontal_scalar_7_sc(s) == byte(RoundingShift(plain_sum_7(s), 12))

\* GaussianBlur<uint8_t, 9, true>: even and odd taps apart.
plain_sum_9(s) ==
  s[0] * 4 + s[1] * 13 + s[2] * 30 + s[3] * 51 + s[4] * 60 + s[5] * 51
  + s[6] * 30 + s[7] * 13 + s[8] * 4

vertical_vector_9(s) ==
  LET even == mla16(mla16(Wrap(4 * add16(s[0], s[8]), U16),
                          add16(s[2], s[6]), 30), s[4], 60)
      odd == mla16(Wrap(add16(s[1], s[7]) * 13, U16), add16(s[3], s[5]), 51)
  IN  add16(even, odd)
vertical_scalar_9(s) == Wrap(plain_sum_9(s), U16)

horizontal_vector_9(s) ==
  LET even == 4 * (s[0] + s[8]) + (s[2] + s[6]) * 30 + s[4] * 60
      odd == (s[1] + s[7]) * 13 + (s[3] + s[5]) * 51
  IN  byte(RoundingShift(even + odd, 16))
horizontal_scalar_9(s) == byte(RoundingShift(plain_sum_9(s), 16))

vertical_vector_9_sc(s) == vertical_vector_9(s)
horizontal_vector_9_sc(s) == horizontal_vector_9(s)
horizontal_scalar_9_sc(s) == byte(RoundingShift(plain_sum_9(s), 16))

\* The paths of each pass, by size of the kernel and backend.
VerticalPaths(size, sc, s) ==
  CASE size = 3 -> IF sc THEN {vertical_vector_3_sc(s)}
                   ELSE {vertical_vector_3(s), vertical_scalar_3(s)}
    [] size = 5 -> IF sc THEN {vertical_vector_5_sc(s), vertical_vector_down_sc(s)}
                   ELSE {vertical_vector_5(s), vertical_scalar_5(s),
                         vertical_vector_down(s), vertical_scalar_down(s)}
    [] size = 7 -> IF sc THEN {vertical_vector_7_sc(s)}
                   ELSE {vertical_vector_7(s), vertical_scalar_7(s)}
    [] size = 9 -> IF sc THEN {vertical_vector_9_sc(s)}
                   ELSE {vertical_vector_9(s), vertical_scalar_9(s)}

HorizontalPaths(size, sc, s) ==
  CASE size = 3 -> IF sc THEN {horizontal_vector_3_sc(s), horizontal_scalar_3_sc(s)}
                   ELSE {horizontal_vector_3(s), horizontal_scalar_3(s)}
    [] size = 5 -> IF sc THEN {horizontal_vector_5_sc(s), horizontal_scalar_5_sc(s),
                               horizontal_vector_down_sc(s),
                               horizontal_border_down_sc(s)}
                   ELSE {horizontal_vector_5(s), horizontal_scalar_5(s),
                         horizontal_vector_down(s),
                         process_horizontal_scalar_down(s)}
    [] size = 7 -> IF sc THEN {horizontal_vector_7_sc(s), horizontal_scalar_7_sc(s)}
                   ELSE {horizontal_vector_7(s), horizontal_scalar_7(s)}
    [] size = 9 -> IF sc THEN {horizontal_vector_9_sc(s), horizontal_scalar_9_sc(s)}
                   ELSE {horizontal_vector_9(s), horizontal_scalar_9(s)}
-----------------------------------------------------------------------------
\* Mutant: the error of a weight is not handed on to the next.
generate_gaussian_half_kernel_NoDiffusion(weights, one) ==
  LET mid == Len(weights)
      Round(x) == (2 * x + one) \div (2 * one)
      Sum[i \in 0..mid] == IF i = 0 THEN 0 ELSE Sum[i - 1] + weights[i]
  IN  [i \in 0..mid |->
         IF i < mid THEN Round(weights[i + 1]) ELSE Round(256 * one - 2 * Sum[mid])]

\* generate_gaussian_half_kernel, from the values of exp multiplied with the
\* multiplier, in units of 1/one: they and the multiplier, as often as they
\* occur in the kernel, add up to 256.  std::round takes halves up.
generate_gaussian_half_kernel(weights, one) ==
  LET mid == Len(weights)
      Round(x) == (2 * x + one) \div (2 * one)
      Sum[i \in 0..mid] == IF i = 0 THEN 0 ELSE Sum[i - 1] + weights[i]
      multiplier == 256 * one - 2 * Sum[mid]
      error[i \in 0..mid] ==
        IF i = 0 THEN 0
        ELSE LET value == weights[i] - error[i - 1]
             IN  Round(value) * one - value
  IN  [i \in 0..mid |->
         IF i < mid THEN Round(weights[i + 1] - error[i])
                    ELSE Round(multiplier - error[mid])]

\* It returns false, and rows are copied.
AllInTheMiddle(half_kernel) == half_kernel[Cardinality(DOMAIN half_kernel) - 1] = 256

\* The sum over the half kernel: a 16-bit sum is the low half of it, wherever
\* it is cut off.
HalfKernelSum(s, half_kernel) ==
  LET mid == Cardinality(DOMAIN half_kernel) - 1
      acc[i \in 0..mid] ==
        IF i = 0 THEN s[mid] * half_kernel[mid]
        ELSE acc[i - 1] + (s[i - 1] + s[2 * mid - i + 1]) * half_kernel[i - 1]
  IN  acc[mid]
HalfKernelSum_u16(s, half_kernel) == Wrap(HalfKernelSum(s, half_kernel), U16)

\* GaussianBlur<uint8_t, KernelSize, false>
common_vector_path(s, half_kernel) ==
  add16(HalfKernelSum(s, half_kernel), 128) \div 256
vertical_scalar_path(s, half_kernel) ==
  byte(RoundingShift(HalfKernelSum_u16(s, half_kernel), 8))

common_vector_path_sc(s, half_kernel) ==
  Saturate(HalfKernelSum_u16(s, half_kernel) + 128, U16) \div 256
vertical_scalar_path_sc(s, half_kernel) ==
  byte(RoundingShift(HalfKernelSum(s, half_kernel), 8))

\* GaussianBlurArbitrary: vertical_vector_path, which adds four products at a
\* time, and horizontal_vector_path; the blocks at the borders; and
\* horizontal_scalar_path.
arbitrary_vector_path(s, half_kernel) ==
  Saturate(HalfKernelSum_u16(s, half_kernel) + 128, U16) \div 256
arbitrary_border_path(s, half_kernel) ==
  byte(RoundingShift(HalfKernelSum_u16(s, half_kernel), 8))
arbitrary_scalar_path(s, half_kernel) ==
  byte(RoundingShift(HalfKernelSum(s, half_kernel), 8))

GeneratedPaths(s, half_kernel) ==
  IF AllInTheMiddle(half_kernel)
    THEN {s[Cardinality(DOMAIN half_kernel) - 1]}
    ELSE {common_vector_path(s, half_kernel), vertical_scalar_path(s, half_kernel),
          common_vector_path_sc(s, half_kernel),
          vertical_scalar_path_sc(s, half_kernel),
          arbitrary_vector_path(s, half_kernel),
          arbitrary_border_path(s, half_kernel),
          arbitrary_scalar_path(s, half_kernel)}
-----------------------------------------------------------------------------
\* SeparableFilter2D<uint8_t, 5>: vqadd after every product.
convolve_vertical_vector(s, kernel_y) ==
  LET acc[i \in 0..4] ==
        IF i = 0 THEN s[0] * kernel_y[0]
        ELSE Saturate(acc[i - 1] + s[i] * kernel_y[i], U16)
  IN  acc[4]

\* An overflow of the uint16_t ends the sum with the largest uint8_t.
convolve_vertical_scalar(s, kernel_y) ==
  LET acc[i \in 0..4] ==
        (IF i = 0 THEN 0 ELSE acc[i - 1]) + s[i] * kernel_y[i]
  IN  IF Overflows(acc[4], U16) THEN U8.hi ELSE acc[4]

\* vqmovn twice, from 32 bits.
convolve_horizontal_vector(s, kernel_x) ==
  LET acc[i \in 0..4] ==
        (IF i = 0 THEN 0 ELSE acc[i - 1]) + s[i] * kernel_x[i]
  IN  Saturate(Saturate(acc[4], U16), U8)

\* A product or a sum that is no uint8_t ends the sum.
convolve_horizontal_scalar(s, kernel_x) ==
  LET acc[i \in 0..4] ==
        (IF i = 0 THEN 0 ELSE acc[i - 1]) + s[i] * kernel_x[i]
  IN  IF \E i \in 0..4 : Overflows(s[i] * kernel_x[i], U8) \/ Overflows(acc[i], U8)
        THEN U8.hi ELSE acc[4]

convolve_vertical_vector_sc(s, kernel_y) == convolve_vertical_vector(s, kernel_y)
\* svqxtn to 16 bits, and what is more than a uint8_t holds is replaced.
convolve_horizontal_vector_sc(s, kernel_x) ==
  LET acc[i \in 0..4] ==
        (IF i = 0 THEN 0 ELSE acc[i - 1]) + s[i] * kernel_x[i]
      acc_u16 == Saturate(acc[4], U16)
  IN  IF acc_u16 > U8.hi THEN U8.hi ELSE acc_u16
convolve_horizontal_scalar_sc(s, kernel_x) == convolve_horizontal_scalar(s, kernel_x)
-----------------------------------------------------------------------------
\* HorizontalSobel3x3 and VerticalSobel3x3; a buffer element is an int16_t.
sobel_horizontal_vertical(s) == Wrap(add16(add16(s[0], s[2]), 2 * s[1]), S16)
sobel_horizontal_vertical_scalar(s) == Wrap(s[0] + 2 * s[1] + s[2], S16)
sobel_horizontal_horizontal(s) == Wrap(s[2] - s[0], S16)
sobel_vertical_vertical(s) == Wrap(Wrap(s[2] - s[0], U16), S16)
sobel_vertical_vertical_scalar(s) == Wrap(s[2] - s[0], S16)
sobel_vertical_horizontal(s) == Wrap(Wrap(s[0] + s[2], S16) + Wrap(2 * s[1], S16), S16)
sobel_vertical_horizontal_scalar(s) == Wrap(s[0] + 2 * s[1] + s[2], S16)

sobel_horizontal_vertical_sc(s) == Wrap(mla16(add16(s[0], s[2]), s[1], 2), S16)
sobel_horizontal_horizontal_sc(s) == Wrap(s[2] - s[0], S16)
sobel_vertical_vertical_sc(s) == Wrap(Wrap(s[2] - s[0], U16), S16)
sobel_vertical_horizontal_sc(s) == Wrap(s[1] * 2 + Wrap(s[0] + s[2], S16), S16)

\* ScharrInterleaved: of the vertical pass, the halves of both derivatives.
scharr_vertical(s) ==
  [hori |-> Wrap(mla16(Wrap(add16(s[0], s[2]) * 3, U16), s[1], 10), S16),
   vert |-> Wrap(Wrap(s[2] - s[0], U16), S16)]
scharr_vertical_scalar(s) ==
  [hori |-> Wrap((s[0] + s[2]) * 3 + s[1] * 10, S16),
   vert |-> Wrap(s[2] - s[0], S16)]
scharr_hori_approx(s) == Wrap(s[2] - s[0], S16)

\* a + (a + a) for three times a.
scharr_vert_approx(s) ==
  LET a == Wrap(s[0] + s[2], U16)
  IN  Wrap(mla16(add16(a, add16(a, a)), s[1], 10), S16)
scharr_vert_approx_scalar(s) == Wrap((s[0] + s[2]) * 3 + s[1] * 10, S16)

scharr_vertical_hori_sc(s) == Wrap(mla16(Wrap(add16(s[0], s[2]) * 3, U16), s[1], 10), S16)
scharr_vertical_vert_sc(s) == Wrap(Wrap(s[2] - s[0], U16), S16)

scharr_interleaved_sc(hori, vert) ==
  <<Wrap(hori[2] - hori[0], S16),
    Wrap(vert[1] * 10 + Wrap(Wrap(vert[0] + vert[2], S16) * 3, S16), S16)>>
-----------------------------------------------------------------------------
\* Windows of size n x n: of one value, of two values in halves, rows, columns
\* or squares, and with a single pixel that differs.
Windows(n) ==
  {[i \in 0..n - 1 |-> [j \in 0..n - 1 |->
      CASE form = "half" -> IF 2 * i < n THEN a ELSE b
        [] form = "other half" -> IF 2 * j < n THEN a ELSE b
        [] form = "squares" -> IF (i + j) % 2 = 0 THEN a ELSE b
        [] form = "pixel" -> IF i = n \div 2 /\ j = n \div 2 THEN a ELSE b
        [] form = "corner" -> IF i = 0 /\ j = 0 THEN a ELSE b]]
   : form \in {"half", "other half", "squares", "pixel", "corner"},
     a \in {0, 7, 127, 255}, b \in {0, 128, 254, 255}}

Column(p, j) == [i \in DOMAIN p |-> p[i][j]]

Numbered(seq) == [i \in 0..Len(seq) - 1 |-> seq[i + 1]]

\* The rows of the buffer if each column j is stored by any of its paths.
Buffers(paths) ==
  LET n == Cardinality(DOMAIN paths)
      Up[j \in 0..n] ==
        IF j = 0 THEN {<< >>}
        ELSE {Append(b, v) : b \in Up[j - 1], v \in paths[j - 1]}
  IN  {Numbered(b) : b \in Up[n]}

\* The sum of weights u and v over a window.
Weighed(p, u, v) ==
  LET n == Cardinality(DOMAIN p)
      Row[j \in -1..n - 1] ==
        IF j = -1 THEN [i \in DOMAIN p |-> 0]
        ELSE [i \in DOMAIN p |-> Row[j - 1][i] + v[j] * p[i][j]]
      All[i \in -1..n - 1] ==
        IF i = -1 THEN 0 ELSE All[i - 1] + u[i] * Row[n - 1][i]
  IN  All[n - 1]

Binomial(size) ==
  Numbered(CASE size = 3 -> <<1, 2, 1>>
             [] size = 5 -> <<1, 4, 6, 4, 1>>
             [] size = 7 -> <<2, 7, 14, 18, 14, 7, 2>>
             [] size = 9 -> <<4, 13, 30, 51, 60, 51, 30, 13, 4>>)
-----------------------------------------------------------------------------
BinomialBlur ==
  \E size \in {3, 5, 7, 9}, sc \in BOOLEAN : \E p \in Windows(size) :
    LET vertical == [j \in 0..size - 1 |-> VerticalPaths(size, sc, Column(p, j))]
    IN  /\ call' = [kernel |-> "binomial", size |-> size, window |-> p]
        /\ result' =
             [value |-> UNION {HorizontalPaths(size, sc, b) : b \in Buffers(vertical)}]

GeneratedBlur ==
  \E weights \in Weights, a, b \in {0, 1, 127, 254, 255} :
    LET half_kernel == generate_gaussian_half_kernel(weights, One)
        s == [i \in 0..2 * Len(weights) |-> IF 2 * i < Len(weights) THEN a ELSE b]
    IN  /\ call' = [kernel |-> "generated", half_kernel |-> half_kernel, taps |-> s]
        /\ result' = [value |-> GeneratedPaths(s, half_kernel)]

Convolve ==
  \E x, y, z \in KernelTaps, p \in Windows(5) :
    LET kernel_x == Numbered(<<x, 0, y, 0, 0>>)
        kernel_y == Numbered(<<z, y, 0, 0, x>>)
        Neon(s) == {convolve_vertical_vector(s, kernel_y),
                    convolve_vertical_scalar(s, kernel_y)}
        neon == [j \in 0..4 |-> Neon(Column(p, j))]
        sc == [j \in 0..4 |-> convolve_vertical_vector_sc(Column(p, j), kernel_y)]
    IN  /\ call' = [kernel |-> "convolve", window |-> p,
                    x |-> kernel_x, y |-> kernel_y]
        /\ result' =
             [value |-> UNION {{convolve_horizontal_vector(b, kernel_x),
                                convolve_horizontal_scalar(b, kernel_x)}
                                 : b \in Buffers(neon)}
                        \cup {convolve_horizontal_vector_sc(sc, kernel_x),
                              convolve_horizontal_scalar_sc(sc, kernel_x)}]

Sobel ==
  \E p \in Windows(3) :
    LET Horizontal(s) == {sobel_horizontal_vertical(s),
                          sobel_horizontal_vertical_scalar(s),
                          sobel_horizontal_vertical_sc(s)}
        Vertical(s) == {sobel_vertical_vertical(s),
                        sobel_vertical_vertical_scalar(s),
                        sobel_vertical_vertical_sc(s)}
        Passed(Pass(_)) == Buffers([j \in 0..2 |-> Pass(Column(p, j))])
    IN  /\ call' = [kernel |-> "sobel", window |-> p]
        /\ result' =
             [x |-> UNION {{sobel_horizontal_horizontal(b),
                            sobel_horizontal_horizontal_sc(b)}
                             : b \in Passed(Horizontal)},
              y |-> UNION {{sobel_vertical_horizontal(b),
                            sobel_vertical_horizontal_scalar(b),
                            sobel_vertical_horizontal_sc(b)}
                             : b \in Passed(Vertical)}]

Scharr ==
  \E p \in Windows(3) :
    LET Hori(Pass(_)) == [j \in 0..2 |-> Pass(Column(p, j)).hori]
        Vert(Pass(_)) == [j \in 0..2 |-> Pass(Column(p, j)).vert]
        sc == scharr_interleaved_sc(
                [j \in 0..2 |-> scharr_vertical_hori_sc(Column(p, j))],
                [j \in 0..2 |-> scharr_vertical_vert_sc(Column(p, j))])
    IN  /\ call' = [kernel |-> "scharr", window |-> p]
        /\ result' =
             [x |-> {scharr_hori_approx(Hori(scharr_vertical)),
                     scharr_hori_approx(Hori(scharr_vertical_scalar)), sc[1]},
              y |-> {scharr_vert_approx(Vert(scharr_vertical)),
                     scharr_vert_approx_scalar(Vert(scharr_vertical_scalar)),
                     sc[2]}]

\* A row of ScharrInterleaved.
ScharrRow ==
  \E width \in ScharrWidths, channels \in 1..4, sc \in BOOLEAN, lanes \in {16, 32} :
    /\ sc \/ lanes = 16
    /\ call' = [kernel |-> "scharr row", width |-> width, channels |-> channels]
    /\ result' = scharr_row(sc, width, channels, lanes)

FilterKernels ==
  \/ BinomialBlur \/ GeneratedBlur \/ Convolve \/ Sobel \/ Scharr \/ ScharrRow
-----------------------------------------------------------------------------
(* Blurring with the binomial kernels, and blur and downsample, round the  *)
(* weighed sum of the whole window once: the buffer loses nothing between  *)
(* the passes, no sum of either overflows, and vectors, tails and borders  *)
(* of both backends agree.                                                 *)
BinomialRoundsOnce ==
  call.kernel = "binomial" =>
    LET u == Binomial(call.size)
        scale == CASE call.size = 3 -> 4 [] call.size = 5 -> 8
                   [] call.size = 7 -> 12 [] call.size = 9 -> 16
    IN  result.value = {RoundingShift(Weighed(call.window, u, u), scale)}

(* "Normalizes the kernel values, so the sum of the final values is 1"     *)
(* (sigma.h:54): the weights of the kernel generated from sigma, rounded   *)
(* with their errors diffused, still add up to 1, so that an area of one   *)
(* value keeps its value, on every path of the blur.                       *)
FlatAreaKept ==
  (call.kernel = "generated" /\ Cardinality({call.taps[i] : i \in DOMAIN call.taps}) = 1)
    => result.value = {call.taps[0]}

(* Every path of a blur with a generated kernel, though they round the sum *)
(* in different ways, returns the nearest value.                           *)
GeneratedRounds ==
  call.kernel = "generated" =>
    LET k == call.half_kernel
        mid == Cardinality(DOMAIN k) - 1
        Sum[i \in -1..2 * mid] ==
          IF i = -1 THEN 0
          ELSE Sum[i - 1] + call.taps[i] * k[IF i <= mid THEN i ELSE 2 * mid - i]
    IN  result.value = {RoundingShift(Sum[2 * mid], 8)}

(* A separable filter saturates: although its tail ends a sum that leaves  *)
(* 16 bits with 255 and its vectors with 65535, every path returns the     *)
(* exact sum or, if that is larger, 255.                                   *)
ConvolutionSaturates ==
  call.kernel = "convolve" =>
    result.value = {Saturate(Weighed(call.window, call.y, call.x), U8)}

(* The derivatives of Sobel and Scharr are exact: no intermediate sum of   *)
(* any path leaves the sixteen bits, signed or unsigned, it is kept in.    *)
DerivativesExact ==
  LET Smooth(s) == Numbered(<<s[1], s[2], s[1]>>)
      step == Numbered(<<-1, 0, 1>>)
      Exact(s) == [x |-> {Weighed(call.window, Smooth(s), step)},
                   y |-> {Weighed(call.window, step, Smooth(s))}]
  IN  /\ call.kernel = "sobel" => result = Exact(<<1, 2>>)
      /\ call.kernel = "scharr" => result = Exact(<<3, 10>>)

(* A row of the Scharr filter stores both derivatives of every pixel that  *)
(* has two neighbours, next to each other, from the three columns around   *)
(* that pixel, taps only what its vertical pass has stored and stays in    *)
(* the source row and in the buffers it allocated.                         *)
ScharrRowComplete ==
  call.kernel = "scharr row" =>
    LET length == call.width * call.channels
        ch == call.channels
    IN  /\ result.loads = 0..length - 1
        /\ \A e \in result.stores : e < result.allocated
        /\ result.writes =
             {<<2 * i, {i, i + 2 * ch}>> : i \in 0..length - 2 * ch - 1} \cup
             {<<2 * i + 1, {i, i + ch, i + 2 * ch}>> : i \in 0..length - 2 * ch - 1}
        /\ UNION {w[2] : w \in result.writes} \subseteq result.stores
=============================================================================
