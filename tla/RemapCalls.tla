---------------------------- MODULE RemapCalls ----------------------------
(***************************************************************************)
(* Calls of remap and of warp_perspective.  A row of a map visits the      *)
(* coordinates of a set in some order: the corners of the source, the ones *)
(* around them, and the ends of the integer types.                         *)
(***************************************************************************)
EXTENDS KernelCall, Integers, Sequences
LOCAL INSTANCE Remap

CONSTANTS
  MapWidths,       \* pixels of a row of the map
  MapLanes,        \* 16-bit lanes of an SVE vector
  Images,          \* source images of the 16-bit kernels
  FloatImages,     \* source images of the float kernels
  Transforms       \* third rows of perspective matrices, as <<t6, t7, t8>>

Ends(n) == <<-32768, 32767, -1, 0, n - 1, n - 2, n, 1, -2>>
\* Rotated through the interesting places, x and y at different paces.
MapRow(s, width, turn) ==
  [p \in 1..width |->
     <<Ends(s.width)[((p + turn) % 9) + 1], Ends(s.height)[(((2 * p) + (p \div 9)) % 9) + 1]>>]

Nearest ==
  \E s \in Images, width \in MapWidths, turn \in 0..8,
     border \in {"replicate", "constant"}, n \in {0} \cup MapLanes :
    LET map == MapRow(s, width, turn)
    IN  /\ remap_s16_is_implemented(s, width, border)
        /\ call' = [kernel |-> "remap_nearest", s |-> s, map |-> map, border |-> border]
        /\ result' = {IF n = 0 THEN remap_s16(s, map, border)
                      ELSE remap_s16_sve2(s, map, border, n)}

Interpolated ==
  \E s \in Images, width \in MapWidths, turn \in {0, 4},
     border \in {"replicate", "constant"}, n \in {0} \cup MapLanes, bits \in {8, 16} :
    LET map == MapRow(s, width, turn)
    IN  /\ remap_s16point5_is_implemented(s, width, border)
        /\ call' = [kernel |-> "remap_linear", s |-> s, map |-> map, border |-> border,
                    bits |-> bits, path |-> IF n = 0 THEN "neon" ELSE "sve2"]
        /\ result' = {IF n = 0 THEN remap_s16point5(s, map, border, bits)
                      ELSE remap_s16point5_sve2(s, map, border, bits, n)}

FloatPlaces(n) ==
  LET At(f, q) == [floor |-> f, quarter |-> q]
  IN  <<At(-1, 3), At(0, 0), At(S32.hi, 0), At(n - 1, 2), At(n - 1, 0),
        At(S32.lo, 0), At(n - 2, 1), At(-1, 2), At(0, 2), At(n, 1), At(-3, 1)>>
FloatRow(s, width, turn) ==
  [p \in 1..width |->
     [x |-> FloatPlaces(s.width)[((p + turn) % 11) + 1],
      y |-> FloatPlaces(s.height)[((3 * p) % 11) + 1]]]

FloatMap ==
  \E s \in FloatImages, width \in MapWidths, turn \in 0..10,
     border \in {"replicate", "constant"}, how \in {"nearest", "linear"},
     n \in {0} \cup MapLanes :
    LET map == FloatRow(s, width, turn)
    IN  /\ remap_f32_is_implemented(s, width, border)
        /\ call' = [kernel |-> "remap_float", s |-> s, map |-> map,
                    border |-> border, interpolation |-> how]
        /\ result' = {IF n = 0 THEN transform_operation(s, map, border, how)
                      ELSE transform_operation_sve2(s, map, border, how, n \div 2)}

Interpolation ==
  \E a, b, c, d \in {0, 1, 254, 255}, xf, yf \in {0, 1, 16, 31} :
    /\ call' = [kernel |-> "interpolate", pixels |-> <<a, b, c, d>>, xf |-> xf, yf |-> yf]
    /\ result' = [u8 |-> Lerp_u8(a, b, c, d, xf, yf),
                  u16 |-> Lerp_u16(257 * a, 257 * b, 257 * c, 257 * d, xf, yf)]

Weights ==
  \E t \in Transforms, y_begin \in 0..5, y_end \in 1..6, n \in {0} \cup MapLanes :
    LET matrix == <<0, 0, 0, 0, 0, 0, t[1], t[2], t[3]>>
        Row(y) == IF n = 0 THEN process_rows(matrix, 9, y_begin, y_end, y)
                  ELSE process_rows_sve2(matrix, 9, y_begin, y_end, y, n \div 2)
    IN  /\ y_begin < y_end
        /\ call' = [kernel |-> "warp", begin |-> y_begin, end |-> y_end]
        /\ result' = {Row(y) : y \in y_begin..y_end - 1}

RemapKernels == Nearest \/ Interpolated \/ FloatMap \/ Interpolation \/ Weights
-----------------------------------------------------------------------------
Clamped(n, z) == IF z < 0 THEN 0 ELSE IF z >= n THEN n - 1 ELSE z

\* The element of channel c at the integer place <<x, y>> of a source image
\* that is continued by its edge or by the border value.
Element(s, border, x, y, c) ==
  IF border = "replicate"
  THEN Clamped(s.width, x) * s.channels + Clamped(s.height, y) * s.stride + c
  ELSE IF x \in 0..s.width - 1 /\ y \in 0..s.height - 1
  THEN x * s.channels + y * s.stride + c
  ELSE -1 - c

\* Two elements and a weight: what a fraction of zero, or the same element
\* twice, leaves of them.
Between2(u, v, f) == IF u = v \/ f = 0 THEN <<u, u, 0>> ELSE <<u, v, f>>
Weighed(q, xf, yf) ==
  LET upper == Between2(q.a, q.b, xf)
      lower == Between2(q.c, q.d, xf)
  IN  IF upper = lower \/ yf = 0 THEN <<upper, upper, 0>> ELSE <<upper, lower, yf>>

(* Every pixel of a remapped row is the source pixel that its own map      *)
(* entry names, or the edge, or the border value: with coordinates at the  *)
(* ends of int16_t, rows that end in the middle of a vector, and lanes     *)
(* that are gathered apart (remap_s16_neon.cpp:45-79,                      *)
(* remap_s16_sve2.cpp:60-179).                                             *)
PlacesRemapped ==
  call.kernel = "remap_nearest" =>
    \A row \in result, p \in DOMAIN call.map :
      row[p] = Element(call.s, call.border, call.map[p][1], call.map[p][2], 0)

(* Every element of a row remapped with fractions is weighed from the four *)
(* source elements of its own channel around its own place, with the       *)
(* fraction of its own pixel, although the fractions are zipped and        *)
(* transposed to meet their channels, and x + 1 saturates, wraps or is     *)
(* clamped depending on the build (remap_s16point5_neon.cpp:621-764,       *)
(* remap_s16point5_sve2.cpp:559-681).                                      *)
NeighboursWeighed ==
  call.kernel = "remap_linear" =>
    LET s == call.s
        ch == s.channels
        Of(p, c) == LET x == call.map[p][1]
                        y == call.map[p][2]
                        E(i, j) == Element(s, call.border, x + i, y + j, c)
                    IN  Weighed([a |-> E(0, 0), b |-> E(1, 0),
                                 c |-> E(0, 1), d |-> E(1, 1)], p, p)
    IN  \A row \in result, e \in 1..Len(call.map) * ch :
          Weighed(row[e].of, row[e].xf, row[e].yf)
            = Of((e - 1) \div ch + 1, (e - 1) % ch)

(* An image one pixel wide or high: on NEON, for 8-bit pixels of one        *)
(* channel, the neighbour of a negative place is read in the column or row *)
(* behind it, which is not clamped (remap_s16point5_neon.cpp:56-57); its   *)
(* weight is zero.                                                         *)
BehindSinglePixel(p) ==
  /\ call.path = "neon" /\ call.bits = 8
  /\ call.border = "replicate" /\ call.s.channels = 1
  /\ \/ call.s.width = 1 /\ call.map[p][1] < 0
     \/ call.s.height = 1 /\ call.map[p][2] < 0

(* The four elements a pixel is weighed from are elements of the source or *)
(* the border value, at every place, and in images one pixel wide or high  *)
(* at all but the places BehindSinglePixel.                                *)
NeighboursInside ==
  call.kernel = "remap_linear" =>
    LET s == call.s
        Inside(e) == /\ e >= 0 /\ e \div s.stride < s.height
                     /\ e % s.stride < s.width * s.channels
        Border == {-1 - c : c \in 0..3}
    IN  \A row \in result, p \in DOMAIN call.map, c \in 1..s.channels :
          LET of == row[(p - 1) * s.channels + c].of
          IN  (\A f \in {"a", "b", "c", "d"} : Inside(of[f]) \/ of[f] \in Border)
              <=> ~BehindSinglePixel(p)

(* The same with float coordinates, also where they are halfway between    *)
(* two pixels, below zero or beyond int32_t, and where the image is just   *)
(* too large for short indices (transform_neon.h:189-329, 339-491).        *)
FloatPlacesRemapped ==
  call.kernel = "remap_float" =>
    LET s == call.s
        ch == s.channels
        \* saturated coordinates keep a distance from the image
        Floor(z) == z.floor
        Round(z) == IF z.floor \in {S32.lo, S32.hi} THEN z.floor
                    ELSE IF z.floor < 0 THEN z.floor + (IF z.quarter > 2 THEN 1 ELSE 0)
                    ELSE z.floor + (IF z.quarter >= 2 THEN 1 ELSE 0)
        Plus(z, i) == IF z = S32.hi THEN z ELSE z + i
        Of(p, c) ==
          LET x == call.map[p].x
              y == call.map[p].y
              E(i, j) == Element(s, call.border, Plus(Floor(x), i), Plus(Floor(y), j), c)
          IN  IF call.interpolation = "nearest"
              THEN Element(s, call.border, Round(x), Round(y), c)
              ELSE Weighed([a |-> E(0, 0), b |-> E(1, 0),
                            c |-> E(0, 1), d |-> E(1, 1)], x.quarter, y.quarter)
    IN  \A row \in result, e \in 1..Len(call.map) * ch :
          (IF call.interpolation = "nearest" THEN row[e]
           ELSE Weighed(row[e], row[e].xf, row[e].yf))
            = Of((e - 1) \div ch + 1, (e - 1) % ch)

(* The sums of an interpolation fit their lanes: the result is the rounded *)
(* mean, and lies between the smallest and the largest pixel.              *)
InterpolationRounds ==
  call.kernel = "interpolate" =>
    LET P == call.pixels
        Mean(k) == LET upper == (32 - call.xf) * P[1] * k + call.xf * P[2] * k
                       lower == (32 - call.xf) * P[3] * k + call.xf * P[4] * k
                   IN  (32 - call.yf) * upper + call.yf * lower
        Close(r, k) == /\ 1024 * r - Mean(k) <= 512 /\ Mean(k) - 1024 * r < 512
    IN  Close(result.u8, 1) /\ Close(result.u16, 257)

(* Every pixel of a row of a stripe gets the coordinates of its own column *)
(* and none divides by a weight of zero unguarded, although only the       *)
(* corners of the stripe are looked at and every weight is rounded         *)
(* (transform_common.h:29-50).                                             *)
ZeroWeightGuarded ==
  call.kernel = "warp" =>
    \A row \in result :
      /\ Len(row) = 9
      /\ \A p \in DOMAIN row : row[p].x = p - 1 /\ (row[p].tw = 0 => row[p].checked)
=============================================================================
