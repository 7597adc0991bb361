------------------------------ MODULE Channels ------------------------------
(***************************************************************************)
(* The kernels that only move samples: RGB to BGR and back with or without *)
(* alpha, gray to RGB, merge and split (kleidicv/src/conversions).  A      *)
(* sample is the number of its pixel and its channel; a kernel returns the *)
(* memory it stores, and every table of indices is the one of the code.    *)
(***************************************************************************)
EXTENDS Lanes

Sample(pixel, channel) == 4 * pixel + channel + 1
Interleaved(cn, n) ==
  [i \in 1..cn * n |-> Sample((i - 1) \div cn, (i - 1) % cn)]
Plane(c, n) == [i \in 1..n |-> Sample(i - 1, c)]
Alpha == -1
AlphaPlane(p) == [i \in DOMAIN p |-> Alpha]

\* ld3, ld4, st3 and st4: registers of one channel each.
StoreInterleaved(regs) ==
  [i \in 1..Len(regs) * Len(regs[1]) |->
     regs[((i - 1) % Len(regs)) + 1][(i - 1) \div Len(regs) + 1]]
Planes(mem, cn) ==
  [c \in 1..cn |-> [i \in 1..Len(mem) \div cn |-> mem[cn * (i - 1) + c]]]

\* What the scalar paths store for one pixel after another.
EachPixel(n, pixel) ==
  [i \in 1..n * Len(pixel) |->
     LET c == pixel[((i - 1) % Len(pixel)) + 1]
     IN  IF c = Alpha THEN Alpha ELSE Sample((i - 1) \div Len(pixel), c)]

-----------------------------------------------------------------------------
kRGBToBGRTableIndices ==
  <<2, 1, 0, 5, 4, 3, 8, 7, 6, 11, 10, 9, 14, 13, 12, 17,
    16, 15, 20, 19, 18, 23, 22, 21, 26, 25, 24, 29, 28, 27, 32, 31,
    14, 19, 18, 17, 22, 21, 20, 25, 24, 23, 28, 27, 26, 31, 30, 29>>

\* RGBToBGR of NEON: the first and the last register look into two source
\* registers, the middle one into three.
RGBToBGR(mem) ==
  LET r(k) == Register(mem, k, 16)
      indices(k) == Register(kRGBToBGRTableIndices, k, 16)
  IN  tbl(r(0) \o r(1), indices(0)) \o tbl(r(0) \o r(1) \o r(2), indices(1))
        \o tbl(r(1) \o r(2), indices(2))
RGBToBGR_scalar(n) == EachPixel(n, <<2, 1, 0>>)

\* RGBToBGR of SVE2 with vectors of 128 bits: the middle register is looked
\* up twice, because a table has two registers.
kTableIndices ==
  <<2, 1, 0, 5, 4, 3, 8, 7, 6, 11, 10, 9, 14, 13, 12, 17,
    16, 15, 20, 19, 18, 23, 22, 21, 26, 25, 24, 29, 28, 27, 32, 31,
    0, 1, 2, 3, 4, 5, 6, 7, 8, 9, 10, 11, 12, 13, 16, 15,
    14, 19, 18, 17, 22, 21, 20, 25, 24, 23, 28, 27, 26, 31, 30, 29>>
common_vector_path(mem) ==
  LET r(k) == Register(mem, k, 16)
      indices(k) == Register(kTableIndices, k, 16)
      once == tbl(r(0) \o r(1), indices(1))
  IN  tbl(r(0) \o r(1), indices(0)) \o tbl(once \o r(2), indices(2))
        \o tbl(r(1) \o r(2), indices(3))

RGBAToBGRA(mem) ==
  LET indices == <<2, 1, 0, 3, 6, 5, 4, 7, 10, 9, 8, 11, 14, 13, 12, 15>>
      out(k) == tbl(Register(mem, k, 16), indices)
  IN  out(0) \o out(1) \o out(2) \o out(3)
RGBToBGRA(mem) ==
  LET p == Planes(mem, 3)
  IN  StoreInterleaved(<<p[3], p[2], p[1], AlphaPlane(p[1])>>)
RGBToRGBA(mem) ==
  LET p == Planes(mem, 3)
  IN  StoreInterleaved(<<p[1], p[2], p[3], AlphaPlane(p[1])>>)
RGBAToBGR(mem) ==
  LET p == Planes(mem, 4) IN StoreInterleaved(<<p[3], p[2], p[1]>>)
RGBAToRGB(mem) ==
  LET p == Planes(mem, 4) IN StoreInterleaved(<<p[1], p[2], p[3]>>)

\* The classes of SVE2 and SME, of which only RGBToBGR uses tables.
RGBAToBGRA_sc(mem) ==
  LET p == Planes(mem, 4) IN StoreInterleaved(<<p[3], p[2], p[1], p[4]>>)
RGBToBGRA_sc(mem) ==
  LET p == Planes(mem, 3)
  IN  StoreInterleaved(<<p[3], p[2], p[1], AlphaPlane(p[1])>>)
RGBToRGBA_sc(mem) ==
  LET p == Planes(mem, 3)
  IN  StoreInterleaved(<<p[1], p[2], p[3], AlphaPlane(p[1])>>)
RGBAToBGR_sc(mem) ==
  LET p == Planes(mem, 4) IN StoreInterleaved(<<p[3], p[2], p[1]>>)
RGBAToRGB_sc(mem) ==
  LET p == Planes(mem, 4) IN StoreInterleaved(<<p[1], p[2], p[3]>>)

-----------------------------------------------------------------------------
(***************************************************************************)
(* Gray to RGB.  A lane of the output tables is an index into the register *)
(* of gray pixels; SVE computes it for its own length, dividing by three   *)
(* with a multiplication by 171 in eight bits.                             *)
(***************************************************************************)
kGrayToRGBTableIndices ==
  <<0, 0, 0, 1, 1, 1, 2, 2, 2, 3, 3, 3, 4, 4, 4, 5,
    5, 5, 6, 6, 6, 7, 7, 7, 8, 8, 8, 9, 9, 9, 10, 10,
    10, 11, 11, 11, 12, 12, 12, 13, 13, 13, 14, 14, 14, 15, 15, 15>>
kGrayToRGBATableIndices ==
  <<0, 0, 0, 16, 1, 1, 1, 16, 2, 2, 2, 16, 3, 3, 3, 16,
    4, 4, 4, 16, 5, 5, 5, 16, 6, 6, 6, 16, 7, 7, 7, 16,
    8, 8, 8, 16, 9, 9, 9, 16, 10, 10, 10, 16, 11, 11, 11, 16,
    12, 12, 12, 16, 13, 13, 13, 16, 14, 14, 14, 16, 15, 15, 15, 16>>

svindex_u8(base, n) == [i \in 1..n |-> (base + i - 1) % 256]
\* svmulh by 171 and a shift: x * 171 / 512.
DivideBy3(v) == [i \in DOMAIN v |-> ((v[i] * 171) \div 256) \div 2]
qadd(v, x) == [i \in DOMAIN v |-> Saturate(v[i] + x, U8)]

\* Mutant: 256 lanes are treated like fewer.
initialize_indices_NoSpecialCase(n) ==
  DivideBy3(svindex_u8(0, n))
    \o qadd(DivideBy3(svindex_u8(n % 3, n)), n \div 3)
    \o qadd(DivideBy3(svindex_u8((2 * n) % 3, n)), (2 * n) \div 3)

initialize_indices(n) ==
  LET zero == [i \in 1..n |-> 0]
      second == IF n = 256
                  THEN ext(zero, qadd(svindex_u8(n % 3, n), 2), 254)
                  ELSE svindex_u8(n % 3, n)
      third == IF n = 256
                 THEN ext(zero, qadd(svindex_u8(0, n), 3), 255)
                 ELSE svindex_u8((2 * n) % 3, n)
  IN  DivideBy3(svindex_u8(0, n)) \o qadd(DivideBy3(second), n \div 3)
        \o qadd(DivideBy3(third), (2 * n) \div 3)

\* svindex_u32 over words of four indices, the last one of the alpha.
initialize_rgba_indices(n) ==
  [i \in 1..4 * n |-> IF i % 4 = 0 THEN n % 256 ELSE ((i - 1) \div 4) % 256]

GrayToRGB(src) == tbl(src, kGrayToRGBTableIndices)
GrayToRGBA(src) == tbl(src \o AlphaPlane(src), kGrayToRGBATableIndices)
GrayToRGB_sc(src) == tbl(src, initialize_indices(Len(src)))
GrayToRGBAWithInterleaving(src) ==
  StoreInterleaved(<<src, src, src, AlphaPlane(src)>>)
GrayToRGBAWithLookUpTable(src) ==
  tbl(src \o AlphaPlane(src), initialize_rgba_indices(Len(src)))
\* Vectors of more than 128 bytes leave no index for the alpha.
gray_to_rgba_u8_sc(src) ==
  IF Len(src) <= 128 THEN GrayToRGBAWithLookUpTable(src)
  ELSE GrayToRGBAWithInterleaving(src)

\* The tail: a predicate of `active` lanes becomes those of cn registers.
make_consecutive_predicates(active, n, cn) ==
  [k \in 1..cn |-> {i \in 0..n - 1 : i < cn * active - (k - 1) * n}]

-----------------------------------------------------------------------------
(***************************************************************************)
(* Merge and split, for samples of w bytes.                                *)
(***************************************************************************)
Merge2(a, b) == zip1(a, b) \o zip2(a, b)

kMerge3Indices(w) ==
  IF w = 1
    THEN <<0, 16, 32, 1, 17, 33, 2, 18, 34, 3, 19, 35, 4, 20, 36, 5,
           21, 37, 6, 22, 38, 7, 23, 39, 8, 24, 40, 9, 25, 41, 10, 26,
           42, 11, 27, 43, 12, 28, 44, 13, 29, 45, 14, 30, 46, 15, 31, 47>>
    ELSE <<0, 1, 16, 17, 32, 33, 2, 3, 18, 19, 34, 35, 4, 5, 20, 21,
           36, 37, 6, 7, 22, 23, 38, 39, 8, 9, 24, 25, 40, 41, 10, 11,
           26, 27, 42, 43, 12, 13, 28, 29, 44, 45, 14, 15, 30, 31, 46, 47>>
Merge3(a, b, c, w) ==
  tbl(BytesOf(a, w) \o BytesOf(b, w) \o BytesOf(c, w), kMerge3Indices(w))

Merge3_u32(a, b, c) ==
  LET w == trn2(a, b)
      x == trn1(c, w)
      y == trn2(w, c)
      z == trn1(a, b)
  IN  low(z) \o low(x) \o low(y) \o high(z) \o high(x) \o high(y)
Merge3_u64(a, b, c) ==
  zip1(a, b) \o <<c[1], a[2]>> \o zip2(b, c)

Merge4(a, b, c, d) ==
  LET ab1 == Wide(zip1(a, b), 2)
      cd1 == Wide(zip1(c, d), 2)
      ab2 == Wide(zip2(a, b), 2)
      cd2 == Wide(zip2(c, d), 2)
  IN  Narrow(zip1(ab1, cd1)) \o Narrow(zip2(ab1, cd1))
        \o Narrow(zip1(ab2, cd2)) \o Narrow(zip2(ab2, cd2))
Merge4_u64(a, b, c, d) ==
  zip1(a, b) \o zip1(c, d) \o zip2(a, b) \o zip2(c, d)

Split2(r0, r1) == <<uzp1(r0, r1), uzp2(r0, r1)>>

\* Split3Init: byte k of sample s of channel c is byte 3 * w * s + w * c + k.
Split3Init(w) ==
  [c \in 1..3 |-> [i \in 1..16 |->
     3 * w * ((i - 1) \div w) + w * (c - 1) + ((i - 1) % w)]]
Split3(mem, w) == [c \in 1..3 |-> tbl(BytesOf(mem, w), Split3Init(w)[c])]

Split4(r0, r1, r2, r3) ==
  LET even1 == Narrow(uzp1(Wide(r0, 2), Wide(r1, 2)))
      even2 == Narrow(uzp1(Wide(r2, 2), Wide(r3, 2)))
      odd1 == Narrow(uzp2(Wide(r0, 2), Wide(r1, 2)))
      odd2 == Narrow(uzp2(Wide(r2, 2), Wide(r3, 2)))
  IN  <<uzp1(even1, even2), uzp2(even1, even2),
        uzp1(odd1, odd2), uzp2(odd1, odd2)>>
Split4_u64(r0, r1, r2, r3) ==
  <<uzp1(r0, r2), uzp2(r0, r2), uzp1(r1, r3), uzp2(r1, r3)>>
=============================================================================
