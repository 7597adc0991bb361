-------------------------- MODULE ArithmeticCalls ---------------------------
(***************************************************************************)
(* The element-wise kernels of kleidicv/src/arithmetics, and calls of them *)
(* with the values at which they saturate, round and wrap.                 *)
(*                                                                         *)
(* An operation is given by what each of its code paths computes for one   *)
(* element: the vector path of the NEON class, its scalar path (the tail   *)
(* of a row), and the vector path of the SVE2 and SME class (sc), which    *)
(* has no tail.                                                            *)
(***************************************************************************)
EXTENDS KernelCall, Integers, Sequences
LOCAL INSTANCE Lanes
LOCAL INSTANCE FiniteSetsExt

CONSTANTS
  Scales, Shifts     \* of kleidicv_scale_u8, in halves

vqadd(a, b, t) == Saturate(a + b, t)
vqsub(a, b, t) == Saturate(a - b, t)
vqabs(a, t) == Saturate(AbsDiff(a, 0), t)
Mask(p) == IF p THEN 255 ELSE 0

SaturatingAdd(a, b, t) ==
  [vector |-> vqadd(a, b, t),
   scalar |-> IF Overflows(a + b, t)
                THEN IF Signed(t) /\ b < 0 THEN t.lo ELSE t.hi
                ELSE a + b]

SaturatingSub(a, b, t) ==
  [vector |-> vqsub(a, b, t),
   scalar |-> IF Overflows(a - b, t)
                THEN IF Signed(t) /\ b < 0 THEN t.hi ELSE t.lo
                ELSE a - b]

\* The signed kernel takes the absolute value of a saturated difference.
SaturatingAbsDiff(a, b, t) ==
  [vector |-> IF Signed(t) THEN vqabs(vqsub(a, b, t), t) ELSE AbsDiff(a, b),
   scalar |-> LET difference == Max({a, b}) - Min({a, b})
              IN  IF Overflows(difference, t) THEN t.hi ELSE difference]

SaturatingMultiply(a, b, t) ==
  [vector |-> Saturate(a * b, t),
   scalar |-> IF ~Overflows(a * b, t) THEN a * b
              ELSE IF Signed(t) /\ ((a < 0 /\ b > 0) \/ (a > 0 /\ b < 0))
                THEN t.lo ELSE t.hi]

saturate_abs(a, t) == IF Signed(t) /\ a = t.lo THEN t.hi ELSE AbsDiff(a, 0)

SaturatingAddAbsWithThreshold(a, b, threshold, t) ==
  LET v == vqadd(vqabs(a, t), vqabs(b, t), t)
      sum == saturate_abs(a, t) + saturate_abs(b, t)
      s == IF Overflows(sum, t) THEN t.hi ELSE sum
  IN  [vector |-> IF v > threshold THEN v ELSE 0,
       scalar |-> IF s > threshold THEN s ELSE 0]

BinaryThreshold(a, threshold, value) ==
  [vector |-> IF a > threshold THEN value ELSE 0,
   scalar |-> IF a > threshold THEN value ELSE 0]

InRange_u8(a, lower, upper) ==
  [vector |-> IF a >= lower /\ a <= upper THEN 255 ELSE 0,
   scalar |-> Mask(a >= lower /\ a <= upper)]

ComparatorEqual(a, b) == [vector |-> Mask(a = b), scalar |-> Mask(a = b)]
ComparatorGreater(a, b) == [vector |-> Mask(a > b), scalar |-> Mask(a > b)]

-----------------------------------------------------------------------------
\* The SVE2 and SME classes.  svqsub_m and svqabs_x are the instructions of
\* the NEON kernels; in_range is computed without a comparison.
SaturatingAdd_sc(a, b, t) == vqadd(a, b, t)
SaturatingSub_sc(a, b, t) == vqsub(a, b, t)
SaturatingAbsDiff_sc(a, b, t) ==
  IF Signed(t) THEN vqabs(vqsub(a, b, t), t) ELSE AbsDiff(a, b)
\* Even and odd lanes are multiplied and narrowed separately.
SaturatingMultiply_sc(a, b, t) == Saturate(a * b, t)
SaturatingAddAbsWithThreshold_sc(a, b, threshold, t) ==
  LET add_abs == vqadd(vqabs(a, t), vqabs(b, t), t)
  IN  IF add_abs > threshold THEN add_abs ELSE 0
BinaryThreshold_sc(a, threshold, value) == IF a > threshold THEN value ELSE 0
ComparatorEqual_sc(a, b) == Mask(a = b)
ComparatorGreater_sc(a, b) == Mask(a > b)

\* Leading zeros of a byte.
clz(x) == 8 - Min({n \in 0..8 : x < 2^n})

\* A byte is 0 - (clz >> 3); clz(x | y) is the smaller of clz(x), clz(y).
InRange_u8_sc(a, lower, upper) ==
  LET outrange == {vqsub(lower, a, U8), vqsub(a, upper, U8)}
      lz == Min({clz(x) : x \in outrange})
  IN  Wrap(0 - (lz \div 2^3), U8)

-----------------------------------------------------------------------------
(***************************************************************************)
(* kleidicv_scale_u8.  Scale and shift are given in halves, so that every  *)
(* product is exact in the floats of the code and halves have to round.    *)
(***************************************************************************)
Scaled(a, scale, shift) == a * scale + shift

\* scale_value: lrintf, then a comparison as unsigned integers.
scale_value(a, scale, shift) ==
  LET v == RoundHalf(Scaled(a, scale, shift))
  IN  IF v \in 0..255 THEN v ELSE IF v > 0 THEN 255 ELSE 0

\* ScaleUint8Calc: four conversions to 32 bits, of which vuzp1q keeps the
\* low 16 and vqmovn saturates those to 8.
ScaleUint8Calc(a, scale, shift) ==
  LET v == RoundHalf(Scaled(a, scale, shift))
  IN  [vector |-> Saturate(Wrap(IF v < 0 THEN 0 ELSE v, U16), U8),
       scalar |-> scale_value(a, scale, shift)]

\* precalculate_scale_table_u8 clamps before it converts.
precalculate_scale_table_u8(scale, shift) ==
  [i \in 1..256 |->
     RoundHalf(Max({0, Min({Scaled(i - 1, scale, shift), 2 * 255})}))]

\* ScaleUint8Tbx: six lookups in parts of the table; the index is reduced
\* in between and wraps, which must take it outside the later parts.
TableParts == <<<<0, 48>>, <<48, 48>>, <<96, 32>>, <<128, 48>>, <<176, 32>>,
                <<208, 48>>>>
Part(table, k) ==
  SubSeq(table, TableParts[k][1] + 1, TableParts[k][1] + TableParts[k][2])
Steps == [k \in 1..6 |-> TableParts[k][1]]

\* Mutant: the index is not reduced before the second part.
ScaleUint8Tbx_OneIndex(a, table) ==
  LET lookup[k \in 1..6] ==
        LET idx == <<Wrap(a - (IF k = 2 THEN 0 ELSE Steps[k]), U8)>>
        IN  IF k = 1 THEN tbl(Part(table, 1), idx)
            ELSE tbx(lookup[k - 1], Part(table, k), idx)
  IN  [vector |-> lookup[6][1], scalar |-> table[a + 1]]

ScaleUint8Tbx(a, table) ==
  LET lookup[k \in 1..6] ==
        LET idx == <<Wrap(a - Steps[k], U8)>>
        IN  IF k = 1 THEN tbl(Part(table, 1), idx)
            ELSE tbx(lookup[k - 1], Part(table, k), idx)
  IN  [vector |-> lookup[6][1], scalar |-> table[a + 1]]

\* Images of less than 675 pixels are computed, others are looked up.
scale_u8(a, scale, shift, pixels) ==
  IF pixels < 675 THEN ScaleUint8Calc(a, scale, shift)
  ELSE ScaleUint8Tbx(a, precalculate_scale_table_u8(scale, shift))

-----------------------------------------------------------------------------
(***************************************************************************)
(* Kernels that widen or narrow their lanes.  Their arithmetic is in       *)
(* floats and is done lane by lane; what can go wrong is the order of the  *)
(* lanes, so a register is followed as the sequence of its bytes, each     *)
(* named after the element it belongs to, 0 being a zero byte.             *)
(***************************************************************************)
Zeros(s) == [i \in 1..Len(s) |-> 0]

\* A float conversion needs the element in the low byte, zeros above it.
Convert(words) ==
  [i \in 1..Len(words) |->
     IF \A j \in 2..Len(words[i]) : words[i][j] = 0
       THEN words[i][1] ELSE -1]

\* svcvtnt: the bottom results in even lanes, the top results in odd ones.
cvtnt(b, t) == [i \in 1..2 * Len(b) |->
                  IF i % 2 = 1 THEN b[(i + 1) \div 2] ELSE t[i \div 2]]

\* The tables kW0 .. kW3 spread 16 bytes over four registers of 32 bits.
Spread(src, k) ==
  tbl(src, [i \in 1..16 |-> IF i % 4 = 1 THEN 4 * k + (i \div 4) ELSE 255])
ScaleUint8ToFloat16(src) ==
  LET res(k) == Convert(Wide(Spread(src, k), 4))
  IN  (res(0) \o res(1)) \o (res(2) \o res(3))

ScaleUint8ToFloat16Calc16(src) ==
  LET z == Zeros(src)
  IN  Convert(Wide(zip1(src, z), 2)) \o Convert(Wide(zip2(src, z), 2))

ScaleUint8ToFloat16Calc32(src) ==
  LET z == Zeros(src)
      src_b == trn1(src, z)
      src_t == trn2(src, z)
      f(v) == Convert(Wide(v, 4))
  IN  cvtnt(f(zip1(src_b, z)), f(zip1(src_t, z))) \o
      cvtnt(f(zip2(src_b, z)), f(zip2(src_t, z)))

\* The rest of a row, loaded with 16 bits per element.
ScaleUint8ToFloat16Calc32_remaining(src) ==
  LET z == Zeros(src)
  IN  cvtnt(Convert(Wide(trn1(src, z), 2)), Convert(Wide(trn2(src, z), 2)))

\* in_range of floats: four registers of 32-bit masks become one of bytes.
\* A mask is all ones in NEON; in SVE only the low byte of 0xFF is set.
NarrowMasks(masks) ==
  LET uzp(a, b, n) == Narrow(uzp1(Wide(a, n), Wide(b, n)))
  IN  uzp(uzp(masks[1], masks[2], 2), uzp(masks[3], masks[4], 2), 1)
MaskBytes(lanes, ones) ==
  [i \in 1..4 * Len(lanes) |->
     IF (i - 1) % 4 < ones THEN lanes[(i + 3) \div 4] ELSE 0]
Quarter(src, k) ==
  SubSeq(src, (k - 1) * (Len(src) \div 4) + 1, k * (Len(src) \div 4))
InRange_f32(src) ==
  NarrowMasks([k \in 1..4 |-> MaskBytes(Quarter(src, k), 4)])
InRange_f32_sc(src) ==
  NarrowMasks([k \in 1..4 |-> MaskBytes(Quarter(src, k), 1)])

-----------------------------------------------------------------------------
(***************************************************************************)
(* exp of floats.  The polynomial is float arithmetic and left out; the    *)
(* factor 2^n is put together from bit patterns, modelled here as the top  *)
(* nine bits (sign and exponent) of a float.  n is the rounded x / ln2.    *)
(***************************************************************************)
Top(x) == x % 512
Bias == 127
\* The exponent of a pattern, or "bad" for a negative, infinite or
\* denormal float.
Exponent(top) == IF top \in 1..254 THEN top - Bias ELSE 1000

\* 0x3f800000, 0x83000000 and 0x7f000000 are 127, 262 and 254 here.
specialcase(n) ==
  LET e == Top(n)
      b == IF n <= 0 THEN 262 ELSE 0
  IN  [s1 |-> Exponent(Top(254 + b)), s2 |-> Exponent(Top(e - b))]
\* In NEON, and in SVE on the short path, one large lane sends all lanes of
\* the vector to the special case: any tells whether there is one.
ExpScale(n, any) ==
  IF any \/ AbsDiff(n, 0) > 126
    THEN specialcase(n).s1 + specialcase(n).s2
    ELSE Exponent(Top(Top(n) + 127))
ExpScale_sc(n, any, TryShortPath) ==
  IF ~TryShortPath \/ any \/ AbsDiff(n, 0) > 126
    THEN specialcase(n).s1 + specialcase(n).s2
    ELSE Exponent(Top(Top(n) + 127))

\* kleidicv_f32_to_s8 and _u8, of a float given in halves; its results are
\* narrowed twice on NEON.  A NaN is converted to zero by the instruction.
float_conversion(x, t) ==
  LET wide == IF Signed(t) THEN S16 ELSE U16
      v == RoundHalf(x)
  IN  [vector |-> Saturate(Saturate(IF Signed(t) \/ v > 0 THEN v ELSE 0, wide), t),
       scalar |-> IF v > t.hi THEN t.hi ELSE IF v < t.lo THEN t.lo ELSE v]
\* svcvt to unsigned words saturates at zero; the rest of a row is clamped
\* before it is converted, from above only when it is unsigned.
float_conversion_sc(x, t) ==
  LET v == RoundHalf(x)
      clamped == IF v > t.hi THEN t.hi
                 ELSE IF Signed(t) /\ v < t.lo THEN t.lo ELSE v
  IN  [vector |-> Saturate(IF Signed(t) \/ v > 0 THEN v ELSE 0, t),
       scalar |-> IF Signed(t) \/ clamped > 0 THEN clamped ELSE 0]

\* kleidicv_s8_to_f32 puts an element into the high byte of a word and
\* converts with 24 fraction bits, kleidicv_u8_to_f32 into the low byte.
s8_to_f32(src) ==
  LET spread(k) ==
        Wide(tbl(src, [i \in 1..16 |-> IF i % 4 = 0 THEN 4 * k + i \div 4 - 1
                                       ELSE 255]), 4)
      convert(word) == IF \A j \in 1..3 : word[j] = 0 THEN word[4] ELSE -1
      res(k) == [i \in 1..4 |-> convert(spread(k)[i])]
  IN  res(0) \o res(1) \o res(2) \o res(3)
u8_to_f32(src) ==
  LET res(k) == Convert(Wide(Spread(src, k), 4))
  IN  res(0) \o res(1) \o res(2) \o res(3)

\* SvqvctWrapper: four registers of words narrowed to one of bytes, with a
\* table to put the lanes back in order.
SvqvctWrapper(input) ==
  LET q == Len(input[1])
      half_width_res0 == cvtnt(input[1], input[3])
      half_width_res1 == cvtnt(input[2], input[4])
      index == [i \in 1..4 * q |-> (i - 1) \div q + 4 * ((i - 1) % q)]
  IN  tbl(cvtnt(half_width_res0, half_width_res1), index)
-----------------------------------------------------------------------------
Edges(t) == {t.lo, t.lo + 1, -1, 0, 1, 2, 15, 16, 17, (t.hi + 1) \div 2,
             t.hi - 1, t.hi} \cap (t.lo..t.hi)
Types == {U8, S8, U16, S16}

\* The two paths of a NEON class, and the class of SVE2 and SME.
Paths(neon, sc) == {neon.vector, neon.scalar, sc}

AddOrSub ==
  \E t \in Types : \E a, b \in Edges(t) :
    \/ /\ call' = [kernel |-> "add", a |-> a, b |-> b, t |-> t]
       /\ result' = Paths(SaturatingAdd(a, b, t), SaturatingAdd_sc(a, b, t))
    \/ /\ call' = [kernel |-> "sub", a |-> a, b |-> b, t |-> t]
       /\ result' = Paths(SaturatingSub(a, b, t), SaturatingSub_sc(a, b, t))

AbsDiffOrMultiply ==
  \E t \in Types : \E a, b \in Edges(t) :
    \/ /\ call' = [kernel |-> "absdiff", a |-> a, b |-> b, t |-> t]
       /\ result' = Paths(SaturatingAbsDiff(a, b, t),
                          SaturatingAbsDiff_sc(a, b, t))
    \/ /\ t # U16    \* products beyond 2^31
       /\ call' = [kernel |-> "multiply", a |-> a, b |-> b, t |-> t]
       /\ result' = Paths(SaturatingMultiply(a, b, t),
                          SaturatingMultiply_sc(a, b, t))

AddAbsWithThreshold ==
  \E a, b, threshold \in Edges(S16) :
    /\ call' = [kernel |-> "add_abs", a |-> a, b |-> b, t |-> S16,
                threshold |-> threshold]
    /\ result' = Paths(SaturatingAddAbsWithThreshold(a, b, threshold, S16),
                       SaturatingAddAbsWithThreshold_sc(a, b, threshold, S16))

\* A float is given in halves.
FloatToInteger ==
  \E t \in {U8, S8}, x \in {-131072, -300, -257, -256, -255, -3, -1, 0, 1, 3, 5,
                           253, 254, 255, 509, 510, 511, 1024, 131071} :
    LET neon == float_conversion(x, t)
        sc == float_conversion_sc(x, t)
    IN  /\ call' = [kernel |-> "float_conversion", x |-> x, t |-> t]
        /\ result' = {neon.vector, neon.scalar, sc.vector, sc.scalar}

Thresholds ==
  \E a, lower, upper \in Edges(U8) :
    \/ /\ call' = [kernel |-> "threshold", a |-> a, lower |-> lower,
                   upper |-> upper]
       /\ result' = Paths(BinaryThreshold(a, lower, upper),
                          BinaryThreshold_sc(a, lower, upper))
    \/ /\ call' = [kernel |-> "in_range", a |-> a, lower |-> lower,
                   upper |-> upper]
       /\ result' = Paths(InRange_u8(a, lower, upper),
                          InRange_u8_sc(a, lower, upper))

Compare ==
  \E a, b \in Edges(U8) :
    \/ /\ call' = [kernel |-> "compare_equal", a |-> a, b |-> b]
       /\ result' = Paths(ComparatorEqual(a, b), ComparatorEqual_sc(a, b))
    \/ /\ call' = [kernel |-> "compare_greater", a |-> a, b |-> b]
       /\ result' = Paths(ComparatorGreater(a, b), ComparatorGreater_sc(a, b))

Scale ==
  \E scale \in Scales, shift \in Shifts, pixels \in {674, 675} :
    /\ call' = [kernel |-> "scale", scale |-> scale, shift |-> shift]
    /\ result' = [a \in U8.lo..U8.hi |->
                    scale_u8(a, scale, shift, pixels)]

\* 16 or, on SVE, 32 lanes, each named by its number.
LaneKernels ==
  \E lanes \in {16, 32} :
    LET v == [i \in 1..lanes |-> i]
    IN  /\ call' = [kernel |-> "lanes", lanes |-> v]
        /\ result' = (IF lanes = 16 THEN {ScaleUint8ToFloat16(v), s8_to_f32(v),
                                          u8_to_f32(v)} ELSE {})
                     \cup {ScaleUint8ToFloat16Calc16(v),
                           ScaleUint8ToFloat16Calc32(v),
                           ScaleUint8ToFloat16Calc32_remaining(v),
                           InRange_f32(v), InRange_f32_sc(v),
                           SvqvctWrapper([k \in 1..4 |-> Quarter(v, k)])}

Exp ==
  \E n \in -192..192, any \in BOOLEAN :
    /\ call' = [kernel |-> "exp", n |-> n]
    /\ result' = {ExpScale(n, any), ExpScale_sc(n, any, TRUE),
                  ExpScale_sc(n, any, FALSE)}

ArithmeticKernels ==
  \/ AddOrSub \/ AbsDiffOrMultiply \/ AddAbsWithThreshold
  \/ FloatToInteger \/ Thresholds \/ Compare \/ Scale \/ LaneKernels \/ Exp
-----------------------------------------------------------------------------
(* Every code path of the saturating kernels returns the exact result,     *)
(* moved to the nearest value of the type: a row's vectors, its tail and   *)
(* the SVE2 and SME kernels cannot differ.                                 *)
SaturatesOnEveryPath ==
  /\ call.kernel = "add" => result = {Saturate(call.a + call.b, call.t)}
  /\ call.kernel = "sub" => result = {Saturate(call.a - call.b, call.t)}
  /\ call.kernel = "absdiff" =>
       result = {Saturate(AbsDiff(call.a, call.b), call.t)}
  /\ call.kernel = "multiply" => result = {Saturate(call.a * call.b, call.t)}
  /\ call.kernel = "add_abs" =>
       LET sum == Saturate(AbsDiff(call.a, 0) + AbsDiff(call.b, 0), call.t)
       IN  result = {IF sum > call.threshold THEN sum ELSE 0}
  /\ call.kernel = "float_conversion" =>
       result = {Saturate(RoundHalf(call.x), call.t)}

(* The comparison kernels, one of which counts leading zeros instead of    *)
(* comparing, select the same pixels on every path.                        *)
SelectsOnEveryPath ==
  /\ call.kernel = "threshold" =>
       result = {IF call.a > call.lower THEN call.upper ELSE 0}
  /\ call.kernel = "in_range" =>
       result = {Mask(call.a \in call.lower..call.upper)}
  /\ call.kernel = "compare_equal" => result = {Mask(call.a = call.b)}
  /\ call.kernel = "compare_greater" => result = {Mask(call.a > call.b)}

(* kleidicv_scale_u8 returns "the smallest/largest number of the type of   *)
(* the element if the result would underflow/overflow" (kleidicv.h:1067)   *)
(* on its vector, scalar and table paths alike.                            *)
ScaleSaturates ==
  call.kernel = "scale" =>
    \A a \in U8.lo..U8.hi :
      LET exact == Saturate(RoundHalf(a * call.scale + call.shift), U8)
      IN  result[a] = [vector |-> exact, scalar |-> exact]

(* Kernels that widen or narrow registers return the elements in the order *)
(* in which they came, whatever the number of lanes.                       *)
LanesKeepOrder == call.kernel = "lanes" => result = {call.lanes}

(* The float 2^n that exp multiplies its polynomial by is put together     *)
(* from bit patterns without leaving the normal floats, up to the bound    *)
(* beyond which the result is zero or infinity.                            *)
ExpPowerExact == call.kernel = "exp" => result = {call.n}
=============================================================================
