------------------------------- MODULE Lanes -------------------------------
(***************************************************************************)
(* The vector instructions the kernels are built from, as the NEON and SVE *)
(* intrinsics define them.  A vector is the sequence of its lanes; an      *)
(* integer type is the record of its bounds.                               *)
(***************************************************************************)
EXTENDS Integers, Sequences

U8  == [lo |-> 0, hi |-> 255]
S8  == [lo |-> -128, hi |-> 127]
U16 == [lo |-> 0, hi |-> 65535]
S16 == [lo |-> -32768, hi |-> 32767]

Signed(t) == t.lo < 0
Overflows(x, t) == x < t.lo \/ x > t.hi
\* vqmovn, and the last step of every saturating instruction.
Saturate(x, t) == IF x < t.lo THEN t.lo ELSE IF x > t.hi THEN t.hi ELSE x
\* A register keeps the low bits of a result.
Wrap(x, t) == t.lo + ((x - t.lo) % (t.hi - t.lo + 1))

AbsDiff(a, b) == IF a < b THEN b - a ELSE a - b
\* vrshr and vrshrn: shift right and round to nearest, halves up.
RoundingShift(x, n) == (x + 2^(n - 1)) \div 2^n
\* vcvtn and lrintf of x / 2: round to nearest, halves to even.
RoundHalf(x) == IF x % 4 = 3 THEN x \div 2 + 1 ELSE x \div 2

-----------------------------------------------------------------------------
Half(s) == Len(s) \div 2

zip1(a, b) == [i \in 1..Len(a) |-> IF i % 2 = 1 THEN a[(i + 1) \div 2]
                                                 ELSE b[i \div 2]]
zip2(a, b) == [i \in 1..Len(a) |->
                 IF i % 2 = 1 THEN a[Half(a) + (i + 1) \div 2]
                              ELSE b[Half(a) + i \div 2]]
uzp1(a, b) == [i \in 1..Len(a) |-> (a \o b)[2 * i - 1]]
uzp2(a, b) == [i \in 1..Len(a) |-> (a \o b)[2 * i]]
trn1(a, b) == [i \in 1..Len(a) |-> IF i % 2 = 1 THEN a[i] ELSE b[i - 1]]
trn2(a, b) == [i \in 1..Len(a) |-> IF i % 2 = 1 THEN a[i + 1] ELSE b[i]]
ext(a, b, n) == [i \in 1..Len(a) |-> (a \o b)[i + n]]
rev(a) == [i \in 1..Len(a) |-> a[Len(a) + 1 - i]]
low(a) == SubSeq(a, 1, Half(a))
high(a) == SubSeq(a, Half(a) + 1, Len(a))
\* tbl: lane i of the result is the table entry numbered idx[i], or zero.
tbl(table, idx) ==
  [i \in 1..Len(idx) |-> IF idx[i] < Len(table) THEN table[idx[i] + 1] ELSE 0]
\* tbx: an index outside the table keeps the lane of acc.
tbx(acc, table, idx) ==
  [i \in 1..Len(idx) |->
     IF idx[i] < Len(table) THEN table[idx[i] + 1] ELSE acc[i]]

\* A register seen with lanes of n times the width: each new lane is the
\* tuple of the n old ones, least significant first.
Wide(s, n) == [i \in 1..Len(s) \div n |->
                 [j \in 1..n |-> s[n * (i - 1) + j]]]
Narrow(s) == [i \in 1..Len(s) * Len(s[1]) |->
                s[(i - 1) \div Len(s[1]) + 1][((i - 1) % Len(s[1])) + 1]]
\* svmovlb and svmovlt (and the b and t forms of other instructions) take the
\* even and the odd lanes; a b form followed by a t form puts them together.
movlb(s) == [i \in 1..Half(s) |-> s[2 * i - 1]]
movlt(s) == [i \in 1..Half(s) |-> s[2 * i]]
BottomTop(b, t) == [i \in 1..2 * Len(b) |->
                      IF i % 2 = 1 THEN b[(i + 1) \div 2] ELSE t[i \div 2]]
\* The bytes of lanes of w bytes, numbered, and register k of n lanes in a memory.
BytesOf(s, w) == [i \in 1..w * Len(s) |->
                    8 * s[(i - 1) \div w + 1] + ((i - 1) % w)]
Register(mem, k, n) == SubSeq(mem, k * n + 1, (k + 1) * n)
=============================================================================
