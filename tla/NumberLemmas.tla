---------------------------- MODULE NumberLemmas ----------------------------
(***************************************************************************)
(* Facts about numbers that the proofs share.  A set of numbers that is    *)
(* not empty has a least element, which is how induction over data is done *)
(* in this project: the least counterexample leads to a smaller one.       *)
(***************************************************************************)
EXTENDS Integers, WellFoundedInduction, TLAPS

\* The naturals are well-founded, so that a set of them has a least element.
Below == {p \in Nat \X Nat : p[1] < p[2]}

LEMMA BelowWellFounded == IsWellFoundedOn(Below, Nat)
<1>1. Below = OpToRel(<, Nat)
  BY DEF Below, OpToRel
<1> QED
  BY <1>1, NatLessThanWellFounded

LEMMA Least ==
  ASSUME NEW T, T \subseteq Nat, T # {}
  PROVE  \E x \in T : \A y \in T : x <= y
<1>1. \A x, y \in Nat : <<y, x>> \in Below <=> y < x
  BY DEF Below
<1>2. PICK x \in T : \A y \in T : ~(<<y, x>> \in Below)
  BY BelowWellFounded, WFMin
<1>3. ASSUME NEW y \in T PROVE x <= y
  <2>1. x \in Nat /\ y \in Nat /\ ~(y < x)
    BY <1>1, <1>2
  <2> QED
    BY <2>1
<1> QED
  BY <1>2, <1>3

\* A finite row of numbers has a first one that none is smaller than.
LEMMA FirstLeast ==
  ASSUME NEW n \in Nat \ {0}, NEW f \in [0..n - 1 -> Nat]
  PROVE  \E i \in 0..n - 1 : \A j \in 0..n - 1 :
           f[i] <= f[j] /\ (j < i => f[i] < f[j])
<1> DEFINE S == {f[i] : i \in 0..n - 1}
<1>1. S \subseteq Nat /\ f[0] \in S
  OBVIOUS
<1>2. PICK least \in S : \A y \in S : least <= y
  BY <1>1, Least
<1> DEFINE T == {i \in 0..n - 1 : f[i] = least}
<1>3. T \subseteq Nat /\ T # {}
  <2>1. PICK i \in 0..n - 1 : f[i] = least
    BY <1>2
  <2>2. i \in T
    BY <2>1
  <2>3. T \subseteq 0..n - 1
    OBVIOUS
  <2> HIDE DEF T
  <2> QED
    BY <2>2, <2>3
<1>4. PICK i \in T : \A j \in T : i <= j
  <2> HIDE DEF T
  <2> QED
    BY <1>3, Least
<1>5. i \in 0..n - 1 /\ f[i] = least
  BY <1>4
<1>6. ASSUME NEW j \in 0..n - 1 PROVE f[i] <= f[j] /\ (j < i => f[i] < f[j])
  <2>1. f[j] \in S /\ f[j] \in Nat /\ f[i] \in Nat
    BY <1>5
  <2>2. f[i] <= f[j]
    BY <1>2, <1>5, <2>1
  <2>3. j < i => f[j] # f[i]
    BY <1>4, <1>5
  <2> QED
    BY <2>1, <2>2, <2>3
<1> QED
  BY <1>5, <1>6

\* A function of the numbers up to n may be given by its value at 0 and by how
\* each further value comes from the one before.
LEMMA Recursion ==
  ASSUME NEW n \in Nat, NEW base \in Nat, NEW step \in [1..n -> [Nat -> Nat]]
  PROVE  \E g \in [0..n -> Nat] :
           \A i \in 0..n : g[i] = IF i = 0 THEN base ELSE step[i][g[i - 1]]
<1> DEFINE Fits(k, g) ==
             \A i \in 0..k : g[i] = IF i = 0 THEN base ELSE step[i][g[i - 1]]
           Bad == {k \in 0..n : ~ \E g \in [0..k -> Nat] : Fits(k, g)}
<1>1. ASSUME NEW k \in Bad, \A j \in Bad : k <= j PROVE FALSE
  <2>1. CASE k = 0
    <3> DEFINE g == [i \in 0..0 |-> base]
    <3>1. g \in [0..k -> Nat] /\ Fits(k, g)
      BY <2>1
    <3> QED
      BY <3>1
  <2>2. CASE k # 0
    <3>0. k \in 0..n
      OBVIOUS
    <3>1. k \in 1..n /\ k - 1 \in 0..n /\ ~(k - 1 \in Bad)
      <4>1. k \in 1..n /\ k - 1 \in 0..n /\ ~(k <= k - 1)
        BY <2>2, <3>0
      <4> HIDE DEF Bad
      <4> QED
        BY <1>1, <4>1
    <3>2. PICK g \in [0..k - 1 -> Nat] : Fits(k - 1, g)
      BY <3>1
    <3> DEFINE h == [i \in 0..k |-> IF i = k THEN step[k][g[k - 1]] ELSE g[i]]
    <3>3. g[k - 1] \in Nat /\ step[k][g[k - 1]] \in Nat
      <4>1. k - 1 \in 0..k - 1
        BY <3>1
      <4>2. g[k - 1] \in Nat
        BY <3>2, <4>1
      <4>3. step[k] \in [Nat -> Nat]
        BY <3>1
      <4> QED
        BY <4>2, <4>3
    <3>4. h \in [0..k -> Nat]
      <4>1. ASSUME NEW i \in 0..k, i # k PROVE g[i] \in Nat
        <5>1. i \in 0..k - 1
          BY <3>1, <4>1
        <5> QED
          BY <3>2, <5>1
      <4> QED
        BY <3>3, <4>1
    <3>5. /\ \A i \in 0..k - 1 : h[i] = g[i]
          /\ h[k] = step[k][h[k - 1]]
      <4>1. ASSUME NEW i \in 0..k - 1 PROVE i \in 0..k /\ i # k
        BY <3>1
      <4>2. k \in 0..k /\ k - 1 \in 0..k - 1
        BY <3>1
      <4>3. \A i \in 0..k - 1 : h[i] = g[i]
        BY <4>1
      <4>4. h[k] = step[k][g[k - 1]]
        BY <4>2
      <4> QED
        BY <4>2, <4>3, <4>4
    <3> HIDE DEF h
    <3>6. ASSUME NEW i \in 0..k
          PROVE  h[i] = IF i = 0 THEN base ELSE step[i][h[i - 1]]
      <4>1. CASE i = k
        BY <3>1, <3>5, <4>1
      <4>2. CASE i # k
        <5>1. i \in 0..k - 1 /\ (i # 0 => i - 1 \in 0..k - 1)
          BY <3>1, <4>2
        <5>2. h[i] = g[i] /\ (i # 0 => h[i - 1] = g[i - 1])
          BY <3>5, <5>1
        <5>3. g[i] = IF i = 0 THEN base ELSE step[i][g[i - 1]]
          BY <3>2, <5>1
        <5> QED
          BY <5>2, <5>3
      <4> QED
        BY <4>1, <4>2
    <3>7. \E x \in [0..k -> Nat] : Fits(k, x)
      BY <3>4, <3>6
    <3> QED
      BY <3>7
  <2> QED
    BY <2>1, <2>2
<1>2. Bad = {}
  <2>1. Bad \subseteq Nat
    OBVIOUS
  <2> HIDE DEF Bad
  <2> QED
    BY <1>1, <2>1, Least
<1>3. PICK g \in [0..n -> Nat] : Fits(n, g)
  <2>1. n \in 0..n
    OBVIOUS
  <2> HIDE DEF Fits
  <2>2. ~(n \in Bad)
    <3> HIDE DEF Bad
    <3> QED
      BY <1>2
  <2> QED
    BY <2>1, <2>2
<1> QED
  BY <1>3
-----------------------------------------------------------------------------
\* Multiples of a positive number are ordered as their factors are.
LEMMA Multiples ==
  ASSUME NEW B \in Nat \ {0}, NEW q \in Int, NEW k \in Int, q < k
  PROVE  q * B + B <= k * B
<1>1. PICK d \in Nat : k = q + 1 + d
  <2>1. k - q - 1 \in Nat /\ k = q + 1 + (k - q - 1)
    OBVIOUS
  <2> QED
    BY <2>1
<1>2. k * B = q * B + B + d * B
  BY <1>1
<1>3. d * B >= 0
  BY <1>1
<1> QED
  BY <1>2, <1>3

\* Quotient and remainder are unique.
LEMMA Euclid ==
  ASSUME NEW B \in Nat \ {0}, NEW q \in Int, NEW k \in Int,
         NEW r \in 0..B - 1, NEW s \in 0..B - 1, q * B + r = k * B + s
  PROVE  q = k /\ r = s
<1>1. ~(q < k)
  BY Multiples
<1>2. ~(k < q)
  BY Multiples
<1> QED
  BY <1>1, <1>2

\* Every natural number has a quotient and a remainder.
LEMMA DivMod ==
  ASSUME NEW B \in Nat \ {0}, NEW x \in Nat
  PROVE  /\ x \div B \in Nat /\ x % B \in 0..B - 1
         /\ x = (x \div B) * B + (x % B)
OBVIOUS

\* Division recovers the block and the offset an index was made of.
LEMMA DivModOf ==
  ASSUME NEW B \in Nat \ {0}, NEW q \in Nat, NEW r \in 0..B - 1
  PROVE  (q * B + r) \div B = q /\ (q * B + r) % B = r
<1>1. q * B + r \in Nat
  OBVIOUS
<1> QED
  BY <1>1, DivMod, Euclid
=============================================================================
