---------------------------- MODULE PixelsProof ----------------------------
(***************************************************************************)
(* Rows of pixels and the reductions to one pixel.                         *)
(*                                                                         *)
(* The loops of operations.h and utils.h process every element of a row    *)
(* once, for every length, number of lanes and combination of the traits.  *)
(*                                                                         *)
(* The threaded reductions are proved for images of every size, stride and *)
(* content, however the rows are cut into batches and in whatever order    *)
(* those end.  The argument is about one pixel: the first extreme of the   *)
(* image.  The batch that has its row finds it, and no slot holds anything *)
(* better; a slot in front of that batch's holds the same pixel or one     *)
(* that is worse, so that the reduction of offsets, which keeps the first  *)
(* of equals, ends with it.                                                *)
(*                                                                         *)
(* The search of min_max_loc is proved for every image, number of lanes    *)
(* and limit on the vectors of a block.  Every element met so far is no    *)
(* better than the best of the vectors or the best of the single elements, *)
(* nor in front of it if equal; and the lanes that hold the best of the    *)
(* vectors all have it from the one block whose index is kept.             *)
(***************************************************************************)
EXTENDS RowLoop, ThreadedMinMax, MinMaxLoc, NumberLemmas, TLAPS

(***************************************************************************)
(* The inductive invariant.  What is behind index_ is done and what is     *)
(* left ends with the row.  An element that was touched has been processed *)
(* once; it may be touched again only if the source was left as it is, so  *)
(* in place exactly the elements behind index_ are touched.                *)
(***************************************************************************)
CallTypes ==
  /\ operation \in Operations /\ length \in Lengths
  /\ in_place \in BOOLEAN
  /\ in_place => operation.in_place
  /\ can_avoid_tail_ = (length >= step)
  /\ pc \in {"twice", "once", "remaining", "done"}

RowProgress ==
  /\ index_ \in Nat /\ length_ \in Nat
  /\ index_ + length_ = length
  /\ pc = "done" => length_ = 0

Processed ==
  /\ touched \subseteq Row
  /\ 0..index_ - 1 \subseteq touched
  /\ in_place => touched = 0..index_ - 1
  /\ dst = [p \in Row |-> IF p \in touched THEN 1 ELSE 0]
  /\ src = IF in_place THEN dst ELSE [p \in Row |-> 0]

RowInv == CallTypes /\ RowProgress /\ Processed

\* Nothing is processed before the first round.
LEMMA RowInit == Init => RowInv
<1> SUFFICES ASSUME Init PROVE RowInv
  OBVIOUS
<1>1. length \in Nat
  BY RowLoopAssumption DEF Init
<1>2. CallTypes /\ RowProgress
  BY <1>1 DEF Init, CallTypes, RowProgress
<1>3. Processed
  BY <1>1 DEF Init, Processed, Row
<1> QED
  BY <1>2, <1>3 DEF RowInv

\* A round processes the n elements from index_ on: ones that were not touched
\* or, when the source is another buffer, ones that were not changed there.
LEMMA RoundKeeps ==
  ASSUME RowInv, NEW n \in Nat \ {0}, Round(n), pc # "done"
  PROVE  RowInv'
<1>1. /\ length_ >= n
      /\ index_' = index_ + n /\ length_' = length_ - n
      /\ UNCHANGED <<operation, in_place, length, can_avoid_tail_, pc>>
      /\ dst' = [p \in Row |-> IF p \in index_..index_ + n - 1 THEN src[p] + 1 ELSE dst[p]]
      /\ src' = IF in_place THEN dst' ELSE src
      /\ touched' = touched \cup (index_..index_ + n - 1)
  BY DEF Round, Apply, Call
<1>2. /\ index_ \in Nat /\ length_ \in Nat /\ length \in Nat
      /\ index_ + length_ = length
      /\ in_place \in BOOLEAN
  BY RowLoopAssumption DEF RowInv, CallTypes, RowProgress
<1>3. Row' = Row /\ Row = 0..length - 1
  BY <1>1 DEF Row
<1>4. CallTypes'
  BY <1>1 DEF RowInv, CallTypes
<1>5. RowProgress'
  BY <1>1, <1>2 DEF RowInv, RowProgress
<1>6. index_..index_ + n - 1 \subseteq Row
  BY <1>1, <1>2, <1>3
<1>7. touched' \subseteq Row'
  BY <1>1, <1>3, <1>6 DEF RowInv, Processed
<1>8. /\ 0..index_' - 1 = (0..index_ - 1) \cup (index_..index_ + n - 1)
      /\ 0..index_' - 1 \subseteq touched'
      /\ in_place => touched' = 0..index_' - 1
  BY <1>1, <1>2 DEF RowInv, Processed
<1>9. \A p \in index_..index_ + n - 1 : src[p] = 0
  <2>1. CASE in_place
    <3>1. \A p \in index_..index_ + n - 1 : p \notin touched
      BY <1>2, <2>1 DEF RowInv, Processed
    <3> QED
      BY <1>6, <2>1, <3>1 DEF RowInv, Processed
  <2>2. CASE ~in_place
    BY <1>6, <2>2 DEF RowInv, Processed
  <2> QED
    BY <2>1, <2>2
<1>10. dst' = [p \in Row |-> IF p \in touched' THEN 1 ELSE 0]
  BY <1>1, <1>9 DEF RowInv, Processed
<1>11. src' = IF in_place' THEN dst' ELSE [p \in Row' |-> 0]
  BY <1>1, <1>2, <1>3 DEF RowInv, Processed
<1>12. Processed'
  BY <1>1, <1>3, <1>7, <1>8, <1>10, <1>11 DEF Processed
<1> QED
  BY <1>4, <1>5, <1>12 DEF RowInv

\* A loop that ends leaves the row alone.
LEMMA SkipKeeps ==
  ASSUME RowInv, NEW label,
         NEW next \in {"once", "remaining", "done"}, Skip(label, next),
         next = "done" => length_ = 0
  PROVE  RowInv'
<1>1. /\ UNCHANGED <<operation, in_place, length, can_avoid_tail_, src, dst, touched,
                     index_, length_>>
      /\ pc' = next
  BY DEF Skip, Call
<1>2. CallTypes' /\ RowProgress'
  BY <1>1 DEF RowInv, CallTypes, RowProgress
<1>3. Processed'
  BY <1>1 DEF RowInv, Processed, Row
<1> QED
  BY <1>2, <1>3 DEF RowInv

\* Stepping back stays in a row that is at least a vector long, and is done only
\* by operations that may not be in place.
LEMMA StepBackKeeps == RowInv /\ StepBack => RowInv'
<1> SUFFICES ASSUME RowInv, StepBack PROVE RowInv'
  OBVIOUS
<1>1. /\ UNCHANGED <<operation, in_place, length, can_avoid_tail_, src, dst, touched, pc>>
      /\ index_' = index_ - (step - length_) /\ length_' = step
      /\ pc = "once"
      /\ operation.once /\ operation.avoid_tail
      /\ length_ \in 1..step - 1
      /\ IF operation.loop = "LoopUnroll" THEN can_avoid_tail_ ELSE length >= step
  BY DEF StepBack, CanStepBack, Call
<1>2. /\ index_ \in Nat /\ length_ \in Nat /\ length \in Nat /\ step \in Nat
      /\ index_ + length_ = length
      /\ operation \in Operations
      /\ in_place \in BOOLEAN /\ (in_place => operation.in_place)
      /\ can_avoid_tail_ = (length >= step)
  BY RowLoopAssumption DEF RowInv, CallTypes, RowProgress
<1>3. length >= step
  BY <1>1, <1>2
<1>4. ~in_place
  BY <1>1, <1>2, RowLoopAssumption
<1>5. /\ index_' \in Nat /\ length_' \in Nat /\ index_' + length_' = length
      /\ index_ \in Nat /\ index_' < index_
  BY <1>1, <1>2, <1>3
<1>6. CallTypes'
  BY <1>1 DEF RowInv, CallTypes
<1>7. RowProgress'
  BY <1>1, <1>5 DEF RowProgress
<1>8. \A p \in 0..index_' - 1 : p \in touched
  <2>1. PICK k : k = index_'
    OBVIOUS
  <2>2. k \in Nat /\ index_ \in Nat /\ k < index_
    BY <1>5, <2>1
  <2>3. \A p \in 0..k - 1 : p \in 0..index_ - 1
    BY <2>2
  <2> QED
    BY <2>1, <2>3 DEF RowInv, Processed
<1>9. Row' = Row
  BY <1>1 DEF Row
<1>10. Processed'
  BY <1>1, <1>4, <1>8, <1>9 DEF RowInv, Processed
<1> QED
  BY <1>6, <1>7, <1>10 DEF RowInv

\* Every step keeps the invariant.
LEMMA RowStep == RowInv /\ [Next]_vars => RowInv'
<1> SUFFICES ASSUME RowInv, [Next]_vars PROVE RowInv'
  OBVIOUS
<1>s. step \in Nat \ {0}
  BY RowLoopAssumption
<1>1. CASE UnrollTwice
  <2>1. 2 * step \in Nat \ {0}
    BY <1>s
  <2> QED
    BY <1>1, <2>1, RoundKeeps DEF UnrollTwice
<1>2. CASE UnrollOnce
  BY <1>2, <1>s, RoundKeeps DEF UnrollOnce
<1>3. CASE EndTwice
  BY <1>3, SkipKeeps DEF EndTwice
<1>4. CASE StepBack
  BY <1>4, StepBackKeeps
<1>5. CASE EndOnce
  BY <1>5, SkipKeeps DEF EndOnce
<1>6. CASE Remaining
  <2>1. length_ \in Nat /\ length_ > 0
    BY <1>6 DEF Remaining, RowInv, RowProgress
  <2>2. PICK n \in {step, length_, 1} : Round(n)
    BY <1>6 DEF Remaining
  <2>3. n \in Nat \ {0} /\ pc # "done"
    BY <1>6, <1>s, <2>1 DEF Remaining
  <2> QED
    BY <2>2, <2>3, RoundKeeps
<1>7. CASE Return
  BY <1>7, SkipKeeps DEF Return
<1>8. CASE UNCHANGED vars
  BY <1>8 DEF vars, RowInv, CallTypes, RowProgress, Processed, Row
<1> QED
  BY <1>1, <1>2, <1>3, <1>4, <1>5, <1>6, <1>7, <1>8 DEF Next

\* When nothing is left the whole row is behind index_.
LEMMA InvProcessed == RowInv => RowsProcessed
<1> SUFFICES ASSUME RowInv PROVE RowsProcessed
  OBVIOUS
<1>1. /\ index_ \in Nat /\ length_ \in Nat /\ length \in Nat
      /\ index_ + length_ = length
  BY RowLoopAssumption DEF RowInv, CallTypes, RowProgress
<1>2. TypeOK
  BY <1>1 DEF RowInv, CallTypes, TypeOK
<1>3. StaysInRow
  BY DEF RowInv, Processed, StaysInRow
<1>4. ASSUME pc = "done", NEW p \in Row PROVE dst[p] = 1
  <2>1. p \in 0..index_ - 1
    BY <1>1, <1>4 DEF RowInv, RowProgress, Row
  <2> QED
    BY <1>4, <2>1 DEF RowInv, Processed
<1> QED
  BY <1>2, <1>3, <1>4 DEF RowsProcessed, EveryElementOnce

(***************************************************************************)
(* Every row loop of the library, whichever of its loops are left out by   *)
(* the traits, processes each element of the row once from its own source  *)
(* and stays in the row, for every length and number of lanes.  It takes   *)
(* that no operation that avoids the tail loop is used in place.           *)
(***************************************************************************)
THEOREM RowsAreProcessed == Spec => []RowsProcessed
<1>1. Init => RowInv
  BY RowInit
<1>2. RowInv /\ [Next]_vars => RowInv'
  BY RowStep
<1>3. RowInv => RowsProcessed
  BY InvProcessed
<1> QED
  BY <1>1, <1>2, <1>3, PTL DEF Spec
-----------------------------------------------------------------------------
(***************************************************************************)
(* The threaded reductions.                                                *)
(***************************************************************************)
\* How far a value is from the best of the element type.
Rank(which, v) == IF which = "min" THEN v - Lowest ELSE Highest - v

\* Pixel number n of the image, by rows, and the number of pixels.
At(n) == pixels[n \div width][(n % width) + 1]
Size == height * width

\* n is the first extreme of the rows begin..end - 1.
IsFirst(which, begin, end, n) ==
  /\ n \in begin * width..end * width - 1
  /\ \A m \in begin * width..end * width - 1 :
       /\ Rank(which, At(n)) <= Rank(which, At(m))
       /\ m < n => Rank(which, At(n)) < Rank(which, At(m))

\* What the call was made with.
InputsOK ==
  /\ reduction \in {"min_max", "min_max_loc"}
  /\ width \in Nat /\ height \in Nat
  /\ pixels \in [0..height - 1 -> [1..width -> Lowest..Highest]]
  /\ wanted \subseteq Which

\* Slots hold what they were filled with or what a batch that starts with their
\* row computed.
SlotOK(which, r) ==
  \/ slots[which][r] = Fill(which)
  \/ width > 0 /\ \E end \in r + 1..height : slots[which][r] = Computed(which, r, end)

SlotsOK ==
  /\ state = "call" => slots = << >>
  /\ state \in {"batches", "reduce"} =>
       \E last \in Nat :
         /\ height \in {0, last + 1} /\ (height = 0 => last = 0)
         /\ slots \in [wanted -> [0..last -> Int]]
  /\ \A which \in DOMAIN slots :
       /\ which \in Which
       /\ \A r \in DOMAIN slots[which] : r \in Nat /\ SlotOK(which, r)

\* The batch of every row that was taken has left its result.
TakenRowsDone ==
  state \in {"batches", "reduce"} /\ return_val = "OK" =>
    \A r \in 0..height - 1 : r \notin rows =>
      \E begin \in 0..r, end \in r + 1..height :
        /\ begin \notin rows
        /\ \A which \in wanted : slots[which][begin] = Computed(which, begin, end)

\* The reductions start when all rows are taken; an image without pixels was
\* refused by then.
ThreadedProgress ==
  /\ state \in {"call", "batches", "reduce", "returned", "null dereference"}
  /\ return_val \in {"OK", "RANGE", "NULL_POINTER", "ALLOCATION"}
  /\ rows \subseteq 0..height - 1
  /\ state = "call" => rows = 0..height - 1
  /\ state = "reduce" => rows = {}
  /\ state = "reduce" /\ return_val = "OK" => width > 0 /\ height > 0

ResultOK ==
  state = "returned" /\ return_val = "OK" =>
    \A which \in wanted : extremes[which] = Computed(which, 0, height)

ThreadedInv == InputsOK /\ SlotsOK /\ TakenRowsDone /\ ThreadedProgress /\ ResultOK
-----------------------------------------------------------------------------
\* The order of values is that of their ranks.
LEMMA RankOrder ==
  ASSUME NEW which \in Which, NEW a \in Lowest..Highest, NEW b \in Lowest..Highest
  PROVE  /\ Rank(which, a) \in Nat
         /\ Better(which, a, b) <=> Rank(which, a) < Rank(which, b)
         /\ Rank(which, a) = Rank(which, b) => a = b
  BY ThreadedMinMaxAssumption DEF Which, Rank, Better

\* Pixels have values of the element type.
LEMMA PixelAt ==
  ASSUME InputsOK, width > 0, NEW n \in 0..Size - 1
  PROVE  n \div width \in 0..height - 1 /\ At(n) \in Lowest..Highest
<1>1. /\ width \in Nat \ {0} /\ height \in Nat
      /\ pixels \in [0..height - 1 -> [1..width -> Lowest..Highest]]
  BY DEF InputsOK
<1>2. height * width \in Nat /\ n \in Nat /\ n < height * width
  BY <1>1 DEF Size
<1>3. PICK q \in Nat, r \in 0..width - 1 :
        n \div width = q /\ n % width = r /\ n = q * width + r
  BY <1>1, <1>2, DivMod
<1>4. q < height
  <2>1. SUFFICES ASSUME height <= q PROVE FALSE
    BY <1>1, <1>3
  <2>2. height * width <= q * width
    <3>1. CASE height = q
      BY <1>1, <3>1
    <3>2. CASE height < q
      <4>1. height * width + width <= q * width
        BY <1>1, <1>3, <3>2, Multiples
      <4> QED
        BY <1>1, <1>2, <1>3, <4>1
    <3> QED
      BY <1>1, <1>3, <2>1, <3>1, <3>2
  <2>3. q * width \in Int
    BY <1>1, <1>3
  <2> QED
    BY <1>2, <1>3, <2>2, <2>3
<1>5. pixels[q] \in [1..width -> Lowest..Highest] /\ r + 1 \in 1..width
  BY <1>1, <1>3, <1>4, SMTT(30)
<1> QED
  BY <1>1, <1>3, <1>4, <1>5, SMTT(30) DEF At

\* Rows are runs of pixel numbers.
LEMMA RowNumbers ==
  ASSUME InputsOK, width > 0, NEW begin \in 0..height, NEW end \in begin..height
  PROVE  /\ begin * width \in Nat /\ end * width \in Nat
         /\ (end - begin) * width = end * width - begin * width
         /\ begin * width <= end * width /\ end * width <= Size
         /\ begin < end => begin * width + width <= end * width
<1>1. width \in Nat \ {0} /\ height \in Nat
  BY DEF InputsOK
<1>2. /\ begin \in Nat /\ end \in Nat /\ begin <= end /\ end <= height
      /\ begin * width \in Nat /\ end * width \in Nat /\ height * width \in Nat
  BY <1>1
<1>3. \A i, j \in Nat : i <= j => i * width <= j * width
  <2> SUFFICES ASSUME NEW i \in Nat, NEW j \in Nat, i <= j
               PROVE  i * width <= j * width
    OBVIOUS
  <2>1. CASE i = j
    BY <1>1, <2>1
  <2>2. CASE i < j
    <3>1. i * width + width <= j * width
      BY <1>1, <2>2, Multiples
    <3>2. i * width \in Int /\ j * width \in Int
      BY <1>1
    <3> QED
      BY <1>1, <3>1, <3>2
  <2> QED
    BY <2>1, <2>2
<1>4. begin * width <= end * width /\ end * width <= height * width
  BY <1>1, <1>2, <1>3
<1>5. (end - begin) * width = end * width - begin * width
  BY <1>1, <1>2
<1>6. begin < end => begin * width + width <= end * width
  BY <1>1, <1>2, Multiples
<1> QED
  BY <1>2, <1>4, <1>5, <1>6 DEF Size

\* The pixels a batch sees are those of its rows.
LEMMA PixelsOfRows ==
  ASSUME InputsOK, width > 0, NEW begin \in 0..height, NEW end \in begin + 1..height
  PROVE  /\ Len(PixelsOf(begin, end)) = end * width - begin * width
         /\ \A i \in 0..(end * width - begin * width) - 1 :
              PixelsOf(begin, end)[i + 1] = At(begin * width + i)
<1>1. width \in Nat \ {0} /\ height \in Nat
  BY DEF InputsOK
<1>2. begin \in Nat /\ end \in begin..height
  BY <1>1
<1> DEFINE n == (end - begin) * width
<1>3. /\ begin * width \in Nat /\ end * width \in Nat
      /\ n = end * width - begin * width /\ n \in Nat
  BY <1>2, RowNumbers
<1>4. PixelsOf(begin, end) = [i \in 1..n |->
        pixels[begin + ((i - 1) \div width)][((i - 1) % width) + 1]]
  BY DEF PixelsOf
<1> HIDE DEF n
<1>5. Len(PixelsOf(begin, end)) = n
  BY <1>3, <1>4
<1>6. ASSUME NEW i \in 0..n - 1
      PROVE  PixelsOf(begin, end)[i + 1] = At(begin * width + i)
  <2>1. i \in Nat /\ i + 1 \in 1..n /\ (i + 1) - 1 = i
    BY <1>3
  <2>2. PixelsOf(begin, end)[i + 1] = pixels[begin + (i \div width)][(i % width) + 1]
    BY <1>4, <2>1
  <2>3. PICK q \in Nat, r \in 0..width - 1 :
          i \div width = q /\ i % width = r /\ i = q * width + r
    BY <1>1, <2>1, DivMod
  <2>4. begin + q \in Nat /\ begin * width + i = (begin + q) * width + r
    BY <1>1, <1>2, <2>3
  <2>5. (begin * width + i) \div width = begin + q /\ (begin * width + i) % width = r
    BY <1>1, <2>4, DivModOf, SMTT(30)
  <2> QED
    BY <2>2, <2>3, <2>5 DEF At
<1> QED
  BY <1>3, <1>5, <1>6

\* Rows that are not empty have a first extreme, and only one.
LEMMA FirstExists ==
  ASSUME InputsOK, width > 0, NEW which \in Which,
         NEW begin \in 0..height, NEW end \in begin + 1..height
  PROVE  \E n \in 0..Size - 1 : IsFirst(which, begin, end, n)
<1>1. width \in Nat \ {0} /\ height \in Nat
  BY DEF InputsOK
<1> DEFINE b == begin * width
           e == end * width
<1>2. b \in Nat /\ e \in Nat /\ b < e /\ e <= Size
  <2>1. begin \in Nat /\ end \in begin..height /\ begin < end
    BY <1>1
  <2>2. b \in Nat /\ e \in Nat /\ b + width <= e /\ e <= Size
    BY <2>1, RowNumbers
  <2> HIDE DEF b, e
  <2> QED
    BY <1>1, <2>2
<1>3. Size \in Nat
  BY <1>1 DEF Size
<1> HIDE DEF b, e
<1> DEFINE f == [i \in 0..(e - b) - 1 |-> Rank(which, At(b + i))]
<1>4. ASSUME NEW i \in 0..(e - b) - 1 PROVE Rank(which, At(b + i)) \in Nat
  <2>1. b + i \in 0..Size - 1
    BY <1>2, <1>3
  <2>2. At(b + i) \in Lowest..Highest
    BY <2>1, PixelAt
  <2> QED
    BY <2>2, RankOrder
<1>5. f \in [0..(e - b) - 1 -> Nat] /\ e - b \in Nat \ {0}
  BY <1>2, <1>4
<1>6. PICK i \in 0..(e - b) - 1 : \A j \in 0..(e - b) - 1 :
        f[i] <= f[j] /\ (j < i => f[i] < f[j])
  <2> HIDE DEF f
  <2> QED
    BY <1>5, FirstLeast
<1>7. b + i \in b..e - 1 /\ b + i \in 0..Size - 1
  BY <1>2, <1>3
<1>8. ASSUME NEW m \in b..e - 1
      PROVE  /\ Rank(which, At(b + i)) <= Rank(which, At(m))
             /\ m < b + i => Rank(which, At(b + i)) < Rank(which, At(m))
  <2>1. m - b \in 0..(e - b) - 1 /\ b + (m - b) = m /\ (m < b + i => m - b < i)
    BY <1>2
  <2>2. f[m - b] = Rank(which, At(m)) /\ f[i] = Rank(which, At(b + i))
    BY <2>1
  <2> HIDE DEF f
  <2> QED
    BY <1>6, <2>1, <2>2
<1>9. IsFirst(which, begin, end, b + i)
  BY <1>7, <1>8 DEF IsFirst, b, e
<1> QED
  BY <1>7, <1>9

LEMMA FirstUnique ==
  ASSUME InputsOK, width > 0, NEW which \in Which,
         NEW begin \in 0..height, NEW end \in begin..height,
         NEW n, NEW m, IsFirst(which, begin, end, n), IsFirst(which, begin, end, m)
  PROVE  n = m
<1>1. /\ begin * width \in Nat /\ end * width \in Nat /\ end * width <= Size
      /\ Size \in Nat
  BY RowNumbers DEF InputsOK, Size
<1>2. n \in 0..Size - 1 /\ m \in 0..Size - 1
  BY <1>1 DEF IsFirst
<1>3. Rank(which, At(n)) \in Nat /\ Rank(which, At(m)) \in Nat
  BY <1>2, PixelAt, RankOrder
<1>4. ~(n < m) /\ ~(m < n)
  BY <1>3 DEF IsFirst
<1> QED
  BY <1>2, <1>4

\* It is what the function finds that runs on the rows.
LEMMA FirstFound ==
  ASSUME InputsOK, width > 0, NEW which \in Which,
         NEW begin \in 0..height, NEW end \in begin + 1..height,
         NEW n, IsFirst(which, begin, end, n)
  PROVE  /\ FirstExtreme(which, PixelsOf(begin, end)) = n - begin * width
         /\ Extreme(which, PixelsOf(begin, end)) = At(n)
<1>1. width \in Nat \ {0} /\ height \in Nat
  BY DEF InputsOK
<1> DEFINE b == begin * width
           e == end * width
           s == PixelsOf(begin, end)
<1>2. b \in Nat /\ e \in Nat /\ b <= e /\ e <= Size /\ Size \in Nat
  <2>1. begin \in Nat /\ end \in begin..height
    BY <1>1
  <2> QED
    BY <1>1, <2>1, RowNumbers DEF Size
<1>3. Len(s) = e - b /\ \A i \in 0..(e - b) - 1 : s[i + 1] = At(b + i)
  BY PixelsOfRows
<1>4. /\ n \in b..e - 1
      /\ \A m \in b..e - 1 : /\ Rank(which, At(n)) <= Rank(which, At(m))
                             /\ m < n => Rank(which, At(n)) < Rank(which, At(m))
  BY DEF IsFirst
<1> DEFINE P(i) == \A j \in 0..(e - b) - 1 :
                     /\ ~Better(which, s[j + 1], s[i + 1])
                     /\ j < i => Better(which, s[i + 1], s[j + 1])
<1>5. FirstExtreme(which, s) = CHOOSE i \in 0..(e - b) - 1 : P(i)
  BY <1>3 DEF FirstExtreme
<1> HIDE DEF b, e, s
<1>6. ASSUME NEW i \in 0..(e - b) - 1, NEW j \in 0..(e - b) - 1
      PROVE  /\ Rank(which, At(b + i)) \in Nat /\ Rank(which, At(b + j)) \in Nat
             /\ Better(which, s[i + 1], s[j + 1])
                <=> Rank(which, At(b + i)) < Rank(which, At(b + j))
  <2>1. b + i \in 0..Size - 1 /\ b + j \in 0..Size - 1
    BY <1>2
  <2>2. At(b + i) \in Lowest..Highest /\ At(b + j) \in Lowest..Highest
    BY <2>1, PixelAt
  <2>3. s[i + 1] = At(b + i) /\ s[j + 1] = At(b + j)
    BY <1>3
  <2> QED
    BY <2>2, <2>3, RankOrder
<1>7. n - b \in 0..(e - b) - 1 /\ b + (n - b) = n
  BY <1>2, <1>4
<1>8. P(n - b)
  <2> SUFFICES ASSUME NEW j \in 0..(e - b) - 1
               PROVE  /\ ~Better(which, s[j + 1], s[(n - b) + 1])
                      /\ j < n - b => Better(which, s[(n - b) + 1], s[j + 1])
    OBVIOUS
  <2>1. b + j \in b..e - 1 /\ (j < n - b => b + j < n)
    BY <1>2, <1>4
  <2>2. /\ Rank(which, At(n)) <= Rank(which, At(b + j))
        /\ j < n - b => Rank(which, At(n)) < Rank(which, At(b + j))
    BY <1>4, <2>1
  <2>3. /\ Rank(which, At(n)) \in Nat /\ Rank(which, At(b + j)) \in Nat
        /\ Better(which, s[j + 1], s[(n - b) + 1])
           <=> Rank(which, At(b + j)) < Rank(which, At(n))
        /\ Better(which, s[(n - b) + 1], s[j + 1])
           <=> Rank(which, At(n)) < Rank(which, At(b + j))
    BY <1>6, <1>7
  <2> QED
    BY <2>2, <2>3
<1>9. ASSUME NEW i \in 0..(e - b) - 1, P(i) PROVE i = n - b
  <2> DEFINE k == n - b
  <2>1. /\ Rank(which, At(b + i)) \in Nat /\ Rank(which, At(b + k)) \in Nat
        /\ Better(which, s[i + 1], s[k + 1])
           <=> Rank(which, At(b + i)) < Rank(which, At(b + k))
        /\ Better(which, s[k + 1], s[i + 1])
           <=> Rank(which, At(b + k)) < Rank(which, At(b + i))
    BY <1>6, <1>7
  <2>2. /\ ~Better(which, s[k + 1], s[i + 1])
        /\ k < i => Better(which, s[i + 1], s[k + 1])
    BY <1>7, <1>9
  <2>3. /\ ~Better(which, s[i + 1], s[k + 1])
        /\ i < k => Better(which, s[k + 1], s[i + 1])
    BY <1>7, <1>8
  <2>4. k \in Int /\ i \in Int
    BY <1>7
  <2> HIDE DEF k
  <2>5. ~(k < i) /\ ~(i < k)
    BY <2>1, <2>2, <2>3
  <2>6. i = k
    BY <2>4, <2>5
  <2> QED
    BY <2>6 DEF k
<1> HIDE DEF P
<1>10. FirstExtreme(which, s) = n - b
  BY <1>5, <1>7, <1>8, <1>9
<1>11. Extreme(which, s) = At(n)
  BY <1>3, <1>7, <1>10 DEF Extreme
<1> QED
  BY <1>10, <1>11 DEF b, s
-----------------------------------------------------------------------------
\* An offset leads to the pixel it was made for; offsets of rows add up.
LEMMA OffsetOf ==
  ASSUME InputsOK, width > 0, NEW n \in 0..Size - 1
  PROVE  offset_for_index(n) \in Nat /\ Pixel(offset_for_index(n)) = At(n)
<1>1. width \in Nat \ {0} /\ height \in Nat /\ src_stride \in Nat \ {0} /\ width <= src_stride
  BY ThreadedMinMaxAssumption DEF InputsOK, src_stride
<1>2. Size \in Nat /\ n \in Nat
  BY <1>1 DEF Size
<1>3. PICK q \in Nat, r \in 0..width - 1 : n \div width = q /\ n % width = r
  BY <1>1, <1>2, DivMod
<1>4. offset_for_index(n) = q * src_stride + r
  BY <1>3 DEF offset_for_index
<1>5. r \in 0..src_stride - 1
  BY <1>1
<1>6. /\ (q * src_stride + r) \div src_stride = q
      /\ (q * src_stride + r) % src_stride = r
  BY <1>1, <1>5, DivModOf
<1>7. q * src_stride + r \in Nat
  BY <1>1, <1>5
<1> QED
  BY <1>3, <1>4, <1>6, <1>7 DEF Pixel, At

LEMMA OffsetsAdd ==
  ASSUME InputsOK, width > 0, NEW begin \in Nat, NEW i \in Nat
  PROVE  /\ offset_for_index(i) \in Nat /\ begin * src_stride \in Nat
         /\ offset_for_index(begin * width + i) = offset_for_index(i) + begin * src_stride
<1>1. width \in Nat \ {0} /\ height \in Nat /\ src_stride \in Nat
  BY ThreadedMinMaxAssumption DEF InputsOK, src_stride
<1>2. PICK q \in Nat, r \in 0..width - 1 :
        i \div width = q /\ i % width = r /\ i = q * width + r
  BY <1>1, DivMod
<1>3. begin + q \in Nat /\ begin * width + i = (begin + q) * width + r
  BY <1>1, <1>2
<1>4. (begin * width + i) \div width = begin + q /\ (begin * width + i) % width = r
  <2>1. /\ ((begin + q) * width + r) \div width = begin + q
        /\ ((begin + q) * width + r) % width = r
    BY <1>1, <1>3, DivModOf
  <2> QED
    BY <1>3, <2>1
<1>5. /\ offset_for_index(begin * width + i) = (begin + q) * src_stride + r
      /\ offset_for_index(i) = q * src_stride + r
  BY <1>2, <1>4 DEF offset_for_index
<1>6. /\ (begin + q) * src_stride = begin * src_stride + q * src_stride
      /\ begin * src_stride \in Nat /\ q * src_stride \in Nat
  BY <1>1
<1> QED
  BY <1>5, <1>6

\* What a batch stores: the value of the first extreme of its rows, or the offset
\* of that pixel from the first of its rows.
LEMMA ComputedIs ==
  ASSUME InputsOK, width > 0, NEW which \in Which,
         NEW begin \in 0..height, NEW end \in begin + 1..height,
         NEW n, IsFirst(which, begin, end, n)
  PROVE  /\ n \in 0..Size - 1
         /\ reduction = "min_max" => Computed(which, begin, end) = At(n)
         /\ reduction = "min_max_loc" =>
              /\ Computed(which, begin, end) \in Nat
              /\ Computed(which, begin, end) + begin * src_stride = offset_for_index(n)
<1>1. width \in Nat \ {0} /\ height \in Nat
  BY DEF InputsOK
<1> DEFINE b == begin * width
<1>2. b \in Nat /\ end * width \in Nat /\ end * width <= Size /\ Size \in Nat
  <2>1. begin \in Nat /\ end \in begin..height
    BY <1>1
  <2> QED
    BY <1>1, <2>1, RowNumbers DEF Size
<1>3. n \in b..end * width - 1
  BY DEF IsFirst
<1> HIDE DEF b
<1>4. n \in 0..Size - 1 /\ n - b \in Nat /\ b + (n - b) = n
  BY <1>2, <1>3
<1>5. /\ FirstExtreme(which, PixelsOf(begin, end)) = n - b
      /\ Extreme(which, PixelsOf(begin, end)) = At(n)
  BY FirstFound DEF b
<1>6. /\ offset_for_index(n - b) \in Nat
      /\ offset_for_index(b + (n - b)) = offset_for_index(n - b) + begin * src_stride
  <2>1. begin \in Nat
    BY <1>1
  <2>2. \A i \in Nat :
          /\ offset_for_index(i) \in Nat
          /\ offset_for_index(b + i) = offset_for_index(i) + begin * src_stride
    BY <2>1, OffsetsAdd DEF b
  <2> QED
    BY <1>4, <2>2
<1>7. reduction = "min_max" => Computed(which, begin, end) = At(n)
  BY <1>5 DEF Computed
<1>8. reduction = "min_max_loc" => Computed(which, begin, end) = offset_for_index(n - b)
  BY <1>5 DEF Computed
<1> QED
  BY <1>4, <1>6, <1>7, <1>8

\* The first extreme g of the image, seen from rows it is in or not in.
LEMMA FirstOfImage ==
  ASSUME InputsOK, width > 0, NEW which \in Which, NEW g,
         IsFirst(which, 0, height, g)
  PROVE  /\ g \in 0..Size - 1 /\ g \div width \in 0..height - 1
         /\ \A n \in 0..Size - 1 :
              /\ Rank(which, At(n)) \in Nat /\ Rank(which, At(g)) \in Nat
              /\ Rank(which, At(g)) <= Rank(which, At(n))
              /\ n < g => Rank(which, At(g)) < Rank(which, At(n))
         /\ \A begin \in 0..g \div width, end \in (g \div width) + 1..height :
              IsFirst(which, begin, end, g)
<1>1. width \in Nat \ {0} /\ height \in Nat /\ Size \in Nat /\ 0 * width = 0
  BY DEF InputsOK, Size
<1>2. /\ g \in 0..Size - 1
      /\ \A n \in 0..Size - 1 :
           /\ Rank(which, At(g)) <= Rank(which, At(n))
           /\ n < g => Rank(which, At(g)) < Rank(which, At(n))
  BY <1>1 DEF IsFirst, Size
<1>3. g \div width \in 0..height - 1
  BY <1>2, PixelAt
<1>4. \A n \in 0..Size - 1 : Rank(which, At(n)) \in Nat
  BY PixelAt, RankOrder
<1>5. ASSUME NEW begin \in 0..g \div width, NEW end \in (g \div width) + 1..height
      PROVE  IsFirst(which, begin, end, g)
  <2>1. PICK q \in Nat, r \in 0..width - 1 :
          g \div width = q /\ g = q * width + r
    BY <1>1, <1>2, DivMod
  <2>2. /\ q \in 0..height - 1 /\ begin \in 0..height /\ q \in begin..height
        /\ end \in q..height /\ q < end /\ end \in begin..height
    BY <1>1, <1>3, <2>1
  <2>3. /\ begin * width \in Nat /\ q * width \in Nat /\ end * width \in Nat
        /\ begin * width <= q * width /\ q * width + width <= end * width
        /\ end * width <= Size
    <3>1. begin * width \in Nat /\ q * width \in Nat /\ begin * width <= q * width
      BY <2>2, RowNumbers
    <3>2. q \in 0..height
      BY <2>2
    <3>3. /\ end * width \in Nat /\ q * width + width <= end * width
          /\ end * width <= Size
      BY <2>2, <3>2, RowNumbers
    <3> QED
      BY <3>1, <3>3
  <2> DEFINE b == begin * width
             e == end * width
             l == q * width
  <2>4. /\ b \in Nat /\ l \in Nat /\ e \in Nat /\ b <= l /\ l + width <= e
        /\ e <= Size /\ g = l + r
    BY <2>1, <2>3
  <2> HIDE DEF b, e, l
  <2>5. g \in b..e - 1 /\ \A m \in b..e - 1 : m \in 0..Size - 1
    BY <1>1, <2>1, <2>4
  <2> QED
    BY <1>2, <2>5 DEF IsFirst, b, e
<1> QED
  BY <1>2, <1>3, <1>4, <1>5
-----------------------------------------------------------------------------
\* Every slot refers to some pixel; up to the row of the first extreme g, to g or
\* to a pixel that is worse.
LEMMA Candidate ==
  ASSUME InputsOK, width > 0, reduction = "min_max_loc", NEW which \in Which,
         NEW g, IsFirst(which, 0, height, g), NEW r \in 0..height - 1, SlotOK(which, r)
  PROVE  \E n \in 0..Size - 1 :
           /\ slots[which][r] + r * src_stride = offset_for_index(n)
           /\ r <= g \div width => n = g \/ Rank(which, At(g)) < Rank(which, At(n))
<1>1. width \in Nat \ {0} /\ height \in Nat /\ Size \in Nat
  BY DEF InputsOK, Size
<1>2. /\ g \in 0..Size - 1 /\ g \div width \in 0..height - 1
      /\ \A n \in 0..Size - 1 : n < g => Rank(which, At(g)) < Rank(which, At(n))
      /\ \A begin \in 0..g \div width, end \in (g \div width) + 1..height :
           IsFirst(which, begin, end, g)
  BY FirstOfImage
<1>3. PICK q \in Nat : /\ q = g \div width /\ q \in 0..height
                       /\ q * width \in Nat /\ q * width <= g
  <2>1. PICK q \in Nat, j \in 0..width - 1 : g \div width = q /\ g = q * width + j
    BY <1>1, <1>2, DivMod
  <2>2. q * width \in Nat /\ q * width <= g /\ q \in 0..height
    BY <1>1, <1>2, <2>1
  <2> QED
    BY <2>1, <2>2
<1>4. r \in 0..height /\ r + 1 \in r..height /\ r \in Nat
  BY <1>1
<1>5. r * width \in Nat /\ r * width + width <= Size
  <2>1. /\ r * width \in Nat /\ (r + 1) * width \in Nat
        /\ (r + 1) * width <= Size /\ r * width + width <= (r + 1) * width
    BY <1>4, RowNumbers
  <2> DEFINE x == r * width
             y == (r + 1) * width
  <2>2. x \in Nat /\ y \in Nat /\ y <= Size /\ x + width <= y
    BY <2>1
  <2> HIDE DEF x, y
  <2>3. x + width <= Size
    BY <1>1, <2>2
  <2> QED
    BY <2>2, <2>3 DEF x
<1>6. CASE slots[which][r] = Fill(which)
  <2>1. slots[which][r] = 0
    BY <1>6 DEF Fill
  <2> DEFINE n == r * width
  <2>2. n \in 0..Size - 1
    BY <1>1, <1>5
  <2>3. n + 0 = n /\ offset_for_index(n + 0) = offset_for_index(0) + r * src_stride
                  /\ r * src_stride \in Nat
    BY <1>4, <1>5, OffsetsAdd
  <2>4. offset_for_index(0) = 0
    <3>1. 0 * width + 0 = 0 /\ 0 \in 0..width - 1
      BY <1>1
    <3>2. 0 \div width = 0 /\ 0 % width = 0
      BY <1>1, <3>1, DivModOf
    <3>3. src_stride \in Nat
      BY <1>1, ThreadedMinMaxAssumption DEF src_stride
    <3> QED
      BY <3>2, <3>3 DEF offset_for_index
  <2>5. slots[which][r] + r * src_stride = offset_for_index(n)
    BY <2>1, <2>3, <2>4
  <2>6. r <= q => n <= g
    <3>1. SUFFICES ASSUME r <= q PROVE n <= g
      OBVIOUS
    <3>2. q \in r..height
      BY <1>1, <1>3, <1>4, <3>1
    <3>3. n <= q * width
      BY <1>4, <3>2, RowNumbers
    <3> HIDE DEF n
    <3> QED
      BY <1>2, <1>3, <2>2, <3>3
  <2> HIDE DEF n
  <2>7. r <= g \div width => n = g \/ Rank(which, At(g)) < Rank(which, At(n))
    BY <1>2, <1>3, <2>2, <2>6
  <2> QED
    BY <2>2, <2>5, <2>7
<1>7. CASE \E end \in r + 1..height : slots[which][r] = Computed(which, r, end)
  <2>1. PICK end \in r + 1..height : slots[which][r] = Computed(which, r, end)
    BY <1>7
  <2>2. PICK n \in 0..Size - 1 : IsFirst(which, r, end, n)
    BY <1>4, FirstExists
  <2>3. slots[which][r] + r * src_stride = offset_for_index(n)
    BY <1>4, <2>1, <2>2, ComputedIs
  <2>4. ASSUME r <= q PROVE n = g \/ Rank(which, At(g)) < Rank(which, At(n))
    <3>1. CASE q < end
      <4>1. r \in 0..g \div width /\ end \in (g \div width) + 1..height
        BY <1>1, <1>3, <1>4, <2>1, <2>4, <3>1
      <4>2. IsFirst(which, r, end, g)
        BY <1>2, <4>1
      <4>3. end \in r..height
        BY <1>4, <2>1
      <4> QED
        BY <1>4, <2>2, <4>2, <4>3, FirstUnique
    <3>2. CASE end <= q
      <4>1. end \in 0..height /\ q \in end..height
        BY <1>1, <1>3, <1>4, <2>1, <3>2
      <4>2. end * width \in Nat /\ end * width <= q * width
        BY <4>1, RowNumbers
      <4>3. n < end * width
        BY <2>2, <4>2 DEF IsFirst
      <4>4. n < g
        <5> DEFINE x == end * width
                   y == q * width
        <5>1. x \in Nat /\ y \in Nat /\ x <= y /\ n < x /\ y <= g
          BY <1>3, <4>2, <4>3
        <5> HIDE DEF x, y
        <5> QED
          BY <1>2, <2>2, <5>1
      <4> QED
        BY <1>2, <4>4
    <3> QED
      BY <1>1, <1>3, <1>4, <2>1, <3>1, <3>2
  <2> QED
    BY <1>3, <2>3, <2>4
<1> QED
  BY <1>6, <1>7 DEF SlotOK

\* reduce_offset ends with the first extreme g of the image if the batch that has
\* its row has left its result in the slot of row b.
LEMMA ReducedOffsetIs ==
  ASSUME InputsOK, width > 0, reduction = "min_max_loc", NEW which \in Which,
         NEW g, IsFirst(which, 0, height, g),
         \A r \in 0..height - 1 : SlotOK(which, r),
         NEW b \in 0..g \div width, NEW end \in (g \div width) + 1..height,
         slots[which][b] = Computed(which, b, end)
  PROVE  ReducedOffset(which) = offset_for_index(g)
<1>1. /\ width \in Nat \ {0} /\ height \in Nat /\ Size \in Nat
      /\ b \in 0..height - 1 /\ b \in 0..height /\ end \in b + 1..height
      /\ b <= g \div width /\ g \div width \in Nat
  <2>1. g \div width \in 0..height - 1
    BY FirstOfImage
  <2> QED
    BY <2>1 DEF InputsOK, Size
<1>2. /\ g \in 0..Size - 1
      /\ IsFirst(which, b, end, g)
      /\ \A n \in 0..Size - 1 :
           /\ Rank(which, At(n)) \in Nat
           /\ Rank(which, At(g)) <= Rank(which, At(n))
           /\ n < g => Rank(which, At(g)) < Rank(which, At(n))
  BY FirstOfImage
<1> DEFINE Offset(i) == slots[which][i - 1] + (i - 1) * src_stride
           Better2(i, prev) == IF Better(which, Pixel(Offset(i)), Pixel(prev))
                                 THEN Offset(i) ELSE prev
           Body(x) == [i \in 0..height |-> IF i = 0 THEN 0 ELSE Better2(i, x[i - 1])]
           B == CHOOSE x : x = Body(x)
<1>3. ReducedOffset(which) = B[height]
  BY DEF ReducedOffset
<1>4. ASSUME NEW i \in 1..height
      PROVE  \E n \in 0..Size - 1 :
               /\ Offset(i) = offset_for_index(n)
               /\ i - 1 <= b => n = g \/ Rank(which, At(g)) < Rank(which, At(n))
               /\ i - 1 = b => n = g
  <2> DEFINE r == i - 1
  <2>1. r \in 0..height - 1 /\ SlotOK(which, r)
    BY <1>1
  <2>2. CASE r = b
    <3>1. slots[which][b] + b * src_stride = offset_for_index(g)
      BY <1>1, <1>2, ComputedIs
    <3> QED
      BY <1>2, <2>2, <3>1
  <2>3. CASE r # b
    <3>1. PICK n \in 0..Size - 1 :
            /\ slots[which][r] + r * src_stride = offset_for_index(n)
            /\ r <= g \div width => n = g \/ Rank(which, At(g)) < Rank(which, At(n))
      <4> HIDE DEF r
      <4> QED
        BY <2>1, Candidate
    <3>2. r <= b => r <= g \div width
      BY <1>1, <2>1
    <3> QED
      BY <2>3, <3>1, <3>2
  <2> QED
    BY <2>2, <2>3
<1>5. \A i \in 1..height : Offset(i) \in Nat
  BY <1>4, OffsetOf
<1> HIDE DEF Offset
<1>6. \E x : x = Body(x)
  <2> DEFINE choice == [i \in 1..height |-> [prev \in Nat |-> Better2(i, prev)]]
  <2>1. choice \in [1..height -> [Nat -> Nat]]
    BY <1>5
  <2>2. \A i \in 1..height, prev \in Nat : choice[i][prev] = Better2(i, prev)
    OBVIOUS
  <2> HIDE DEF choice
  <2>3. PICK x \in [0..height -> Nat] :
          \A i \in 0..height : x[i] = IF i = 0 THEN 0 ELSE choice[i][x[i - 1]]
    <3>1. height \in Nat /\ 0 \in Nat
      BY <1>1
    <3> QED
      BY <2>1, <3>1, Recursion, ZenonT(60)
  <2>4. ASSUME NEW i \in 0..height
        PROVE  x[i] = IF i = 0 THEN 0 ELSE Better2(i, x[i - 1])
    <3>1. CASE i = 0
      BY <2>3, <3>1
    <3>2. CASE i # 0
      <4>1. i \in 1..height /\ x[i - 1] \in Nat
        BY <1>1, <2>3, <3>2
      <4>2. x[i] = choice[i][x[i - 1]]
        BY <2>3, <3>2
      <4> QED
        BY <2>2, <3>2, <4>1, <4>2
    <3> QED
      BY <3>1, <3>2
  <2> HIDE DEF Better2
  <2>5. x = Body(x)
    BY <2>3, <2>4
  <2> QED
    BY <2>5
<1>7. B = Body(B)
  <2> HIDE DEF Body
  <2> QED
    BY <1>6
<1>8. /\ B[0] = 0
      /\ \A i \in 1..height : B[i] = Better2(i, B[i - 1])
  <2> HIDE DEF B, Better2
  <2>1. ASSUME NEW i \in 0..height
        PROVE  B[i] = IF i = 0 THEN 0 ELSE Better2(i, B[i - 1])
    BY <1>7
  <2> QED
    BY <1>1, <2>1
<1> HIDE DEF B, Body
<1> DEFINE Found(i, n) ==
             /\ n \in 0..Size - 1 /\ B[i] = offset_for_index(n)
             /\ n = g \/ Rank(which, At(g)) < Rank(which, At(n))
             /\ i > b => n = g
           Bad == {i \in 0..height : ~ \E n : Found(i, n)}
<1>9. ASSUME NEW i \in Bad, \A j \in Bad : i <= j PROVE FALSE
  <2>0. i \in 0..height /\ ~ \E n : Found(i, n)
    OBVIOUS
  <2>1. CASE i = 0
    <3>1. offset_for_index(0) = 0
      <4>1. 0 * width + 0 = 0 /\ 0 \in 0..width - 1
        BY <1>1
      <4>2. 0 \div width = 0 /\ 0 % width = 0
        BY <1>1, <4>1, DivModOf
      <4>3. src_stride \in Nat
        BY <1>1, ThreadedMinMaxAssumption DEF src_stride
      <4> QED
        BY <4>2, <4>3 DEF offset_for_index
    <3>2. 0 \in 0..Size - 1 /\ (0 = g \/ Rank(which, At(g)) < Rank(which, At(0)))
      BY <1>1, <1>2
    <3>3. Found(i, 0)
      BY <1>1, <1>8, <2>1, <3>1, <3>2
    <3> QED
      BY <2>0, <3>3
  <2>2. CASE i # 0
    <3>1. i \in 1..height /\ i - 1 \in 0..height /\ ~(i <= i - 1)
      BY <1>1, <2>0, <2>2
    <3>2. ~(i - 1 \in Bad)
      <4> HIDE DEF Bad
      <4> QED
        BY <1>9, <3>1
    <3>3. PICK p : Found(i - 1, p)
      BY <3>1, <3>2
    <3>4. PICK n \in 0..Size - 1 :
            /\ Offset(i) = offset_for_index(n)
            /\ i - 1 <= b => n = g \/ Rank(which, At(g)) < Rank(which, At(n))
            /\ i - 1 = b => n = g
      BY <1>4, <3>1
    <3>5. B[i] = IF Better(which, At(n), At(p)) THEN offset_for_index(n)
                                                ELSE offset_for_index(p)
      <4>1. Pixel(Offset(i)) = At(n) /\ Pixel(B[i - 1]) = At(p)
        BY <3>3, <3>4, OffsetOf
      <4> QED
        BY <1>8, <3>1, <3>3, <3>4, <4>1
    <3>6. /\ Better(which, At(n), At(p)) <=> Rank(which, At(n)) < Rank(which, At(p))
          /\ Rank(which, At(n)) \in Nat /\ Rank(which, At(p)) \in Nat
          /\ Rank(which, At(g)) \in Nat /\ Rank(which, At(g)) <= Rank(which, At(n))
      <4>1. At(n) \in Lowest..Highest /\ At(p) \in Lowest..Highest
        BY <3>3, <3>4, PixelAt
      <4> QED
        BY <1>2, <3>3, <3>4, <4>1, RankOrder
    <3>7. /\ p \in 0..Size - 1
          /\ p = g \/ Rank(which, At(g)) < Rank(which, At(p))
          /\ i - 1 > b => p = g
      BY <3>3
    <3>8. CASE Better(which, At(n), At(p))
      <4>1. p # g
        BY <3>6, <3>8
      <4>2. i - 1 <= b /\ (i > b => i - 1 = b)
        BY <1>1, <3>1, <3>7, <4>1
      <4>3. Found(i, n)
        BY <3>4, <3>5, <3>8, <4>2
      <4> QED
        BY <2>0, <4>3
    <3>9. CASE ~Better(which, At(n), At(p))
      <4>1. i > b => p = g
        <5>1. CASE i - 1 = b
          <6>1. n = g
            BY <3>4, <5>1
          <6> QED
            BY <3>6, <3>7, <3>9, <6>1
        <5>2. CASE i - 1 # b
          BY <1>1, <3>1, <3>7, <5>2
        <5> QED
          BY <5>1, <5>2
      <4>2. Found(i, p)
        BY <3>5, <3>7, <3>9, <4>1
      <4> QED
        BY <2>0, <4>2
    <3> QED
      BY <3>8, <3>9
  <2> QED
    BY <2>1, <2>2
<1>10. Bad = {}
  <2>1. Bad \subseteq Nat
    BY <1>1
  <2> HIDE DEF Bad
  <2> QED
    BY <1>9, <2>1, Least
<1>11. PICK n : Found(height, n)
  BY <1>1, <1>10
<1>12. n = g /\ B[height] = offset_for_index(n)
  BY <1>1, <1>11
<1> QED
  BY <1>3, <1>12

\* Slots of min_max hold values of the element type, none better than the first
\* extreme of the image.
LEMMA SlotValue ==
  ASSUME InputsOK, reduction = "min_max", NEW which \in Which, NEW r \in Nat,
         SlotOK(which, r)
  PROVE  /\ slots[which][r] \in Lowest..Highest
         /\ \A g : width > 0 /\ IsFirst(which, 0, height, g) =>
              Rank(which, At(g)) <= Rank(which, slots[which][r])
<1>1. width \in Nat /\ height \in Nat /\ Size \in Nat
  BY DEF InputsOK, Size
<1>2. CASE slots[which][r] = Fill(which)
  <2>1. Fill(which) \in Lowest..Highest
    BY ThreadedMinMaxAssumption DEF Fill
  <2>2. ASSUME NEW g, width > 0, IsFirst(which, 0, height, g)
        PROVE  Rank(which, At(g)) <= Rank(which, Fill(which))
    <3>1. At(g) \in Lowest..Highest
      BY <2>2, FirstOfImage, PixelAt
    <3> QED
      BY <3>1, ThreadedMinMaxAssumption DEF Rank, Fill
  <2> QED
    BY <1>2, <2>1, <2>2
<1>3. CASE width > 0 /\ \E end \in r + 1..height : slots[which][r] = Computed(which, r, end)
  <2>1. PICK end \in r + 1..height : slots[which][r] = Computed(which, r, end)
    BY <1>3
  <2>2. r \in 0..height
    BY <1>1, <2>1
  <2>3. PICK n \in 0..Size - 1 : IsFirst(which, r, end, n)
    BY <1>3, <2>2, FirstExists
  <2>4. slots[which][r] = At(n)
    BY <1>3, <2>1, <2>2, <2>3, ComputedIs
  <2>5. At(n) \in Lowest..Highest
    BY <1>3, PixelAt
  <2>6. ASSUME NEW g, IsFirst(which, 0, height, g)
        PROVE  Rank(which, At(g)) <= Rank(which, At(n))
    BY <1>3, <2>3, <2>6, FirstOfImage
  <2> QED
    BY <2>4, <2>5, <2>6
<1> QED
  BY <1>2, <1>3 DEF SlotOK

\* reduce_min and reduce_max end with the extreme value of the image.
LEMMA ReducedIs ==
  ASSUME InputsOK, width > 0, reduction = "min_max", NEW which \in Which,
         NEW g, IsFirst(which, 0, height, g),
         \A r \in 0..height - 1 : SlotOK(which, r),
         NEW b \in 0..g \div width, NEW end \in (g \div width) + 1..height,
         slots[which][b] = Computed(which, b, end)
  PROVE  Reduced(which) = At(g)
<1>1. /\ g \in 0..Size - 1 /\ IsFirst(which, b, end, g)
      /\ b \in 0..height - 1 /\ b \in 0..height /\ end \in b + 1..height
  <2>1. /\ g \div width \in 0..height - 1 /\ g \in 0..Size - 1
        /\ IsFirst(which, b, end, g)
    BY FirstOfImage
  <2> QED
    BY <2>1 DEF InputsOK
<1>2. At(g) \in Lowest..Highest
  BY <1>1, PixelAt
<1> DEFINE values == {Fill(which)} \cup {slots[which][i] : i \in 0..height - 1}
<1>3. At(g) \in values
  <2>1. slots[which][b] = At(g)
    BY <1>1, ComputedIs
  <2> QED
    BY <1>1, <2>1
<1>4. ASSUME NEW v \in values
      PROVE  v \in Lowest..Highest /\ Rank(which, At(g)) <= Rank(which, v)
  <2>1. CASE v = Fill(which)
    BY <1>2, <2>1, ThreadedMinMaxAssumption DEF Rank, Fill
  <2>2. CASE v \in {slots[which][i] : i \in 0..height - 1}
    <3>1. PICK i \in 0..height - 1 : v = slots[which][i]
      BY <2>2
    <3>2. i \in Nat /\ SlotOK(which, i)
      BY <3>1
    <3> QED
      BY <3>1, <3>2, SlotValue
  <2> QED
    BY <2>1, <2>2
<1>5. Reduced(which) = CHOOSE v \in values : \A w \in values : ~Better(which, w, v)
  BY DEF Reduced
<1> HIDE DEF values
<1>6. \A w \in values : ~Better(which, w, At(g))
  <2> SUFFICES ASSUME NEW w \in values PROVE ~Better(which, w, At(g))
    OBVIOUS
  <2>1. /\ Rank(which, w) \in Nat /\ Rank(which, At(g)) \in Nat
        /\ Better(which, w, At(g)) <=> Rank(which, w) < Rank(which, At(g))
    BY <1>2, <1>4, RankOrder
  <2> QED
    BY <1>4, <2>1
<1>7. ASSUME NEW v \in values, \A w \in values : ~Better(which, w, v)
      PROVE  v = At(g)
  <2>1. ~Better(which, At(g), v)
    BY <1>3, <1>7
  <2>2. /\ Rank(which, v) \in Nat /\ Rank(which, At(g)) \in Nat
        /\ Better(which, At(g), v) <=> Rank(which, At(g)) < Rank(which, v)
        /\ Rank(which, v) = Rank(which, At(g)) => v = At(g)
    BY <1>2, <1>4, RankOrder
  <2> QED
    BY <1>4, <2>1, <2>2
<1> QED
  BY <1>3, <1>5, <1>6, <1>7

\* With the results of all batches in their slots, the reductions end with what
\* one call on the whole image returns.
LEMMA ReductionCorrect ==
  ASSUME InputsOK, width > 0, height > 0, NEW which \in wanted,
         \A r \in 0..height - 1 : SlotOK(which, r),
         \A r \in 0..height - 1 : \E begin \in 0..r, end \in r + 1..height :
           slots[which][begin] = Computed(which, begin, end)
  PROVE  Outcomes(which) = {Computed(which, 0, height)}
<1>1. /\ which \in Which /\ width \in Nat \ {0} /\ height \in Nat \ {0}
      /\ 0 \in 0..height /\ height \in 0 + 1..height
      /\ reduction \in {"min_max", "min_max_loc"}
  BY DEF InputsOK
<1>2. PICK g \in 0..Size - 1 : IsFirst(which, 0, height, g)
  BY <1>1, FirstExists
<1>3. g \div width \in 0..height - 1
  BY <1>1, <1>2, FirstOfImage
<1>4. PICK b \in 0..g \div width, end \in (g \div width) + 1..height :
        slots[which][b] = Computed(which, b, end)
  BY <1>3
<1>5. CASE reduction = "min_max"
  <2>1. Reduced(which) = At(g)
    BY <1>1, <1>2, <1>4, <1>5, ReducedIs
  <2>2. Computed(which, 0, height) = At(g)
    BY <1>1, <1>2, <1>5, ComputedIs
  <2> QED
    BY <1>5, <2>1, <2>2 DEF Outcomes
<1>6. CASE reduction = "min_max_loc"
  <2>1. ReducedOffset(which) = offset_for_index(g)
    BY <1>1, <1>2, <1>4, <1>6, ReducedOffsetIs
  <2>2. /\ Computed(which, 0, height) \in Nat
        /\ Computed(which, 0, height) + 0 * src_stride = offset_for_index(g)
    BY <1>1, <1>2, <1>6, ComputedIs
  <2>3. 0 * src_stride = 0
    BY <1>1, ThreadedMinMaxAssumption DEF src_stride
  <2>4. Computed(which, 0, height) = offset_for_index(g)
    BY <2>2, <2>3
  <2> QED
    BY <1>1, <1>6, <2>1, <2>4 DEF Outcomes
<1> QED
  BY <1>1, <1>5, <1>6
-----------------------------------------------------------------------------
\* What the functions compute depends on nothing but the inputs of the call.
LEMMA InputsKept ==
  ASSUME UNCHANGED inputs
  PROVE  /\ \A which, begin, end :
              Computed(which, begin, end)' = Computed(which, begin, end)
         /\ \A which : Fill(which)' = Fill(which)
         /\ InputsOK' <=> InputsOK
<1>1. /\ reduction' = reduction /\ width' = width /\ height' = height
      /\ pixels' = pixels /\ wanted' = wanted
  BY DEF inputs
<1>2. src_stride' = src_stride
  BY <1>1 DEF src_stride
<1>3. \A begin, end : PixelsOf(begin, end)' = PixelsOf(begin, end)
  BY <1>1 DEF PixelsOf
<1>4. ASSUME NEW which, NEW begin, NEW end
      PROVE  Computed(which, begin, end)' = Computed(which, begin, end)
  BY <1>1, <1>2, <1>3 DEF Computed, offset_for_index
<1> QED
  BY <1>1, <1>4 DEF Fill, InputsOK

\* Slots that are left alone keep what they hold.
LEMMA SlotKept ==
  ASSUME UNCHANGED inputs, NEW which, NEW r, slots'[which][r] = slots[which][r],
         SlotOK(which, r)
  PROVE  SlotOK(which, r)'
<1>1. width' = width /\ height' = height
  BY DEF inputs
<1> QED
  BY <1>1, InputsKept DEF SlotOK

LEMMA ThreadedInitInv == ThreadedInit => ThreadedInv
<1> SUFFICES ASSUME ThreadedInit PROVE ThreadedInv
  OBVIOUS
<1>1. InputsOK
  <2>1. pixels \in [0..height - 1 -> [1..width -> Lowest..Highest]]
    BY ThreadedMinMaxAssumption DEF ThreadedInit
  <2>2. /\ reduction \in {"min_max", "min_max_loc"} /\ width \in Nat /\ height \in Nat
        /\ wanted \subseteq Which
    BY ThreadedMinMaxAssumption DEF ThreadedInit
  <2> QED
    BY <2>1, <2>2 DEF InputsOK
<1>2. state = "call" /\ slots = << >> /\ rows = 0..height - 1 /\ return_val = "OK"
  BY DEF ThreadedInit
<1>3. SlotsOK /\ TakenRowsDone /\ ThreadedProgress /\ ResultOK
  BY <1>2 DEF SlotsOK, TakenRowsDone, ThreadedProgress, ResultOK
<1> QED
  BY <1>1, <1>3 DEF ThreadedInv

\* The invariant says what the run checks.
LEMMA ThreadedInvImplies == ThreadedInv => SameAsSingleThreaded
<1> SUFFICES ASSUME ThreadedInv PROVE SameAsSingleThreaded
  OBVIOUS
<1>1. InputsOK /\ SlotsOK /\ ThreadedProgress /\ ResultOK
  BY DEF ThreadedInv
<1>2. ASSUME NEW which \in DOMAIN slots, reduction = "min_max",
             NEW i \in DOMAIN slots[which]
      PROVE  slots[which][i] \in Lowest..Highest
  <2>1. which \in Which /\ i \in Nat /\ SlotOK(which, i)
    BY <1>1 DEF SlotsOK
  <2> QED
    BY <1>1, <1>2, <2>1, SlotValue
<1>3. ThreadedTypeOK
  BY <1>1, <1>2 DEF ThreadedProgress, ThreadedTypeOK
<1> QED
  BY <1>1, <1>3 DEF SameAsSingleThreaded, ResultOK
-----------------------------------------------------------------------------
\* Filling the slots: none has a result yet, and no row is taken.
LEMMA AllocateStep == ThreadedInv /\ Allocate => ThreadedInv'
<1> SUFFICES ASSUME ThreadedInv, Allocate PROVE ThreadedInv'
  OBVIOUS
<1> DEFINE last == (IF height = 0 THEN 1 ELSE height) - 1
<1>1. /\ UNCHANGED inputs /\ rows' = rows /\ return_val' = return_val
      /\ state = "call" /\ state' = "batches"
      /\ slots' = [which \in wanted |-> [r \in 0..last |-> Fill(which)]]
  BY DEF Allocate
<1>2. InputsOK /\ ThreadedProgress /\ rows = 0..height - 1
  BY <1>1 DEF ThreadedInv, ThreadedProgress
<1>3. /\ InputsOK' /\ height' = height /\ wanted' = wanted
      /\ \A which : Fill(which)' = Fill(which)
  BY <1>1, <1>2, InputsKept DEF inputs
<1>4. last \in Nat /\ height \in {0, last + 1} /\ (height = 0 => last = 0)
  BY <1>2 DEF InputsOK
<1> HIDE DEF last
<1>5. \A which \in wanted : which \in Which /\ Fill(which) \in Int
  BY <1>2, ThreadedMinMaxAssumption DEF InputsOK, Fill
<1>6. SlotsOK'
  <2>1. slots' \in [wanted -> [0..last -> Int]]
    BY <1>1, <1>5
  <2>2. ASSUME NEW which \in DOMAIN slots', NEW r \in DOMAIN slots'[which]
        PROVE  which \in Which /\ r \in Nat /\ SlotOK(which, r)'
    <3>1. which \in wanted /\ r \in 0..last
      BY <2>1
    <3>2. slots'[which][r] = Fill(which)'
      BY <1>1, <1>3, <3>1
    <3> QED
      BY <1>4, <1>5, <3>1, <3>2 DEF SlotOK
  <2>3. \A which \in DOMAIN slots' : which \in Which
    BY <1>5, <2>1
  <2> QED
    BY <1>1, <1>3, <1>4, <2>1, <2>2, <2>3 DEF SlotsOK
<1>7. TakenRowsDone' /\ ThreadedProgress' /\ ResultOK'
  BY <1>1, <1>2, <1>3 DEF TakenRowsDone, ThreadedProgress, ResultOK
<1> QED
  BY <1>3, <1>6, <1>7 DEF ThreadedInv

\* A batch: its result goes to the slot of its first row, which no other batch
\* uses, as the row was not taken.
LEMMA BatchStep ==
  ASSUME ThreadedInv, NEW begin \in 0..height, NEW end \in 0..height,
         begin < end \/ (begin = 0 /\ height = 0), Batch(begin, end)
  PROVE  ThreadedInv'
<1>1. /\ UNCHANGED inputs /\ state = "batches"
      /\ begin..end - 1 \subseteq rows /\ rows' = rows \ (begin..end - 1)
      /\ state' = IF rows' = {} THEN "reduce" ELSE "batches"
      /\ return_val' = IF FunctionError(begin, end) # "OK"
                         THEN FunctionError(begin, end) ELSE return_val
  BY DEF Batch
<1>2. InputsOK /\ SlotsOK /\ TakenRowsDone /\ ThreadedProgress
  BY DEF ThreadedInv
<1>3. /\ InputsOK' /\ height' = height /\ width' = width /\ wanted' = wanted
      /\ \A which, b, e : Computed(which, b, e)' = Computed(which, b, e)
  BY <1>1, <1>2, InputsKept DEF inputs
<1>4. width \in Nat /\ height \in Nat /\ wanted \subseteq Which
  BY <1>2 DEF InputsOK
<1>5. PICK last \in Nat :
        /\ height \in {0, last + 1} /\ (height = 0 => last = 0)
        /\ slots \in [wanted -> [0..last -> Int]]
  BY <1>1, <1>2 DEF SlotsOK
<1>6. \A which \in wanted, r \in 0..last : SlotOK(which, r)
  BY <1>2, <1>5 DEF SlotsOK
<1>7. ResultOK'
  BY <1>1 DEF ResultOK
<1>8. FunctionError(begin, end) \in {"OK", "RANGE", "NULL_POINTER"}
  BY DEF FunctionError
<1>9. CASE FunctionError(begin, end) # "OK"
  <2>1. slots' = slots /\ return_val' \in {"RANGE", "NULL_POINTER"}
    BY <1>1, <1>8, <1>9 DEF Batch
  <2>2. ASSUME NEW which \in wanted, NEW r \in 0..last PROVE SlotOK(which, r)'
    BY <1>1, <1>6, <2>1, SlotKept
  <2>3. SlotsOK'
    <3>1. \A which \in DOMAIN slots' : which \in wanted /\ DOMAIN slots'[which] = 0..last
      BY <1>5, <2>1
    <3>2. \A which \in DOMAIN slots' : /\ which \in Which
            /\ \A r \in DOMAIN slots'[which] : r \in Nat /\ SlotOK(which, r)'
      BY <1>4, <1>5, <2>2, <3>1
    <3> QED
      BY <1>1, <1>3, <1>5, <2>1, <3>2 DEF SlotsOK
  <2>4. TakenRowsDone' /\ ThreadedProgress'
    BY <1>1, <1>2, <1>3, <2>1 DEF TakenRowsDone, ThreadedProgress
  <2> QED
    BY <1>3, <1>7, <2>3, <2>4 DEF ThreadedInv
<1>10. CASE FunctionError(begin, end) = "OK"
  <2>1. width > 0 /\ begin # end
    BY <1>4, <1>10 DEF FunctionError
  <2>2. /\ height > 0 /\ begin \in 0..last /\ begin \in 0..height - 1
        /\ end \in begin + 1..height /\ begin \in rows /\ begin \in begin..end - 1
    <3>1. begin < end
      BY <1>4, <2>1
    <3>2. begin \in begin..end - 1
      BY <1>4, <3>1
    <3> QED
      BY <1>1, <1>4, <1>5, <3>1, <3>2
  <2>3. /\ return_val' = return_val
        /\ slots' = [which \in wanted |->
             [slots[which] EXCEPT ![begin] = Computed(which, begin, end)]]
    BY <1>1, <1>10 DEF Batch
  <2>4. /\ DOMAIN slots' = wanted
        /\ \A which \in wanted :
             /\ DOMAIN slots'[which] = 0..last
             /\ slots'[which][begin] = Computed(which, begin, end)
             /\ \A r \in 0..last : r # begin => slots'[which][r] = slots[which][r]
    BY <1>5, <2>2, <2>3
  <2>5. \A which \in wanted : Computed(which, begin, end) \in Int
    <3> SUFFICES ASSUME NEW which \in wanted PROVE Computed(which, begin, end) \in Int
      OBVIOUS
    <3>1. which \in Which
      BY <1>4
    <3>2. PICK n \in 0..Size - 1 : IsFirst(which, begin, end, n)
      BY <1>2, <2>1, <2>2, <3>1, FirstExists
    <3>3. /\ reduction = "min_max" => Computed(which, begin, end) = At(n)
          /\ reduction = "min_max_loc" => Computed(which, begin, end) \in Nat
      BY <1>2, <2>1, <2>2, <3>1, <3>2, ComputedIs
    <3>4. At(n) \in Lowest..Highest
      BY <1>2, <2>1, PixelAt
    <3> QED
      BY <1>2, <3>3, <3>4, ThreadedMinMaxAssumption DEF InputsOK
  <2>6. slots' \in [wanted -> [0..last -> Int]]
    BY <1>5, <2>3, <2>5
  <2>7. ASSUME NEW which \in wanted, NEW r \in 0..last PROVE SlotOK(which, r)'
    <3>1. CASE r = begin
      BY <1>3, <2>1, <2>2, <2>4, <3>1 DEF SlotOK
    <3>2. CASE r # begin
      BY <1>1, <1>6, <2>4, <3>2, SlotKept
    <3> QED
      BY <3>1, <3>2
  <2>8. SlotsOK'
    <3>1. \A which \in DOMAIN slots' : /\ which \in Which
            /\ \A r \in DOMAIN slots'[which] : r \in Nat /\ SlotOK(which, r)'
      BY <1>4, <1>5, <2>4, <2>7
    <3> QED
      BY <1>1, <1>3, <1>5, <2>6, <3>1 DEF SlotsOK
  <2>9. ASSUME return_val = "OK", NEW r \in 0..height - 1, r \notin rows'
        PROVE  \E b \in 0..r, e \in r + 1..height :
                 /\ b \notin rows'
                 /\ \A which \in wanted : slots'[which][b] = Computed(which, b, e)
    <3>1. CASE r \in begin..end - 1
      <4>1. begin \in 0..r /\ end \in r + 1..height /\ begin \notin rows'
        BY <1>1, <1>4, <2>2, <3>1
      <4> QED
        BY <2>4, <4>1
    <3>2. CASE r \notin begin..end - 1
      <4>1. r \notin rows
        BY <1>1, <2>9, <3>2
      <4>2. PICK b \in 0..r, e \in r + 1..height :
              /\ b \notin rows
              /\ \A which \in wanted : slots[which][b] = Computed(which, b, e)
        BY <1>1, <1>2, <2>9, <4>1 DEF TakenRowsDone
      <4>3. b # begin /\ b \notin rows' /\ b \in 0..last
        BY <1>1, <1>4, <1>5, <2>2, <4>2
      <4> QED
        BY <2>4, <4>2, <4>3
    <3> QED
      BY <3>1, <3>2
  <2>10. TakenRowsDone'
    BY <1>3, <2>3, <2>9 DEF TakenRowsDone
  <2>11. ThreadedProgress'
    BY <1>1, <1>2, <1>3, <2>1, <2>2, <2>3 DEF ThreadedProgress
  <2> QED
    BY <1>3, <1>7, <2>8, <2>10, <2>11 DEF ThreadedInv
<1> QED
  BY <1>9, <1>10

\* The reductions: every row was taken, so that every row's batch has left its
\* result, and with return_val OK there are pixels.
LEMMA ReduceStep == ThreadedInv /\ Reduce => ThreadedInv'
<1> SUFFICES ASSUME ThreadedInv, Reduce PROVE ThreadedInv'
  OBVIOUS
<1>1. /\ UNCHANGED inputs /\ slots' = slots /\ rows' = rows /\ return_val' = return_val
      /\ state = "reduce" /\ state' \in {"returned", "null dereference"}
  BY DEF Reduce
<1>2. InputsOK /\ SlotsOK /\ TakenRowsDone /\ ThreadedProgress
  BY DEF ThreadedInv
<1>3. /\ InputsOK' /\ height' = height /\ wanted' = wanted
      /\ \A which, b, e : Computed(which, b, e)' = Computed(which, b, e)
  BY <1>1, <1>2, InputsKept DEF inputs
<1>4. SlotsOK'
  <2>1. ASSUME NEW which \in DOMAIN slots, NEW r \in DOMAIN slots[which]
        PROVE  r \in Nat /\ SlotOK(which, r)'
    BY <1>1, <1>2, SlotKept DEF SlotsOK
  <2> QED
    BY <1>1, <1>2, <2>1 DEF SlotsOK
<1>5. TakenRowsDone' /\ ThreadedProgress'
  BY <1>1, <1>2, <1>3 DEF TakenRowsDone, ThreadedProgress
<1>6. ResultOK'
  <2> SUFFICES ASSUME state' = "returned", return_val = "OK", NEW which \in wanted
               PROVE  extremes'[which] = Computed(which, 0, height)
    BY <1>1, <1>3 DEF ResultOK
  <2>1. width > 0 /\ height > 0 /\ rows = {} /\ height \in Nat
    BY <1>1, <1>2 DEF ThreadedProgress, InputsOK
  <2>2. \A r \in 0..height - 1 : SlotOK(which, r)
    BY <1>1, <1>2, <2>1 DEF SlotsOK
  <2>3. \A r \in 0..height - 1 : \E begin \in 0..r, end \in r + 1..height :
          slots[which][begin] = Computed(which, begin, end)
    BY <1>1, <1>2, <2>1 DEF TakenRowsDone
  <2>4. Outcomes(which) = {Computed(which, 0, height)}
    BY <1>2, <2>1, <2>2, <2>3, ReductionCorrect
  <2>5. PICK min \in Outcomes("min"), max \in Outcomes("max") :
          extremes' = [min |-> min, max |-> max]
    BY DEF Reduce
  <2>6. which \in {"min", "max"}
    BY <1>2 DEF InputsOK, Which
  <2>7. CASE which = "min"
    BY <2>4, <2>5, <2>7
  <2>8. CASE which = "max"
    BY <2>4, <2>5, <2>8
  <2> QED
    BY <2>6, <2>7, <2>8
<1> QED
  BY <1>3, <1>4, <1>5, <1>6 DEF ThreadedInv

\* A failed allocation is reported, and a call that has returned stays as it is.
LEMMA QuietStep ==
  ThreadedInv /\ (AllocationFails \/ UNCHANGED threadedVars) => ThreadedInv'
<1> SUFFICES ASSUME ThreadedInv, AllocationFails \/ UNCHANGED threadedVars
             PROVE  ThreadedInv'
  OBVIOUS
<1>1. /\ UNCHANGED inputs /\ slots' = slots /\ rows' = rows /\ extremes' = extremes
      /\ \/ state' = "returned" /\ return_val' = "ALLOCATION"
         \/ state' = state /\ return_val' = return_val
  BY DEF AllocationFails, threadedVars
<1>2. InputsOK /\ SlotsOK /\ TakenRowsDone /\ ThreadedProgress /\ ResultOK
  BY DEF ThreadedInv
<1>3. /\ InputsOK' /\ width' = width /\ height' = height /\ wanted' = wanted
      /\ \A which, b, e : Computed(which, b, e)' = Computed(which, b, e)
  BY <1>1, <1>2, InputsKept DEF inputs
<1>4. SlotsOK'
  <2>1. ASSUME NEW which \in DOMAIN slots, NEW r \in DOMAIN slots[which]
        PROVE  r \in Nat /\ SlotOK(which, r)'
    BY <1>1, <1>2, SlotKept DEF SlotsOK
  <2> QED
    BY <1>1, <1>2, <1>3, <2>1 DEF SlotsOK
<1>5. TakenRowsDone'
  BY <1>1, <1>2, <1>3 DEF TakenRowsDone
<1>6. ThreadedProgress' /\ ResultOK'
  BY <1>1, <1>2, <1>3 DEF ThreadedProgress, ResultOK
<1> QED
  BY <1>3, <1>4, <1>5, <1>6 DEF ThreadedInv

(***************************************************************************)
(* parallel_min_max and parallel_min_max_loc: whatever the image, however  *)
(* the scheduler cuts its rows and in whatever order the batches end, a    *)
(* threaded call that returns KLEIDICV_OK stores what one call on the      *)
(* whole image does - for min_max_loc the offset of the same one of        *)
(* several equal pixels.                                                   *)
(***************************************************************************)
THEOREM ThreadedSameAsSingle == ThreadedSpec => []SameAsSingleThreaded
<1>1. ThreadedInv /\ [ThreadedNext]_threadedVars => ThreadedInv'
  <2> SUFFICES ASSUME ThreadedInv, [ThreadedNext]_threadedVars PROVE ThreadedInv'
    OBVIOUS
  <2>1. CASE AllocationFails \/ UNCHANGED threadedVars
    BY <2>1, QuietStep
  <2>2. CASE Allocate
    BY <2>2, AllocateStep
  <2>3. CASE Reduce
    BY <2>3, ReduceStep
  <2>4. ASSUME NEW begin \in 0..height, NEW end \in 0..height,
               begin < end \/ (begin = 0 /\ height = 0), Batch(begin, end)
        PROVE  ThreadedInv'
    BY <2>4, BatchStep
  <2> QED
    BY <2>1, <2>2, <2>3, <2>4 DEF ThreadedNext
<1> QED
  BY <1>1, ThreadedInitInv, ThreadedInvImplies, PTL DEF ThreadedSpec
-----------------------------------------------------------------------------
(***************************************************************************)
(* The search for the first extreme.                                       *)
(***************************************************************************)
Total == shape.width * shape.height

\* Pixel number n, and the number of the pixel that lane l has from block begin
\* and vector offset, counted from 1.
Element(n) == image[n + 1]
Met(begin, offset, l) == begin + (offset - 1) * num_lanes + l

\* Where the search is, and that no number of a vector wraps.
CursorOK ==
  /\ at \in {"call", "row", "block", "range", "returned"}
  /\ shape \in [width : Nat, height : Nat, stride : Nat]
  /\ image \in [1..Total -> 0..ScalarMax]
  /\ columns \in Nat /\ rows_left \in Nat /\ elements \in 0..columns
  /\ vectors_in_block \in 0..max_vectors_per_block
  /\ vectors \in 0..vectors_in_block
  /\ running_index_ \in 0..Total
  /\ vrunning_offset_ = IF at = "block" THEN vectors + 1 ELSE 1
  /\ at \in {"row", "block"} => rows_left > 0
  /\ at \in {"row", "block", "returned"} => Total > 0
  /\ at = "call" => running_index_ = 0
  /\ at = "row" => Position = running_index_
  /\ at = "block" =>
       /\ Position = running_index_ + vectors * num_lanes
       /\ (vectors_in_block - vectors) * num_lanes <= elements
  /\ at = "returned" => running_index_ = Total

BestType ==
  [new : [Lanes -> 0..ScalarMax], offsets_new : [Lanes -> 0..max_vectors_per_block],
   v : [Lanes -> 0..ScalarMax], offsets : [Lanes -> 0..max_vectors_per_block],
   block_index : Nat, vector : 0..ScalarMax, scalar : 0..ScalarMax,
   scalar_index : Nat]

\* What finished blocks have found: the lanes that hold the best value have it
\* from the block whose index is kept.
VectorsOK(which, b) ==
  /\ \A l \in Lanes : ~Better(which, b.v[l], b.vector)
  /\ b.vector = Neutral(which) => \A l \in Lanes : b.offsets[l] = 0
  /\ b.vector # Neutral(which) =>
       /\ \E l \in Lanes : b.v[l] = b.vector
       /\ \A l \in Lanes : b.v[l] = b.vector =>
            /\ b.offsets[l] > 0
            /\ Met(b.block_index, b.offsets[l], l) \in 0..running_index_ - 1
            /\ Element(Met(b.block_index, b.offsets[l], l)) = b.vector

\* What the single elements have found.
ScalarOK(which, b) ==
  /\ b.scalar = Neutral(which) => b.scalar_index = 0
  /\ b.scalar # Neutral(which) =>
       b.scalar_index \in 0..running_index_ - 1 /\ Element(b.scalar_index) = b.scalar

\* What the lanes have found in the current block.
BlockOK(which, b) ==
  \A l \in Lanes :
    /\ b.offsets_new[l] = 0 => b.new[l] = b.vector
    /\ b.offsets_new[l] # 0 =>
         /\ at = "block" /\ b.offsets_new[l] <= vectors
         /\ Better(which, b.new[l], b.vector)
         /\ Element(Met(running_index_, b.offsets_new[l], l)) = b.new[l]
    /\ at = "block" => \A k \in 1..vectors :
         /\ ~Better(which, Element(Met(running_index_, k, l)), b.new[l])
         /\ Element(Met(running_index_, k, l)) = b.new[l] => b.offsets_new[l] <= k

\* Element n is no better than what was found, nor before it if equal.
CoveredByVectors(which, b, n) ==
  /\ ~Better(which, Element(n), b.vector)
  /\ Element(n) = b.vector /\ b.vector # Neutral(which) =>
       \E l \in Lanes : b.v[l] = b.vector /\ Met(b.block_index, b.offsets[l], l) <= n

CoveredByScalars(which, b, n) ==
  /\ ~Better(which, Element(n), b.scalar)
  /\ Element(n) = b.scalar => b.scalar_index <= n

Covered(which, b) ==
  \A n \in 0..running_index_ - 1 :
    CoveredByVectors(which, b, n) \/ CoveredByScalars(which, b, n)

SearchOK(which, b) ==
  VectorsOK(which, b) /\ ScalarOK(which, b) /\ BlockOK(which, b) /\ Covered(which, b)

LocationInv ==
  /\ CursorOK
  /\ best \in [Which -> BestType]
  /\ \A which \in Which : SearchOK(which, best[which])
-----------------------------------------------------------------------------
\* Of two values one is better, or they are equal; no pixel is worse than the
\* neutral value.
LEMMA ValueOrder ==
  ASSUME NEW which \in Which, NEW a \in 0..ScalarMax, NEW b \in 0..ScalarMax
  PROVE  /\ Neutral(which) \in 0..ScalarMax
         /\ ~Better(which, Neutral(which), a)
         /\ ~Better(which, a, a)
         /\ Better(which, a, b) => ~Better(which, b, a)
         /\ ~Better(which, a, b) /\ ~Better(which, b, a) => a = b
         /\ \A c \in 0..ScalarMax :
              ~Better(which, b, a) /\ ~Better(which, c, b) => ~Better(which, c, a)
  BY MinMaxLocAssumption DEF Which, Better, Neutral

\* A vector has a best lane.
LEMMA AcrossBest ==
  ASSUME NEW which \in Which, NEW v \in [Lanes -> 0..ScalarMax]
  PROVE  /\ \E l \in Lanes : Across(which, v) = v[l]
         /\ \A l \in Lanes : ~Better(which, v[l], Across(which, v))
<1>1. num_lanes \in Nat \ {0} /\ ScalarMax \in Nat
  BY MinMaxLocAssumption
<1> DEFINE f == [l \in 0..num_lanes - 1 |-> IF which = "min" THEN v[l] ELSE ScalarMax - v[l]]
<1>2. f \in [0..num_lanes - 1 -> Nat]
  BY <1>1 DEF Lanes
<1>3. PICK i \in 0..num_lanes - 1 : \A j \in 0..num_lanes - 1 : f[i] <= f[j]
  <2> HIDE DEF f
  <2> QED
    BY <1>1, <1>2, FirstLeast
<1>4. i \in Lanes /\ \A l \in Lanes : ~Better(which, v[l], v[i])
  BY <1>1, <1>3 DEF Lanes, Better, Which
<1>5. \E x \in {v[l] : l \in Lanes} : \A l \in Lanes : ~Better(which, v[l], x)
  BY <1>4
<1>6. /\ Across(which, v) \in {v[l] : l \in Lanes}
      /\ \A l \in Lanes : ~Better(which, v[l], Across(which, v))
  BY <1>5 DEF Across
<1> QED
  BY <1>6

\* Of the lanes of a set, one met its value before the others.
LEMMA EarliestLane ==
  ASSUME NEW offsets \in [Lanes -> Nat], NEW S, S \subseteq Lanes, S # {},
         NEW begin \in Nat
  PROVE  LET Earliest(l) == \A k \in S : \/ offsets[l] < offsets[k]
                                         \/ offsets[l] = offsets[k] /\ l =< k
         IN  /\ \E l \in S : Earliest(l)
             /\ \A l \in S : Earliest(l) =>
                  \A k \in S : Met(begin, offsets[l], l) <= Met(begin, offsets[k], k)
<1> DEFINE Earliest(l) == \A k \in S : \/ offsets[l] < offsets[k]
                                       \/ offsets[l] = offsets[k] /\ l =< k
           key(l) == offsets[l] * num_lanes + l
           T == {key(l) : l \in S}
<1>1. /\ num_lanes \in Nat \ {0}
      /\ \A l \in S : l \in 0..num_lanes - 1 /\ offsets[l] \in Nat
  BY MinMaxLocAssumption DEF Lanes
<1>2. ASSUME NEW l \in S, NEW k \in S, offsets[l] < offsets[k] PROVE key(l) < key(k)
  <2>1. offsets[l] * num_lanes + num_lanes <= offsets[k] * num_lanes
    BY <1>1, <1>2, Multiples
  <2>2. offsets[l] * num_lanes \in Nat /\ offsets[k] * num_lanes \in Nat
    BY <1>1
  <2> QED
    BY <1>1, <2>1, <2>2
<1>3. \A l \in S : key(l) \in Nat
  BY <1>1
<1>4. ASSUME NEW l \in S, NEW k \in S
      PROVE  Met(begin, offsets[l], l) - Met(begin, offsets[k], k) = key(l) - key(k)
  BY <1>1 DEF Met
<1>5. \E l \in S : Earliest(l)
  <2>1. T \subseteq Nat /\ T # {}
    BY <1>3
  <2>2. PICK x \in T : \A y \in T : x <= y
    <3> HIDE DEF T
    <3> QED
      BY <2>1, Least
  <2>3. PICK l \in S : x = key(l)
    BY <2>2
  <2>4. ASSUME NEW k \in S PROVE offsets[l] < offsets[k] \/ (offsets[l] = offsets[k] /\ l =< k)
    <3>1. key(l) <= key(k)
      BY <2>2, <2>3
    <3>2. ~(offsets[k] < offsets[l])
      <4> HIDE DEF key
      <4> QED
        BY <1>2, <1>3, <2>3, <3>1
    <3>3. offsets[l] = offsets[k] => l =< k
      BY <1>1, <2>3, <3>1
    <3> QED
      BY <1>1, <2>3, <3>2, <3>3
  <2> QED
    BY <2>3, <2>4
<1>6. ASSUME NEW l \in S, Earliest(l), NEW k \in S
      PROVE  Met(begin, offsets[l], l) <= Met(begin, offsets[k], k)
  <2>1. key(l) <= key(k)
    <3>1. CASE offsets[l] < offsets[k]
      <4> HIDE DEF key
      <4> QED
        BY <1>2, <1>3, <3>1
    <3>2. CASE offsets[l] = offsets[k] /\ l =< k
      BY <1>1, <3>2
    <3> QED
      BY <1>6, <3>1, <3>2
  <2>2. /\ Met(begin, offsets[l], l) \in Int /\ Met(begin, offsets[k], k) \in Int
    BY <1>1 DEF Met
  <2> HIDE DEF key
  <2> QED
    BY <1>3, <1>4, <2>1, <2>2
<1> QED
  BY <1>5, <1>6

\* Lanes keep values of the element type and numbers of vectors.
LEMMA LaneTypes ==
  ASSUME NEW b \in BestType, NEW l \in Lanes
  PROVE  /\ b.new[l] \in 0..ScalarMax /\ b.v[l] \in 0..ScalarMax
         /\ b.offsets_new[l] \in Nat /\ b.offsets[l] \in Nat
         /\ b.vector \in 0..ScalarMax /\ b.block_index \in Nat
         /\ Met(b.block_index, b.offsets[l], l) \in Int
<1>1. max_vectors_per_block \in Nat /\ num_lanes \in Nat /\ l \in Int
  BY MinMaxLocAssumption DEF max_vectors_per_block, Lanes
<1>2. /\ b.new[l] \in 0..ScalarMax /\ b.v[l] \in 0..ScalarMax
      /\ b.offsets_new[l] \in Nat /\ b.offsets[l] \in Nat
      /\ b.vector \in 0..ScalarMax /\ b.block_index \in Nat
  BY <1>1 DEF BestType
<1>3. (b.offsets[l] - 1) * num_lanes \in Int
  BY <1>1, <1>2
<1> QED
  BY <1>1, <1>2, <1>3 DEF Met

\* The vectors' index is that of the first of their best values, and its offset
\* is zero when no vector had a value better than the neutral one.
LEMMA VectorIndexIs ==
  ASSUME CursorOK, NEW which \in Which, NEW b \in BestType, VectorsOK(which, b),
         \A l \in Lanes : b.new[l] = b.vector
  PROVE  LET found == VectorIndex(b, which)
         IN  /\ b.vector = Neutral(which) => found.offset = 0
             /\ b.vector # Neutral(which) =>
                  /\ found.offset > 0
                  /\ found.index \in 0..running_index_ - 1
                  /\ Element(found.index) = b.vector
                  /\ \A l \in Lanes : b.v[l] = b.vector =>
                       found.index <= Met(b.block_index, b.offsets[l], l)
<1> DEFINE S == {l \in Lanes : ~Better(which, b.new[l], b.v[l])}
           Earliest(l) == \A k \in S : \/ b.offsets[l] < b.offsets[k]
                                       \/ b.offsets[l] = b.offsets[k] /\ l =< k
           e == CHOOSE l \in S : Earliest(l)
<1>1. /\ b.vector \in 0..ScalarMax /\ b.block_index \in Nat
      /\ b.v \in [Lanes -> 0..ScalarMax] /\ b.offsets \in [Lanes -> Nat]
      /\ \A l \in Lanes : ~Better(which, b.v[l], b.vector)
  BY MinMaxLocAssumption DEF BestType, VectorsOK, max_vectors_per_block
<1>2. S = {l \in Lanes : b.v[l] = b.vector}
  <2>1. ASSUME NEW l \in Lanes
        PROVE  ~Better(which, b.vector, b.v[l]) <=> b.v[l] = b.vector
    <3>1. b.v[l] \in 0..ScalarMax
      BY <1>1
    <3> QED
      BY <1>1, <3>1, ValueOrder
  <2> QED
    BY <2>1
<1>3. S # {}
  <2>1. CASE b.vector = Neutral(which)
    <3>1. 0 \in Lanes
      BY MinMaxLocAssumption DEF Lanes
    <3>2. b.v[0] \in 0..ScalarMax
      BY <1>1, <3>1
    <3>3. ~Better(which, b.vector, b.v[0])
      BY <2>1, <3>2, ValueOrder
    <3> QED
      BY <3>1, <3>3
  <2>2. CASE b.vector # Neutral(which)
    BY <1>2, <2>2 DEF VectorsOK
  <2> QED
    BY <2>1, <2>2
<1>4. S \subseteq Lanes
  OBVIOUS
<1>5. VectorIndex(b, which) =
        [offset |-> b.offsets[e],
         index |-> b.block_index + (b.offsets[e] - 1) * num_lanes + e]
  BY DEF VectorIndex
<1>6. VectorIndex(b, which) = [offset |-> b.offsets[e], index |-> Met(b.block_index, b.offsets[e], e)]
  BY <1>5 DEF Met
<1>7. /\ e \in S
      /\ \A k \in S : Met(b.block_index, b.offsets[e], e) <= Met(b.block_index, b.offsets[k], k)
  <2>1. /\ \E l \in S : Earliest(l)
        /\ \A l \in S : Earliest(l) =>
             \A k \in S : Met(b.block_index, b.offsets[l], l) <= Met(b.block_index, b.offsets[k], k)
    <3> HIDE DEF S
    <3> QED
      BY <1>1, <1>3, <1>4, EarliestLane
  <2>2. e \in S /\ Earliest(e)
    <3> HIDE DEF S, Earliest
    <3> QED
      BY <2>1
  <2> HIDE DEF S, Earliest, e
  <2> QED
    BY <2>1, <2>2
<1> HIDE DEF S, e, Earliest
<1>8. e \in Lanes /\ b.v[e] = b.vector
  BY <1>2, <1>7
<1>9. b.vector = Neutral(which) => b.offsets[e] = 0
  BY <1>8 DEF VectorsOK
<1>10. b.vector # Neutral(which) =>
         /\ b.offsets[e] > 0
         /\ Met(b.block_index, b.offsets[e], e) \in 0..running_index_ - 1
         /\ Element(Met(b.block_index, b.offsets[e], e)) = b.vector
  BY <1>8 DEF VectorsOK
<1>11. ASSUME NEW l \in Lanes, b.v[l] = b.vector
       PROVE  Met(b.block_index, b.offsets[e], e) <= Met(b.block_index, b.offsets[l], l)
  BY <1>2, <1>7, <1>11
<1> QED
  BY <1>6, <1>9, <1>10, <1>11

\* When every element is covered, the index is that of the first extreme.
LEMMA IndexIsFirst ==
  ASSUME LocationInv, at = "returned", NEW which \in Which
  PROVE  Index(which) = FirstExtreme(which, image)
<1> DEFINE b == best[which]
           found == VectorIndex(b, which)
           i == Index(which)
           First(m) == \A j \in 0..Total - 1 :
                         /\ ~Better(which, Element(j), Element(m))
                         /\ j < m => Better(which, Element(m), Element(j))
<1>1. /\ CursorOK /\ b \in BestType
      /\ VectorsOK(which, b) /\ ScalarOK(which, b) /\ BlockOK(which, b)
      /\ Covered(which, b)
  BY DEF LocationInv, SearchOK
<1>2. /\ Total \in Nat /\ Total > 0 /\ running_index_ = Total
      /\ image \in [1..Total -> 0..ScalarMax]
      /\ \A n \in 0..Total - 1 : Element(n) \in 0..ScalarMax
  <2>1. /\ Total \in Nat /\ Total > 0 /\ running_index_ = Total
        /\ image \in [1..Total -> 0..ScalarMax]
    BY <1>1 DEF CursorOK, Total
  <2> QED
    BY <2>1 DEF Element
<1>3. /\ b.vector \in 0..ScalarMax /\ b.scalar \in 0..ScalarMax
      /\ b.scalar_index \in Nat
      /\ Neutral(which) \in 0..ScalarMax /\ ScalarMax \in Nat
  BY <1>1, ValueOrder, MinMaxLocAssumption DEF BestType
<1>4. \A l \in Lanes : b.new[l] = b.vector
  BY <1>1 DEF BlockOK
<1>5. /\ b.vector = Neutral(which) => found.offset = 0
      /\ b.vector # Neutral(which) =>
           /\ found.offset > 0
           /\ found.index \in 0..Total - 1
           /\ Element(found.index) = b.vector
           /\ \A l \in Lanes : b.v[l] = b.vector =>
                found.index <= Met(b.block_index, b.offsets[l], l)
  <2> HIDE DEF b
  <2> QED
    BY <1>1, <1>2, <1>4, VectorIndexIs
<1>6. i = IF Better(which, b.scalar, b.vector) \/ found.offset = 0
            THEN b.scalar_index
          ELSE IF Better(which, b.vector, b.scalar) \/ found.index < b.scalar_index
            THEN found.index ELSE b.scalar_index
  BY DEF Index
<1>7. ASSUME NEW n \in 0..Total - 1
      PROVE  \/ /\ ~Better(which, Element(n), b.vector)
                /\ Element(n) = b.vector /\ b.vector # Neutral(which) => found.index <= n
             \/ /\ ~Better(which, Element(n), b.scalar)
                /\ Element(n) = b.scalar => b.scalar_index <= n
  <2>1. CoveredByVectors(which, b, n) \/ CoveredByScalars(which, b, n)
    BY <1>1, <1>2 DEF Covered
  <2>2. ASSUME Element(n) = b.vector, b.vector # Neutral(which),
               CoveredByVectors(which, b, n)
        PROVE  found.index <= n
    <3>1. PICK l \in Lanes : b.v[l] = b.vector /\ Met(b.block_index, b.offsets[l], l) <= n
      BY <2>2 DEF CoveredByVectors
    <3>2. found.index <= Met(b.block_index, b.offsets[l], l) /\ found.index \in Int
      BY <1>5, <2>2, <3>1
    <3>3. Met(b.block_index, b.offsets[l], l) \in Int
      <4> HIDE DEF b
      <4> QED
        BY <1>1, <3>1, LaneTypes
    <3> HIDE DEF found, b
    <3> QED
      BY <3>1, <3>2, <3>3
  <2> HIDE DEF found, b
  <2> QED
    BY <2>1, <2>2 DEF CoveredByVectors, CoveredByScalars
<1>8. /\ b.scalar = Neutral(which) => b.scalar_index = 0
      /\ b.scalar # Neutral(which) =>
           b.scalar_index \in 0..Total - 1 /\ Element(b.scalar_index) = b.scalar
  BY <1>1, <1>2 DEF ScalarOK
<1> DEFINE value == IF Better(which, b.scalar, b.vector) THEN b.scalar ELSE b.vector
<1>9. /\ i \in 0..Total - 1 /\ value \in 0..ScalarMax
      /\ Element(i) = value
      /\ \A n \in 0..Total - 1 :
           ~Better(which, Element(n), value) /\ (Element(n) = value => i <= n)
  <2> HIDE DEF found, b, i
  <2>1. CASE Better(which, b.scalar, b.vector)
    <3>1. b.scalar # Neutral(which)
      BY <1>3, <2>1, ValueOrder
    <3>2. i = b.scalar_index
      BY <1>6, <2>1
    <3>3. ASSUME NEW n \in 0..Total - 1
          PROVE  ~Better(which, Element(n), b.scalar) /\ (Element(n) = b.scalar => i <= n)
      <4>1. Element(n) \in 0..ScalarMax
        BY <1>2
      <4> QED
        BY <1>3, <1>7, <2>1, <3>2, <4>1 DEF Better, Which
    <3> QED
      BY <1>3, <1>8, <2>1, <3>1, <3>2, <3>3
  <2>2. CASE ~Better(which, b.scalar, b.vector) /\ b.vector = Neutral(which)
    <3>1. b.scalar = Neutral(which) /\ i = b.scalar_index
      BY <1>3, <1>5, <1>6, <2>2, ValueOrder
    <3>2. ASSUME NEW n \in 0..Total - 1
          PROVE  ~Better(which, Element(n), b.vector) /\ Element(n) = b.vector
      <4>1. Element(n) \in 0..ScalarMax
        BY <1>2
      <4>2. ~Better(which, Element(n), b.vector)
        BY <1>7, <2>2, <3>1
      <4> QED
        BY <1>3, <2>2, <4>1, <4>2, ValueOrder
    <3>3. 0 \in 0..Total - 1
      BY <1>2
    <3>4. Element(0) = b.vector
      BY <3>2, <3>3
    <3>5. i = 0
      BY <1>8, <3>1
    <3> QED
      BY <1>2, <1>3, <2>2, <3>2, <3>3, <3>4, <3>5
  <2>3. CASE ~Better(which, b.scalar, b.vector) /\ b.vector # Neutral(which)
    <3>1. /\ found.offset # 0 /\ found.index \in 0..Total - 1
          /\ Element(found.index) = b.vector
      BY <1>5, <2>3
    <3>2. CASE Better(which, b.vector, b.scalar)
      <4>1. i = found.index
        BY <1>6, <2>3, <3>1, <3>2
      <4>2. ASSUME NEW n \in 0..Total - 1
            PROVE  ~Better(which, Element(n), b.vector) /\ (Element(n) = b.vector => i <= n)
        <5>1. Element(n) \in 0..ScalarMax
          BY <1>2
        <5> QED
          BY <1>3, <1>7, <2>3, <3>2, <4>1, <5>1 DEF Better, Which
      <4> QED
        BY <1>3, <2>3, <3>1, <4>1, <4>2
    <3>3. CASE ~Better(which, b.vector, b.scalar)
      <4>1. b.scalar = b.vector
        BY <1>3, <2>3, <3>3, ValueOrder
      <4>2. b.scalar_index \in 0..Total - 1 /\ Element(b.scalar_index) = b.scalar
        BY <1>8, <2>3, <4>1
      <4>3. /\ i \in {found.index, b.scalar_index}
            /\ i <= found.index /\ i <= b.scalar_index
        <5>1. i = IF found.index < b.scalar_index THEN found.index ELSE b.scalar_index
          BY <1>6, <2>3, <3>1, <3>3
        <5>2. found.index \in Int /\ b.scalar_index \in Int
          BY <1>2, <3>1, <4>2
        <5> QED
          BY <5>1, <5>2
      <4>4. ASSUME NEW n \in 0..Total - 1
            PROVE  ~Better(which, Element(n), b.vector) /\ (Element(n) = b.vector => i <= n)
        <5>1. i \in Int /\ found.index \in Int /\ b.scalar_index \in Int
          BY <1>2, <3>1, <4>2, <4>3
        <5> QED
          BY <1>7, <2>3, <4>1, <4>3, <5>1
      <4> QED
        BY <1>3, <2>3, <3>1, <4>1, <4>2, <4>3, <4>4
    <3> QED
      BY <3>2, <3>3
  <2> QED
    BY <2>1, <2>2, <2>3
<1> HIDE DEF i, value, found, b
<1>10. First(i)
  <2>1. ASSUME NEW j \in 0..Total - 1, j < i PROVE Better(which, Element(i), Element(j))
    <3>1. Element(j) \in 0..ScalarMax /\ Element(j) # value
      BY <1>2, <1>9, <2>1
    <3> QED
      BY <1>9, <3>1, ValueOrder
  <2> QED
    BY <1>9, <2>1
<1>11. ASSUME NEW m \in 0..Total - 1, First(m) PROVE m = i
  <2>1. ~(i < m) /\ ~(m < i)
    BY <1>9, <1>10, <1>11
  <2> QED
    BY <1>2, <1>9, <2>1
<1>12. Len(image) = Total
  BY <1>2
<1>13. FirstExtreme(which, image) = CHOOSE m \in 0..Total - 1 : First(m)
  BY <1>12 DEF FirstExtreme, Element
<1> QED
  <2> HIDE DEF First
  <2> QED
    BY <1>9, <1>10, <1>11, <1>13 DEF i
-----------------------------------------------------------------------------
LEMMA LocationInitInv == LocationInit => LocationInv
<1> SUFFICES ASSUME LocationInit PROVE LocationInv
  OBVIOUS
<1>1. num_lanes \in Nat \ {0} /\ ScalarMax \in Nat /\ ScalarMax >= 3
  BY MinMaxLocAssumption
<1>2. CursorOK
  <2>1. shape \in [width : Nat, height : Nat, stride : Nat]
    BY MinMaxLocAssumption DEF LocationInit
  <2>2. Total \in Nat
    BY <2>1 DEF Total
  <2>3. image \in [1..Total -> 0..ScalarMax]
    BY MinMaxLocAssumption DEF LocationInit, Total
  <2> QED
    BY <1>1, <2>1, <2>2, <2>3 DEF LocationInit, CursorOK, max_vectors_per_block
<1>3. ASSUME NEW which \in Which PROVE best[which] \in BestType /\ SearchOK(which, best[which])
  <2> DEFINE b == best[which]
  <2>1. Neutral(which) \in 0..ScalarMax
    BY <1>1 DEF Neutral
  <2>2. b = [new |-> AllLanes(Neutral(which)), offsets_new |-> AllLanes(0),
             v |-> AllLanes(Neutral(which)), offsets |-> AllLanes(0),
             block_index |-> 0, vector |-> Neutral(which),
             scalar |-> Neutral(which), scalar_index |-> 0]
    BY DEF LocationInit
  <2>3. \A x : \A l \in Lanes : AllLanes(x)[l] = x
    BY DEF AllLanes
  <2>4. b \in BestType
    BY <1>1, <2>1, <2>2 DEF BestType, AllLanes, max_vectors_per_block
  <2>5. VectorsOK(which, b)
    BY <2>1, <2>2, <2>3, ValueOrder DEF VectorsOK
  <2>6. ScalarOK(which, b)
    BY <2>2 DEF ScalarOK
  <2>7. at = "call" /\ running_index_ = 0
    BY DEF LocationInit
  <2>8. BlockOK(which, b)
    BY <2>2, <2>3, <2>7 DEF BlockOK
  <2>9. Covered(which, b)
    BY <2>7 DEF Covered
  <2> QED
    BY <2>4, <2>5, <2>6, <2>8, <2>9 DEF SearchOK
<1>4. best \in [Which -> BestType]
  <2>1. DOMAIN best = Which /\ best = [which \in Which |-> best[which]]
    BY DEF LocationInit
  <2> QED
    BY <1>3, <2>1
<1> QED
  BY <1>2, <1>3, <1>4 DEF LocationInv

\* What was found stays right as long as no element is met.
LEMMA SearchKept ==
  ASSUME LocationInv, UNCHANGED <<image, best, running_index_>>,
         at # "block", at' = "block" => vectors' = 0
  PROVE  \A which \in Which : SearchOK(which, best[which])'
<1> SUFFICES ASSUME NEW which \in Which PROVE SearchOK(which, best[which])'
  OBVIOUS
<1> DEFINE b == best[which]
<1>1. /\ VectorsOK(which, b) /\ ScalarOK(which, b) /\ BlockOK(which, b)
      /\ Covered(which, b)
  BY DEF LocationInv, SearchOK
<1>2. b' = b /\ running_index_' = running_index_ /\ \A n : Element(n)' = Element(n)
  BY DEF Element
<1>3. VectorsOK(which, b)'
  BY <1>1, <1>2 DEF VectorsOK
<1>4. ScalarOK(which, b)'
  BY <1>1, <1>2 DEF ScalarOK
<1>5. BlockOK(which, b)'
  BY <1>1, <1>2 DEF BlockOK
<1>6. Covered(which, b)'
  BY <1>1, <1>2 DEF Covered, CoveredByVectors, CoveredByScalars
<1> QED
  BY <1>3, <1>4, <1>5, <1>6 DEF SearchOK

LEMMA ZipRowsStep == LocationInv /\ ZipRows => LocationInv'
<1> SUFFICES ASSUME LocationInv, ZipRows PROVE LocationInv'
  OBVIOUS
<1>1. CursorOK /\ best \in [Which -> BestType]
  BY DEF LocationInv
<1>2. /\ shape.width \in Nat \ {0} /\ shape.height \in Nat \ {0}
      /\ at = "call" /\ at' = "row" /\ elements' = columns'
      /\ UNCHANGED <<shape, image, vectors_in_block, vectors, vrunning_offset_,
                     running_index_, best>>
  BY <1>1 DEF ZipRows, CursorOK
<1>3. \/ columns' = Total /\ rows_left' = 1
      \/ columns' = shape.width /\ rows_left' = shape.height
  BY DEF ZipRows, Total
<1>4. running_index_ = 0 /\ Total \in Nat \ {0} /\ Len(image) = Total
  <2>1. Total \in Nat \ {0}
    BY <1>2 DEF Total
  <2>2. image \in [1..Total -> 0..ScalarMax] /\ running_index_ = 0
    BY <1>1, <1>2 DEF CursorOK
  <2> QED
    BY <2>1, <2>2
<1>5. Total' = Total
  BY <1>2 DEF Total
<1>6. Position' = 0
  <2>1. CASE columns' = Total /\ rows_left' = 1
    BY <1>2, <1>4, <2>1 DEF Position
  <2>2. CASE columns' = shape.width /\ rows_left' = shape.height
    <3>1. Len(image) = shape.width * shape.height
      BY <1>4 DEF Total
    <3>2. (shape.height - 1) * shape.width = shape.width * shape.height - shape.width
      BY <1>2
    <3> QED
      BY <1>2, <2>2, <3>1, <3>2 DEF Position
  <2> QED
    BY <1>3, <2>1, <2>2
<1>7. columns' \in Nat /\ rows_left' \in Nat \ {0} /\ elements' \in 0..columns'
  BY <1>2, <1>3, <1>4
<1>8. CursorOK'
  BY <1>1, <1>2, <1>4, <1>5, <1>6, <1>7 DEF CursorOK
<1>9. \A which \in Which : SearchOK(which, best[which])'
  BY <1>2, SearchKept
<1> QED
  BY <1>1, <1>2, <1>8, <1>9 DEF LocationInv

\* A block fits the row, and its vectors can be numbered.
LEMMA BlockFits ==
  ASSUME CursorOK
  PROVE  /\ BlockVectors \in 0..max_vectors_per_block
         /\ BlockVectors * num_lanes <= elements
<1> DEFINE factor == IF elements >= 2 * num_lanes THEN 2 ELSE 1
           blocks == elements \div (factor * num_lanes)
           limit == (max_vectors_per_block \div factor) * factor
<1>1. /\ num_lanes \in Nat \ {0} /\ max_vectors_per_block \in Nat
      /\ elements \in Nat /\ factor \in {1, 2}
  BY MinMaxLocAssumption DEF CursorOK, max_vectors_per_block
<1>2. factor * num_lanes \in Nat \ {0}
  BY <1>1
<1>3. BlockVectors = IF limit < blocks * factor THEN limit ELSE blocks * factor
  BY DEF BlockVectors
<1> HIDE DEF factor
<1>4. blocks \in Nat /\ blocks * (factor * num_lanes) <= elements
  <2>1. PICK B \in Nat \ {0} : B = factor * num_lanes
    BY <1>2
  <2>2. elements \div B \in Nat /\ elements % B \in 0..B - 1
        /\ elements = (elements \div B) * B + (elements % B)
    BY <1>1, DivMod
  <2>3. blocks = elements \div B
    BY <2>1
  <2>4. (elements \div B) * B \in Nat
    BY <2>2
  <2>5. blocks \in Nat /\ blocks * B <= elements
    BY <1>1, <2>2, <2>3, <2>4
  <2> QED
    BY <2>1, <2>5
<1>5. limit \in 0..max_vectors_per_block
  <2>1. CASE factor = 1
    BY <1>1, <2>1
  <2>2. CASE factor = 2
    BY <1>1, <2>2
  <2> QED
    BY <1>1, <2>1, <2>2
<1> HIDE DEF blocks, limit
<1>6. BlockVectors \in Nat /\ BlockVectors <= limit /\ BlockVectors <= blocks * factor
  <2>1. blocks * factor \in Nat
    BY <1>1, <1>4
  <2> QED
    BY <1>1, <1>3, <1>5, <2>1
<1>7. BlockVectors * num_lanes <= blocks * (factor * num_lanes)
  <2>1. PICK d \in Nat : blocks * factor = BlockVectors + d
    <3>1. blocks * factor - BlockVectors \in Nat
      BY <1>1, <1>4, <1>6
    <3>2. blocks * factor = BlockVectors + (blocks * factor - BlockVectors)
      BY <1>1, <1>4, <1>6
    <3> QED
      BY <3>1, <3>2
  <2>2. blocks * (factor * num_lanes) = (blocks * factor) * num_lanes
    BY <1>1, <1>4
  <2>3. (BlockVectors + d) * num_lanes = BlockVectors * num_lanes + d * num_lanes
    BY <1>1, <1>6
  <2>4. d * num_lanes \in Nat /\ BlockVectors * num_lanes \in Nat
    BY <1>1, <1>6
  <2> QED
    BY <2>1, <2>2, <2>3, <2>4
<1>8. BlockVectors * num_lanes \in Nat /\ blocks * (factor * num_lanes) \in Nat
  BY <1>1, <1>2, <1>4, <1>6
<1> QED
  BY <1>1, <1>4, <1>5, <1>6, <1>7, <1>8

LEMMA StartBlockStep == LocationInv /\ StartBlock => LocationInv'
<1> SUFFICES ASSUME LocationInv, StartBlock PROVE LocationInv'
  OBVIOUS
<1>1. CursorOK /\ best \in [Which -> BestType]
  BY DEF LocationInv
<1>2. /\ at = "row" /\ at' = "block" /\ vectors_in_block' = BlockVectors /\ vectors' = 0
      /\ UNCHANGED <<shape, image, columns, rows_left, elements, vrunning_offset_,
                     running_index_, best>>
  BY DEF StartBlock
<1>3. Total' = Total /\ Position' = Position
  BY <1>2 DEF Total, Position
<1>4. /\ BlockVectors \in 0..max_vectors_per_block
      /\ BlockVectors * num_lanes <= elements
      /\ max_vectors_per_block \in Nat /\ num_lanes \in Nat
  BY <1>1, BlockFits, MinMaxLocAssumption DEF max_vectors_per_block
<1>5. (vectors_in_block' - vectors') * num_lanes <= elements' /\ vectors' * num_lanes = 0
  BY <1>2, <1>4
<1>6. Position = running_index_ /\ running_index_ \in 0..Total /\ Total \in Nat
  BY <1>1, <1>2 DEF CursorOK, Total
<1>7. Position' = running_index_' + vectors' * num_lanes
  BY <1>2, <1>3, <1>5, <1>6
<1>8. /\ shape' \in [width : Nat, height : Nat, stride : Nat]
      /\ image' \in [1..Total' -> 0..ScalarMax]
      /\ columns' \in Nat /\ rows_left' \in Nat /\ elements' \in 0..columns'
      /\ running_index_' \in 0..Total' /\ rows_left' > 0 /\ Total' > 0
      /\ vrunning_offset_' = 1
  BY <1>1, <1>2, <1>3 DEF CursorOK
<1>9. CursorOK'
  BY <1>2, <1>4, <1>5, <1>7, <1>8 DEF CursorOK, max_vectors_per_block
<1>10. \A which \in Which : SearchOK(which, best[which])'
  BY <1>2, SearchKept
<1> QED
  BY <1>1, <1>2, <1>9, <1>10 DEF LocationInv

LEMMA NextRowStep == LocationInv /\ NextRow => LocationInv'
<1> SUFFICES ASSUME LocationInv, NextRow PROVE LocationInv'
  OBVIOUS
<1>1. CursorOK /\ best \in [Which -> BestType]
  BY DEF LocationInv
<1>2. /\ at = "row" /\ elements = 0 /\ rows_left' = rows_left - 1
      /\ elements' = IF rows_left > 1 THEN columns ELSE 0
      /\ at' = IF rows_left > 1 THEN "row" ELSE "returned"
      /\ UNCHANGED <<shape, image, columns, vectors_in_block, vectors,
                     vrunning_offset_, running_index_, best>>
  BY DEF NextRow
<1>3. Total' = Total
  BY <1>2 DEF Total
<1>4. /\ shape \in [width : Nat, height : Nat, stride : Nat]
      /\ image \in [1..Total -> 0..ScalarMax]
      /\ columns \in Nat /\ rows_left \in Nat \ {0}
      /\ running_index_ = Position /\ Total > 0
      /\ vrunning_offset_ = 1
  BY <1>1, <1>2 DEF CursorOK
<1>5. Total \in Nat /\ Len(image) = Total
  <2>1. Total \in Nat
    BY <1>4 DEF Total
  <2> QED
    BY <1>4, <2>1
<1>6. CASE rows_left > 1
  <2>1. (rows_left - 1) * columns = ((rows_left - 1) - 1) * columns + columns
    BY <1>4
  <2>2. ((rows_left - 1) - 1) * columns \in Int /\ (rows_left - 1) * columns \in Int
    BY <1>4
  <2>3. Position' = Position
    BY <1>2, <1>4, <1>5, <1>6, <2>1, <2>2 DEF Position
  <2> QED
    BY <1>1, <1>2, <1>3, <1>4, <1>6, <2>3, SearchKept DEF CursorOK, LocationInv
<1>7. CASE ~(rows_left > 1)
  <2>1. rows_left = 1
    BY <1>4, <1>7
  <2>2. Position = Total
    BY <1>2, <1>4, <1>5, <2>1 DEF Position
  <2> QED
    BY <1>1, <1>2, <1>3, <1>4, <2>1, <2>2, SearchKept DEF CursorOK, LocationInv
<1> QED
  BY <1>6, <1>7

LEMMA IdleStep == LocationInv /\ (Refuse \/ UNCHANGED locationVars) => LocationInv'
<1>1. LocationInv /\ Refuse => LocationInv'
  <2> SUFFICES ASSUME LocationInv, Refuse PROVE LocationInv'
    OBVIOUS
  <2>1. Total' = Total /\ Position' = Position
    BY DEF Refuse, Total, Position
  <2>2. CursorOK'
    BY <2>1 DEF LocationInv, CursorOK, Refuse
  <2>3. \A which \in Which : SearchOK(which, best[which])'
    BY SearchKept DEF Refuse
  <2> QED
    BY <2>2, <2>3 DEF LocationInv, Refuse
<1>2. LocationInv /\ UNCHANGED locationVars => LocationInv'
  BY DEF LocationInv, locationVars, CursorOK, Total, Position, SearchOK, VectorsOK,
         ScalarOK, BlockOK, Covered, CoveredByVectors, CoveredByScalars, Element
<1> QED
  BY <1>1, <1>2
-----------------------------------------------------------------------------
\* Elements have values of the element type.
LEMMA ElementType ==
  ASSUME CursorOK, NEW n \in 0..Total - 1
  PROVE  Element(n) \in 0..ScalarMax
<1>1. Total \in Nat /\ image \in [1..Total -> 0..ScalarMax]
  BY DEF CursorOK, Total
<1> QED
  BY <1>1 DEF Element

\* The elements that are left lie in the image.
LEMMA ElementsLeft ==
  ASSUME CursorOK, at \in {"row", "block"}
  PROVE  /\ Total \in Nat /\ Len(image) = Total
         /\ Position \in Nat /\ Position + elements <= Total
         /\ (rows_left - 1) * columns \in Nat
         /\ Position = Total - (rows_left - 1) * columns - elements
<1>1. /\ image \in [1..Total -> 0..ScalarMax] /\ Total \in Nat
      /\ columns \in Nat /\ rows_left \in Nat \ {0} /\ elements \in Nat
      /\ running_index_ \in Nat
  BY DEF CursorOK, Total
<1>2. Len(image) = Total /\ rows_left - 1 \in Nat
  BY <1>1
<1>3. (rows_left - 1) * columns \in Nat
  BY <1>1, <1>2
<1>4. Position = Total - (rows_left - 1) * columns - elements
  BY <1>2 DEF Position
<1>5. Position >= 0
  <2>1. CASE at = "row"
    BY <1>1, <2>1 DEF CursorOK
  <2>2. CASE at = "block"
    <3>1. vectors \in Nat /\ num_lanes \in Nat
      BY MinMaxLocAssumption DEF CursorOK, max_vectors_per_block
    <3>2. vectors * num_lanes \in Nat
      BY <3>1
    <3> QED
      BY <1>1, <2>2, <3>2 DEF CursorOK
  <2> QED
    BY <2>1, <2>2
<1> QED
  BY <1>1, <1>2, <1>3, <1>4, <1>5

\* The next vector of a block: it is in the row, and its number is the running
\* offset.
LEMMA NextVector ==
  ASSUME CursorOK, at = "block", vectors < vectors_in_block
  PROVE  /\ num_lanes \in Nat \ {0} /\ vectors + 1 \in 1..max_vectors_per_block
         /\ elements - num_lanes \in Nat
         /\ \A l \in Lanes : Position + l = Met(running_index_, vectors + 1, l)
         /\ \A l \in Lanes : \A k \in 1..vectors + 1 :
              Met(running_index_, k, l) \in 0..Total - 1
<1>1. /\ num_lanes \in Nat \ {0} /\ max_vectors_per_block \in Nat
      /\ vectors_in_block \in 0..max_vectors_per_block /\ vectors \in 0..vectors_in_block
      /\ running_index_ \in Nat /\ elements \in Nat
      /\ Position = running_index_ + vectors * num_lanes
      /\ (vectors_in_block - vectors) * num_lanes <= elements
  BY MinMaxLocAssumption DEF CursorOK, max_vectors_per_block
<1>2. vectors + 1 \in 1..max_vectors_per_block /\ vectors \in Nat
  BY <1>1
<1>3. num_lanes <= elements
  <2>1. 0 * num_lanes + num_lanes <= (vectors_in_block - vectors) * num_lanes
    BY <1>1, Multiples
  <2>2. (vectors_in_block - vectors) * num_lanes \in Int
    BY <1>1
  <2> QED
    BY <1>1, <2>1, <2>2
<1>4. ASSUME NEW l \in Lanes PROVE Position + l = Met(running_index_, vectors + 1, l)
  <2>1. l \in Int
    BY DEF Lanes
  <2> QED
    BY <1>1, <1>2, <2>1 DEF Met
<1>5. ASSUME NEW l \in Lanes, NEW k \in 1..vectors + 1
      PROVE  Met(running_index_, k, l) \in 0..Total - 1
  <2>1. l \in 0..num_lanes - 1 /\ k - 1 \in Nat /\ k - 1 < vectors + 1
    BY <1>2 DEF Lanes
  <2>2. (k - 1) * num_lanes + num_lanes <= (vectors + 1) * num_lanes
    BY <1>1, <1>2, <2>1, Multiples
  <2>3. (vectors + 1) * num_lanes = vectors * num_lanes + num_lanes
    BY <1>1, <1>2
  <2>4. vectors * num_lanes \in Nat /\ (k - 1) * num_lanes \in Nat
    BY <1>1, <1>2, <2>1
  <2>5. Total \in Nat /\ Position + elements <= Total
    BY ElementsLeft
  <2> QED
    BY <1>1, <1>3, <2>1, <2>2, <2>3, <2>4, <2>5 DEF Met
<1> QED
  BY <1>1, <1>2, <1>3, <1>4, <1>5

\* A vector brings each lane one element, which it keeps if it is better.
LEMMA VectorStep == LocationInv /\ vector_path => LocationInv'
<1> SUFFICES ASSUME LocationInv, vector_path PROVE LocationInv'
  OBVIOUS
<1>1. CursorOK /\ best \in [Which -> BestType]
  BY DEF LocationInv
<1>2. /\ at = "block" /\ vectors < vectors_in_block
      /\ vrunning_offset_' = (vrunning_offset_ + 1) % (ScalarMax + 1)
      /\ vectors' = vectors + 1 /\ elements' = elements - num_lanes
      /\ UNCHANGED <<shape, image, columns, rows_left, vectors_in_block,
                     running_index_, at>>
  BY DEF vector_path
<1>3. /\ num_lanes \in Nat \ {0} /\ vectors + 1 \in 1..max_vectors_per_block
      /\ elements - num_lanes \in Nat
      /\ \A l \in Lanes : Position + l = Met(running_index_, vectors + 1, l)
      /\ \A l \in Lanes : \A k \in 1..vectors + 1 :
           Met(running_index_, k, l) \in 0..Total - 1
  BY <1>1, <1>2, NextVector
<1>4. /\ vrunning_offset_ = vectors + 1 /\ vectors \in Nat
      /\ vectors_in_block \in 0..max_vectors_per_block
      /\ ScalarMax \in Nat /\ max_vectors_per_block = ScalarMax - 1
  BY <1>1, <1>2, MinMaxLocAssumption DEF CursorOK, max_vectors_per_block
<1>5. CursorOK'
  <2>1. Total' = Total
    BY <1>2 DEF Total
  <2>2. vrunning_offset_' = vectors' + 1
    BY <1>2, <1>3, <1>4
  <2>3. /\ Total \in Nat /\ Len(image) = Total /\ Position \in Nat
        /\ (rows_left - 1) * columns \in Nat
        /\ Position = Total - (rows_left - 1) * columns - elements
    BY <1>1, <1>2, ElementsLeft
  <2>4. Position' = Total - (rows_left - 1) * columns - elements'
    BY <1>2, <2>3 DEF Position
  <2>5. /\ Position = running_index_ + vectors * num_lanes /\ running_index_ \in Nat
        /\ (vectors_in_block - vectors) * num_lanes <= elements
        /\ elements \in 0..columns /\ columns \in Nat
    BY <1>1, <1>2 DEF CursorOK
  <2>6. vectors' * num_lanes = vectors * num_lanes + num_lanes /\ vectors * num_lanes \in Nat
    BY <1>2, <1>3, <1>4
  <2>7. Position' = running_index_ + vectors' * num_lanes
    <3>1. PICK R \in Nat : R = (rows_left - 1) * columns
      BY <2>3
    <3>2. PICK V \in Nat : V = vectors * num_lanes
      BY <2>6
    <3>3. Position = Total - R - elements /\ Position' = Total - R - elements'
      BY <2>3, <2>4, <3>1
    <3>4. Position = running_index_ + V /\ vectors' * num_lanes = V + num_lanes
      BY <2>5, <2>6, <3>2
    <3>5. /\ Total \in Nat /\ elements \in Int /\ num_lanes \in Nat
          /\ running_index_ \in Nat /\ elements' = elements - num_lanes
      BY <1>2, <1>3, <2>3, <2>5
    <3>6. Total - R - (elements - num_lanes) = (Total - R - elements) + num_lanes
      BY <3>1, <3>5
    <3>7. Position' = (running_index_ + V) + num_lanes
      BY <3>3, <3>4, <3>5, <3>6
    <3> QED
      BY <3>2, <3>4, <3>5, <3>7
  <2>8. /\ (vectors_in_block - vectors') * num_lanes
             = (vectors_in_block - vectors) * num_lanes - num_lanes
        /\ (vectors_in_block - vectors) * num_lanes \in Int
    BY <1>2, <1>3, <1>4
  <2>9. (vectors_in_block - vectors') * num_lanes <= elements'
    BY <1>2, <1>3, <2>5, <2>8
  <2>10. elements' \in 0..columns' /\ vectors' \in 0..vectors_in_block'
    BY <1>2, <1>3, <1>4, <2>5
  <2> QED
    BY <1>1, <1>2, <1>4, <2>1, <2>2, <2>7, <2>9, <2>10 DEF CursorOK
<1>6. ASSUME NEW which \in Which
      PROVE  best'[which] \in BestType /\ SearchOK(which, best[which])'
  <2> DEFINE b == best[which]
             pixel(l) == image[Position + l + 1]
  <2>1. /\ b \in BestType
        /\ VectorsOK(which, b) /\ ScalarOK(which, b) /\ BlockOK(which, b)
        /\ Covered(which, b)
    BY <1>1 DEF LocationInv, SearchOK
  <2>2. PICK c : c = best'[which]
    OBVIOUS
  <2>3. c = [b EXCEPT
               !.offsets_new = [l \in Lanes |-> IF Better(which, pixel(l), b.new[l])
                                                  THEN vrunning_offset_ ELSE @[l]],
               !.new = [l \in Lanes |-> IF Better(which, pixel(l), @[l])
                                          THEN pixel(l) ELSE @[l]]]
    BY <2>2 DEF vector_path
  <2>4. ASSUME NEW l \in Lanes
        PROVE  /\ pixel(l) = Element(Met(running_index_, vectors + 1, l))
               /\ pixel(l) \in 0..ScalarMax
    <3>1. pixel(l) = Element(Met(running_index_, vectors + 1, l))
      BY <1>3, <2>4 DEF Element
    <3>2. Met(running_index_, vectors + 1, l) \in 0..Total - 1
      BY <1>3, <1>4, <2>4
    <3> QED
      BY <1>1, <3>1, <3>2, ElementType
  <2> HIDE DEF pixel
  <2> DEFINE off == [l \in Lanes |-> IF Better(which, pixel(l), b.new[l])
                                       THEN vrunning_offset_ ELSE b.offsets_new[l]]
             val == [l \in Lanes |-> IF Better(which, pixel(l), b.new[l])
                                       THEN pixel(l) ELSE b.new[l]]
  <2>5. /\ off \in [Lanes -> 0..max_vectors_per_block]
        /\ val \in [Lanes -> 0..ScalarMax]
    <3>1. /\ b.new \in [Lanes -> 0..ScalarMax]
          /\ b.offsets_new \in [Lanes -> 0..max_vectors_per_block]
      BY <2>1 DEF BestType
    <3>2. vrunning_offset_ \in 0..max_vectors_per_block
      BY <1>3, <1>4
    <3> QED
      BY <2>4, <3>1, <3>2
  <2>6. /\ c \in BestType
        /\ c.vector = b.vector /\ c.v = b.v /\ c.offsets = b.offsets
        /\ c.block_index = b.block_index
        /\ c.scalar = b.scalar /\ c.scalar_index = b.scalar_index
        /\ \A l \in Lanes :
             /\ c.offsets_new[l] = IF Better(which, pixel(l), b.new[l])
                                     THEN vectors + 1 ELSE b.offsets_new[l]
             /\ c.new[l] = IF Better(which, pixel(l), b.new[l])
                             THEN pixel(l) ELSE b.new[l]
    <3>1. c = [b EXCEPT !.offsets_new = off, !.new = val]
      BY <2>3
    <3>2. /\ c \in BestType
          /\ c.vector = b.vector /\ c.v = b.v /\ c.offsets = b.offsets
          /\ c.block_index = b.block_index
          /\ c.scalar = b.scalar /\ c.scalar_index = b.scalar_index
          /\ c.offsets_new = off /\ c.new = val
      <4>1. b \in BestType
        BY <2>1
      <4> HIDE DEF off, val, b
      <4> QED
        BY <2>5, <3>1, <4>1 DEF BestType
    <3> QED
      BY <1>4, <3>2
  <2> HIDE DEF off, val
  <2>7. /\ \A n : Element(n)' = Element(n)
        /\ b' = c /\ running_index_' = running_index_
    BY <1>2, <2>2 DEF Element
  <2>8. VectorsOK(which, b)'
    BY <2>1, <2>6, <2>7 DEF VectorsOK
  <2>9. ScalarOK(which, b)'
    BY <2>1, <2>6, <2>7 DEF ScalarOK
  <2>10. Covered(which, b)'
    BY <2>1, <2>6, <2>7 DEF Covered, CoveredByVectors, CoveredByScalars
  <2>11. ASSUME NEW l \in Lanes
         PROVE  /\ c.offsets_new[l] = 0 => c.new[l] = c.vector
                /\ c.offsets_new[l] # 0 =>
                     /\ c.offsets_new[l] <= vectors + 1
                     /\ Better(which, c.new[l], c.vector)
                     /\ Element(Met(running_index_, c.offsets_new[l], l)) = c.new[l]
                /\ \A k \in 1..vectors + 1 :
                     /\ ~Better(which, Element(Met(running_index_, k, l)), c.new[l])
                     /\ Element(Met(running_index_, k, l)) = c.new[l]
                          => c.offsets_new[l] <= k
    <3> DEFINE x(k) == Element(Met(running_index_, k, l))
    <3>1. /\ b.new[l] \in 0..ScalarMax /\ b.offsets_new[l] \in Nat
          /\ b.vector \in 0..ScalarMax /\ pixel(l) \in 0..ScalarMax
      <4> HIDE DEF b
      <4> QED
        BY <2>1, <2>4, LaneTypes
    <3>2. /\ b.offsets_new[l] = 0 => b.new[l] = b.vector
          /\ b.offsets_new[l] # 0 =>
               /\ b.offsets_new[l] <= vectors
               /\ Better(which, b.new[l], b.vector)
               /\ x(b.offsets_new[l]) = b.new[l]
          /\ \A k \in 1..vectors :
               /\ ~Better(which, x(k), b.new[l])
               /\ x(k) = b.new[l] => b.offsets_new[l] <= k
      BY <1>2, <2>1 DEF BlockOK
    <3>3. x(vectors + 1) = pixel(l)
      BY <2>4
    <3>4. \A k \in 1..vectors + 1 : x(k) \in 0..ScalarMax
      BY <1>1, <1>3, ElementType
    <3> HIDE DEF x
    <3>5. CASE Better(which, pixel(l), b.new[l])
      <4>1. c.offsets_new[l] = vectors + 1 /\ c.new[l] = pixel(l) /\ c.vector = b.vector
        BY <2>6, <3>5
      <4>2. Better(which, pixel(l), b.vector)
        BY <3>1, <3>2, <3>5 DEF Better, Which
      <4>3. ASSUME NEW k \in 1..vectors
            PROVE  ~Better(which, x(k), pixel(l)) /\ x(k) # pixel(l)
        <5>1. x(k) \in 0..ScalarMax /\ ~Better(which, x(k), b.new[l])
          BY <1>4, <3>2, <3>4
        <5> QED
          BY <3>1, <3>5, <5>1 DEF Better, Which
      <4>4. ASSUME NEW k \in 1..vectors + 1
            PROVE  ~Better(which, x(k), pixel(l)) /\ (x(k) = pixel(l) => vectors + 1 <= k)
        <5>1. k = vectors + 1 \/ k \in 1..vectors
          BY <1>4
        <5> QED
          BY <1>4, <3>1, <3>3, <4>3, <5>1, ValueOrder
      <4> QED
        BY <1>4, <3>3, <4>1, <4>2, <4>4 DEF x
    <3>6. CASE ~Better(which, pixel(l), b.new[l])
      <4>1. c.offsets_new[l] = b.offsets_new[l] /\ c.new[l] = b.new[l] /\ c.vector = b.vector
        BY <2>6, <3>6
      <4>2. b.offsets_new[l] <= vectors + 1
        BY <1>4, <3>1, <3>2
      <4>3. ASSUME NEW k \in 1..vectors + 1
            PROVE  ~Better(which, x(k), b.new[l]) /\ (x(k) = b.new[l] => b.offsets_new[l] <= k)
        <5>1. k = vectors + 1 \/ k \in 1..vectors
          BY <1>4
        <5> QED
          BY <1>4, <3>1, <3>2, <3>3, <3>6, <4>2, <5>1
      <4> QED
        BY <1>4, <3>2, <4>1, <4>2, <4>3 DEF x
    <3> QED
      BY <3>5, <3>6
  <2>12. BlockOK(which, b)'
    BY <1>2, <2>7, <2>11 DEF BlockOK
  <2> QED
    BY <2>2, <2>6, <2>8, <2>9, <2>10, <2>12 DEF SearchOK
<1>7. best' \in [Which -> BestType]
  <2>1. best' = [which \in Which |-> best'[which]]
    BY DEF vector_path
  <2> QED
    BY <1>6, <2>1
<1> QED
  BY <1>5, <1>6, <1>7 DEF LocationInv

\* The elements of the vectors of a block that are done.
LEMMA BlockElements ==
  ASSUME NEW begin \in Nat, NEW count \in Nat, NEW end \in Nat,
         end = begin + count * num_lanes
  PROVE  /\ \A n \in begin..end - 1 :
              \E k \in 1..count, l \in Lanes : n = Met(begin, k, l)
         /\ \A k \in 1..count, l \in Lanes :
              Met(begin, k, l) \in begin..end - 1
         /\ \A j \in Nat, k \in Nat, l \in Lanes :
              j <= k => Met(begin, j, l) <= Met(begin, k, l)
<1>1. num_lanes \in Nat \ {0} /\ Lanes = 0..num_lanes - 1
  BY MinMaxLocAssumption DEF Lanes
<1>2. count * num_lanes \in Nat
  BY <1>1
<1>3. ASSUME NEW n \in begin..end - 1
      PROVE  \E k \in 1..count, l \in Lanes : n = Met(begin, k, l)
  <2>1. PICK m \in Nat : n = begin + m /\ m < count * num_lanes
    <3>1. n - begin \in Nat /\ n = begin + (n - begin) /\ n - begin < count * num_lanes
      BY <1>2
    <3> QED
      BY <3>1
  <2>2. PICK q \in Nat, l \in 0..num_lanes - 1 : m = q * num_lanes + l
    <3>1. /\ m \div num_lanes \in Nat /\ m % num_lanes \in 0..num_lanes - 1
          /\ m = (m \div num_lanes) * num_lanes + (m % num_lanes)
      BY <1>1, <2>1, DivMod
    <3> QED
      BY <3>1
  <2>3. q < count
    <3>1. SUFFICES ASSUME count <= q PROVE FALSE
      BY <2>2
    <3>2. count * num_lanes <= q * num_lanes
      <4>1. CASE count = q
        BY <1>2, <4>1
      <4>2. CASE count < q
        <5>1. count * num_lanes + num_lanes <= q * num_lanes
          BY <1>1, <2>2, <4>2, Multiples
        <5>2. q * num_lanes \in Nat
          BY <1>1, <2>2
        <5> QED
          BY <1>1, <1>2, <5>1, <5>2
      <4> QED
        BY <2>2, <3>1, <4>1, <4>2
    <3>3. q * num_lanes \in Nat
      BY <1>1, <2>2
    <3> QED
      BY <1>1, <1>2, <2>1, <2>2, <3>2, <3>3
  <2>4. q + 1 \in 1..count /\ (q + 1) - 1 = q
    BY <2>2, <2>3
  <2>5. n = Met(begin, q + 1, l)
    <3>1. q * num_lanes \in Nat
      BY <1>1, <2>2
    <3> QED
      BY <1>1, <2>1, <2>2, <2>4, <3>1 DEF Met
  <2> QED
    BY <1>1, <2>2, <2>4, <2>5
<1>4. ASSUME NEW k \in 1..count, NEW l \in Lanes
      PROVE  Met(begin, k, l) \in begin..end - 1
  <2>1. l \in 0..num_lanes - 1 /\ k - 1 \in Nat /\ k - 1 < count
    BY <1>1
  <2>2. (k - 1) * num_lanes + num_lanes <= count * num_lanes
    BY <1>1, <2>1, Multiples
  <2>3. (k - 1) * num_lanes \in Nat
    BY <1>1, <2>1
  <2> QED
    BY <1>1, <1>2, <2>1, <2>2, <2>3 DEF Met
<1>5. ASSUME NEW j \in Nat, NEW k \in Nat, NEW l \in Lanes, j <= k
      PROVE  Met(begin, j, l) <= Met(begin, k, l)
  <2>1. CASE j = k
    <3>1. Met(begin, j, l) \in Int
      <4>1. (j - 1) * num_lanes \in Int /\ l \in Int
        BY <1>1
      <4> QED
        BY <4>1 DEF Met
    <3> QED
      BY <2>1, <3>1
  <2>2. CASE j < k
    <3>1. (j - 1) * num_lanes + num_lanes <= (k - 1) * num_lanes
      BY <1>1, <2>2, Multiples
    <3>2. (j - 1) * num_lanes \in Int /\ (k - 1) * num_lanes \in Int
      BY <1>1
    <3> QED
      BY <1>1, <3>1, <3>2 DEF Met
  <2> QED
    BY <1>5, <2>1, <2>2
<1> QED
  BY <1>3, <1>4, <1>5

\* What Merge makes of the lanes.
LEMMA MergeIs ==
  ASSUME NEW which \in Which, NEW b \in BestType, running_index_ \in Nat
  PROVE  LET c == Merge(which, b)
         IN  /\ c \in BestType
             /\ c.vector = Across(which, b.new)
             /\ c.block_index = IF \E l \in Lanes : b.offsets_new[l] # 0
                                  THEN running_index_ ELSE b.block_index
             /\ c.scalar = b.scalar /\ c.scalar_index = b.scalar_index
             /\ \A l \in Lanes :
                  /\ c.offsets[l] = IF b.offsets_new[l] # 0 THEN b.offsets_new[l]
                                    ELSE b.offsets[l]
                  /\ c.v[l] = IF b.offsets_new[l] # 0 THEN b.new[l] ELSE b.v[l]
                  /\ c.new[l] = c.vector /\ c.offsets_new[l] = 0
<1> DEFINE U == {l \in Lanes : b.offsets_new[l] # 0}
           m == Across(which, b.new)
           c == Merge(which, b)
           off == [l \in Lanes |-> IF l \in U THEN b.offsets_new[l] ELSE b.offsets[l]]
           val == [l \in Lanes |-> IF l \in U THEN b.new[l] ELSE b.v[l]]
<1>1. /\ b.new \in [Lanes -> 0..ScalarMax] /\ b.v \in [Lanes -> 0..ScalarMax]
      /\ b.offsets_new \in [Lanes -> 0..max_vectors_per_block]
      /\ b.offsets \in [Lanes -> 0..max_vectors_per_block]
      /\ b.block_index \in Nat
  BY DEF BestType
<1>2. m \in 0..ScalarMax
  BY <1>1, AcrossBest
<1>3. /\ off \in [Lanes -> 0..max_vectors_per_block]
      /\ val \in [Lanes -> 0..ScalarMax]
      /\ AllLanes(m) \in [Lanes -> 0..ScalarMax]
      /\ AllLanes(0) \in [Lanes -> 0..max_vectors_per_block]
  <2>1. 0 \in 0..max_vectors_per_block
    BY MinMaxLocAssumption DEF max_vectors_per_block
  <2> QED
    BY <1>1, <1>2, <2>1 DEF AllLanes
<1>4. c = [b EXCEPT !.vector = m,
                    !.block_index = IF U # {} THEN running_index_ ELSE @,
                    !.offsets = off, !.v = val, !.new = AllLanes(m),
                    !.offsets_new = AllLanes(0)]
  BY DEF Merge
<1>5. U # {} <=> \E l \in Lanes : b.offsets_new[l] # 0
  OBVIOUS
<1> HIDE DEF m, U, c
<1>6. /\ c \in BestType
      /\ c.vector = m
      /\ c.block_index = IF U # {} THEN running_index_ ELSE b.block_index
      /\ c.scalar = b.scalar /\ c.scalar_index = b.scalar_index
      /\ c.offsets = off /\ c.v = val /\ c.new = AllLanes(m) /\ c.offsets_new = AllLanes(0)
  <2> HIDE DEF off, val
  <2> QED
    BY <1>2, <1>3, <1>4 DEF BestType
<1>7. ASSUME NEW l \in Lanes
      PROVE  /\ c.offsets[l] = IF b.offsets_new[l] # 0 THEN b.offsets_new[l]
                               ELSE b.offsets[l]
             /\ c.v[l] = IF b.offsets_new[l] # 0 THEN b.new[l] ELSE b.v[l]
             /\ c.new[l] = c.vector /\ c.offsets_new[l] = 0
  BY <1>6 DEF U, AllLanes
<1> QED
  BY <1>5, <1>6, <1>7 DEF m, c

\* The end of a block: its lanes replace those they improve on, and together
\* they are better than all that were not improved.
LEMMA BlockStep == LocationInv /\ on_block_finished => LocationInv'
<1> SUFFICES ASSUME LocationInv, on_block_finished PROVE LocationInv'
  OBVIOUS
<1>1. CursorOK /\ best \in [Which -> BestType]
  BY DEF LocationInv
<1>2. /\ at = "block" /\ vectors = vectors_in_block
      /\ running_index_' = running_index_ + vectors * num_lanes
      /\ vrunning_offset_' = 1 /\ at' = "row"
      /\ UNCHANGED <<shape, image, columns, rows_left, elements, vectors_in_block,
                     vectors>>
  BY DEF on_block_finished
<1>3. /\ num_lanes \in Nat \ {0} /\ vectors \in Nat /\ running_index_ \in Nat
      /\ vectors * num_lanes \in Nat
      /\ Position = running_index_ + vectors * num_lanes
  <2>1. /\ num_lanes \in Nat \ {0} /\ vectors \in Nat /\ running_index_ \in Nat
        /\ Position = running_index_ + vectors * num_lanes
    BY <1>1, <1>2, MinMaxLocAssumption DEF CursorOK, max_vectors_per_block
  <2> QED
    BY <2>1
<1>4. /\ running_index_' \in 0..Total /\ Total \in Nat
      /\ running_index_' >= running_index_
  <2>1. Total \in Nat /\ Position \in Nat /\ Position + elements <= Total /\ elements \in Nat
    BY <1>1, <1>2, ElementsLeft DEF CursorOK
  <2>2. running_index_' = Position
    BY <1>2, <1>3
  <2>3. Position <= Total /\ Position >= running_index_
    BY <1>3, <2>1
  <2> QED
    BY <1>3, <2>1, <2>2, <2>3
<1>5. CursorOK'
  <2>1. Total' = Total /\ Position' = Position
    BY <1>2 DEF Total, Position
  <2>2. Position' = running_index_'
    BY <1>2, <1>3, <2>1
  <2> QED
    BY <1>1, <1>2, <1>4, <2>1, <2>2 DEF CursorOK
<1>6. PICK last \in Nat :
        last = running_index_' /\ last <= Total /\ running_index_ <= last
  BY <1>3, <1>4
<1>7. /\ last \in Nat /\ running_index_ \in Nat /\ Total \in Nat
      /\ running_index_ <= last /\ last <= Total
  BY <1>3, <1>4, <1>6
<1>8. ASSUME NEW which \in Which
      PROVE  best'[which] \in BestType /\ SearchOK(which, best[which])'
  <2> DEFINE b == best[which]
  <2>1. /\ b \in BestType
        /\ VectorsOK(which, b) /\ ScalarOK(which, b) /\ BlockOK(which, b)
        /\ Covered(which, b)
    BY <1>1 DEF LocationInv, SearchOK
  <2>2. PICK c : c = best'[which]
    OBVIOUS
  <2>3. c = Merge(which, b)
    BY <2>2 DEF on_block_finished
  <2>4. /\ c \in BestType
        /\ c.vector = Across(which, b.new)
        /\ c.block_index = IF \E l \in Lanes : b.offsets_new[l] # 0
                             THEN running_index_ ELSE b.block_index
        /\ c.scalar = b.scalar /\ c.scalar_index = b.scalar_index
        /\ \A l \in Lanes :
             /\ c.offsets[l] = IF b.offsets_new[l] # 0 THEN b.offsets_new[l]
                               ELSE b.offsets[l]
             /\ c.v[l] = IF b.offsets_new[l] # 0 THEN b.new[l] ELSE b.v[l]
             /\ c.new[l] = c.vector /\ c.offsets_new[l] = 0
    <3> HIDE DEF b
    <3> QED
      BY <1>3, <2>1, <2>3, MergeIs
  <2>5. /\ \A n : Element(n)' = Element(n)
        /\ b' = c
    BY <1>2, <2>2 DEF Element
  <2>6. /\ b.vector \in 0..ScalarMax /\ c.vector \in 0..ScalarMax
        /\ \A l \in Lanes : /\ b.new[l] \in 0..ScalarMax /\ b.v[l] \in 0..ScalarMax
                            /\ b.offsets_new[l] \in Nat /\ b.offsets[l] \in Nat
        /\ Neutral(which) \in 0..ScalarMax /\ b.block_index \in Nat
    <3>1. b.vector \in 0..ScalarMax /\ c.vector \in 0..ScalarMax /\ b.block_index \in Nat
      BY <2>1, <2>4 DEF BestType
    <3> HIDE DEF b
    <3> QED
      BY <2>1, <3>1, LaneTypes, ValueOrder
  <2>7. /\ \E l \in Lanes : c.vector = b.new[l]
        /\ \A l \in Lanes : ~Better(which, b.new[l], c.vector)
    <3>1. b.new \in [Lanes -> 0..ScalarMax]
      BY <2>1 DEF BestType
    <3> QED
      BY <2>4, <3>1, AcrossBest
  <2>8. ASSUME NEW l \in Lanes
        PROVE  /\ b.offsets_new[l] = 0 => b.new[l] = b.vector
               /\ b.offsets_new[l] # 0 =>
                    /\ b.offsets_new[l] \in 1..vectors
                    /\ Better(which, b.new[l], b.vector)
                    /\ Element(Met(running_index_, b.offsets_new[l], l)) = b.new[l]
               /\ \A k \in 1..vectors :
                    /\ ~Better(which, Element(Met(running_index_, k, l)), b.new[l])
                    /\ Element(Met(running_index_, k, l)) = b.new[l]
                         => b.offsets_new[l] <= k
    BY <1>2, <1>3, <2>1, <2>6 DEF BlockOK
  <2>9. /\ \A n \in running_index_..last - 1 :
             \E k \in 1..vectors, l \in Lanes : n = Met(running_index_, k, l)
        /\ \A k \in 1..vectors, l \in Lanes :
             Met(running_index_, k, l) \in running_index_..last - 1
        /\ \A j \in Nat, k \in Nat, l \in Lanes :
             j <= k => Met(running_index_, j, l) <= Met(running_index_, k, l)
    <3>1. last \in Nat /\ running_index_ \in Nat /\ vectors \in Nat
      BY <1>3, <1>7
    <3>2. last = running_index_ + vectors * num_lanes
      BY <1>2, <1>6
    <3> QED
      BY <3>1, <3>2, BlockElements
  <2>10. \A n \in 0..last - 1 : Element(n) \in 0..ScalarMax
    BY <1>1, <1>7, ElementType
  <2>11. ScalarOK(which, b)'
    <3>1. \A n \in 0..running_index_ - 1 : n \in 0..last - 1
      BY <1>7
    <3> HIDE DEF b
    <3> QED
      BY <1>6, <2>1, <2>4, <2>5, <3>1 DEF ScalarOK
  <2>12. BlockOK(which, b)'
    BY <1>2, <2>4, <2>5 DEF BlockOK
  <2> HIDE DEF b
  <2>13. CASE \A l \in Lanes : b.offsets_new[l] = 0
    <3>1. /\ c.vector = b.vector /\ c.block_index = b.block_index
          /\ \A l \in Lanes : c.offsets[l] = b.offsets[l] /\ c.v[l] = b.v[l]
      BY <2>4, <2>7, <2>8, <2>13
    <3>2. VectorsOK(which, b)'
      <4>1. \A n \in 0..running_index_ - 1 : n \in 0..last - 1
        BY <1>7
      <4> QED
        BY <1>6, <2>1, <2>5, <3>1, <4>1 DEF VectorsOK
    <3>3. ASSUME NEW n \in 0..last - 1
          PROVE  CoveredByVectors(which, b, n)' \/ CoveredByScalars(which, b, n)'
      <4>1. CASE n < running_index_
        <5>1. CoveredByVectors(which, b, n) \/ CoveredByScalars(which, b, n)
          BY <1>7, <2>1, <4>1 DEF Covered
        <5> QED
          BY <2>4, <2>5, <3>1, <5>1 DEF CoveredByVectors, CoveredByScalars
      <4>2. CASE ~(n < running_index_)
        <5>1. n \in running_index_..last - 1
          BY <1>7, <4>2
        <5>2. PICK k \in 1..vectors, l \in Lanes : n = Met(running_index_, k, l)
          BY <2>9, <5>1
        <5>3. ~Better(which, Element(n), b.vector)
          BY <2>8, <2>13, <5>2
        <5>4. ASSUME b.vector # Neutral(which)
              PROVE  \E i \in Lanes : b.v[i] = b.vector /\ Met(b.block_index, b.offsets[i], i) <= n
          <6>1. PICK i \in Lanes : b.v[i] = b.vector
            BY <2>1, <5>4 DEF VectorsOK
          <6>2. Met(b.block_index, b.offsets[i], i) \in 0..running_index_ - 1
            BY <2>1, <5>4, <6>1 DEF VectorsOK
          <6>3. Met(b.block_index, b.offsets[i], i) <= n
            BY <1>7, <5>1, <6>2
          <6> QED
            BY <6>1, <6>3
        <5> QED
          BY <2>5, <3>1, <5>3, <5>4 DEF CoveredByVectors
      <4> QED
        BY <4>1, <4>2
    <3>4. Covered(which, b)'
      BY <1>6, <3>3 DEF Covered
    <3> QED
      BY <2>2, <2>4, <2>5, <2>11, <2>12, <3>2, <3>4 DEF SearchOK, b
  <2>14. CASE ~ \A l \in Lanes : b.offsets_new[l] = 0
    <3>1. c.block_index = running_index_
      BY <2>4, <2>14
    <3>2. Better(which, c.vector, b.vector)
      <4>1. PICK u \in Lanes : b.offsets_new[u] # 0
        BY <2>14
      <4>2. Better(which, b.new[u], b.vector) /\ ~Better(which, b.new[u], c.vector)
        BY <2>7, <2>8, <4>1
      <4>3. b.new[u] \in 0..ScalarMax
        BY <2>6, <4>1
      <4> QED
        BY <2>6, <4>2, <4>3 DEF Better, Which
    <3>3. c.vector # Neutral(which)
      BY <2>6, <3>2, ValueOrder
    <3>4. ASSUME NEW l \in Lanes, c.v[l] = c.vector
          PROVE  /\ b.offsets_new[l] # 0 /\ b.new[l] = c.vector
                 /\ c.offsets[l] = b.offsets_new[l]
      <4>1. ~Better(which, b.v[l], b.vector)
        BY <2>1, <3>4 DEF VectorsOK
      <4>2. b.v[l] # c.vector
        BY <3>2, <4>1
      <4> QED
        BY <2>4, <3>4, <4>2
    <3>5. ASSUME NEW l \in Lanes, b.new[l] = c.vector
          PROVE  /\ b.offsets_new[l] # 0 /\ c.v[l] = c.vector
                 /\ c.offsets[l] = b.offsets_new[l]
      <4>1. b.new[l] # b.vector
        BY <2>6, <3>2, <3>5, ValueOrder
      <4> QED
        BY <2>4, <2>8, <3>5, <4>1
    <3>6. VectorsOK(which, b)'
      <4>1. ASSUME NEW l \in Lanes PROVE ~Better(which, c.v[l], c.vector)
        <5>1. CASE b.offsets_new[l] # 0
          BY <2>4, <2>7, <5>1
        <5>2. CASE b.offsets_new[l] = 0
          <6>1. c.v[l] = b.v[l] /\ ~Better(which, b.v[l], b.vector) /\ b.v[l] \in 0..ScalarMax
            BY <2>1, <2>4, <2>6, <5>2 DEF VectorsOK
          <6> QED
            BY <2>6, <3>2, <6>1 DEF Better, Which
        <5> QED
          BY <5>1, <5>2
      <4>2. \E l \in Lanes : c.v[l] = c.vector
        BY <2>7, <3>5
      <4>3. ASSUME NEW l \in Lanes, c.v[l] = c.vector
            PROVE  /\ c.offsets[l] > 0
                   /\ Met(c.block_index, c.offsets[l], l) \in 0..last - 1
                   /\ Element(Met(c.block_index, c.offsets[l], l)) = c.vector
        <5>1. /\ b.offsets_new[l] \in 1..vectors /\ c.offsets[l] = b.offsets_new[l]
              /\ Element(Met(running_index_, b.offsets_new[l], l)) = c.vector
          BY <2>8, <3>4, <4>3
        <5>2. Met(running_index_, b.offsets_new[l], l) \in running_index_..last - 1
          BY <2>9, <5>1
        <5> QED
          BY <1>7, <3>1, <5>1, <5>2
      <4> QED
        BY <1>6, <2>5, <3>3, <4>1, <4>2, <4>3 DEF VectorsOK
    <3>7. ASSUME NEW n \in 0..last - 1
          PROVE  CoveredByVectors(which, b, n)' \/ CoveredByScalars(which, b, n)'
      <4>0. Element(n) \in 0..ScalarMax
        BY <2>10
      <4>1. CASE n < running_index_
        <5>1. CoveredByVectors(which, b, n) \/ CoveredByScalars(which, b, n)
          BY <1>7, <2>1, <4>1 DEF Covered
        <5>2. CASE CoveredByVectors(which, b, n)
          <6>1. ~Better(which, Element(n), b.vector)
            BY <5>2 DEF CoveredByVectors
          <6>2. ~Better(which, Element(n), c.vector) /\ Element(n) # c.vector
            BY <2>6, <3>2, <4>0, <6>1 DEF Better, Which
          <6> QED
            BY <2>5, <6>2 DEF CoveredByVectors
        <5>3. CASE CoveredByScalars(which, b, n)
          BY <2>4, <2>5, <5>3 DEF CoveredByScalars
        <5> QED
          BY <5>1, <5>2, <5>3
      <4>2. CASE ~(n < running_index_)
        <5>1. n \in running_index_..last - 1
          BY <1>7, <4>2
        <5>2. PICK k \in 1..vectors, l \in Lanes : n = Met(running_index_, k, l)
          BY <2>9, <5>1
        <5>3. /\ ~Better(which, Element(n), b.new[l]) /\ ~Better(which, b.new[l], c.vector)
              /\ Element(n) = b.new[l] => b.offsets_new[l] <= k
              /\ b.new[l] \in 0..ScalarMax
          BY <2>6, <2>7, <2>8, <5>2
        <5>4. ~Better(which, Element(n), c.vector)
          BY <2>6, <4>0, <5>3 DEF Better, Which
        <5>5. ASSUME Element(n) = c.vector
              PROVE  c.v[l] = c.vector /\ Met(c.block_index, c.offsets[l], l) <= n
          <6>1. b.new[l] = c.vector
            BY <2>6, <5>3, <5>5, ValueOrder
          <6>2. /\ c.v[l] = c.vector /\ c.offsets[l] = b.offsets_new[l]
                /\ b.offsets_new[l] <= k /\ b.offsets_new[l] \in Nat /\ k \in Nat
            BY <1>3, <2>6, <3>5, <5>2, <5>3, <5>5, <6>1
          <6> QED
            BY <2>9, <3>1, <5>2, <6>2
        <5> QED
          BY <2>5, <5>2, <5>4, <5>5 DEF CoveredByVectors
      <4> QED
        BY <4>1, <4>2
    <3>8. Covered(which, b)'
      BY <1>6, <3>7 DEF Covered
    <3> QED
      BY <2>2, <2>4, <2>5, <2>11, <2>12, <3>6, <3>8 DEF SearchOK, b
  <2> QED
    BY <2>13, <2>14
<1>9. best' \in [Which -> BestType]
  <2>1. best' = [which \in Which |-> best'[which]]
    BY DEF on_block_finished
  <2> QED
    BY <1>8, <2>1
<1> QED
  BY <1>5, <1>8, <1>9 DEF LocationInv

\* A single element is kept if it is better than all single elements before.
LEMMA ScalarStep == LocationInv /\ scalar_path => LocationInv'
<1> SUFFICES ASSUME LocationInv, scalar_path PROVE LocationInv'
  OBVIOUS
<1>1. CursorOK /\ best \in [Which -> BestType]
  BY DEF LocationInv
<1>2. /\ at = "row" /\ elements > 0
      /\ running_index_' = running_index_ + 1 /\ elements' = elements - 1
      /\ UNCHANGED <<shape, image, columns, rows_left, vectors_in_block, vectors,
                     vrunning_offset_, at>>
  BY DEF scalar_path
<1>3. /\ Total \in Nat /\ Position = running_index_ /\ running_index_ \in Nat
      /\ elements \in Nat /\ elements <= columns /\ columns \in Nat
      /\ running_index_ \in 0..Total - 1
  <2>1. /\ Position = running_index_ /\ running_index_ \in Nat
        /\ elements \in Nat /\ elements <= columns /\ columns \in Nat
    BY <1>1, <1>2 DEF CursorOK
  <2>2. Total \in Nat /\ Position + elements <= Total
    BY <1>1, <1>2, ElementsLeft
  <2> QED
    BY <1>2, <2>1, <2>2
<1>4. CursorOK'
  <2>1. Total' = Total
    BY <1>2 DEF Total
  <2>2. Position' = running_index_'
    <3>1. PICK R \in Nat : R = (rows_left - 1) * columns
      BY <1>1, <1>2, ElementsLeft
    <3>2. Position = Total - R - elements /\ Len(image) = Total
      BY <1>1, <1>2, <3>1, ElementsLeft
    <3>3. Position' = Total - R - (elements - 1)
      BY <1>2, <3>1, <3>2 DEF Position
    <3>4. Total - R - (elements - 1) = (Total - R - elements) + 1
      BY <1>3, <3>1
    <3> QED
      BY <1>2, <1>3, <3>2, <3>3, <3>4
  <2>3. elements' \in 0..columns' /\ running_index_' \in 0..Total
    BY <1>2, <1>3
  <2> QED
    BY <1>1, <1>2, <2>1, <2>2, <2>3 DEF CursorOK
<1>5. ASSUME NEW which \in Which
      PROVE  best'[which] \in BestType /\ SearchOK(which, best[which])'
  <2> DEFINE b == best[which]
             pixel == Element(running_index_)
  <2>1. /\ b \in BestType
        /\ VectorsOK(which, b) /\ ScalarOK(which, b) /\ BlockOK(which, b)
        /\ Covered(which, b)
    BY <1>1 DEF LocationInv, SearchOK
  <2>2. PICK c : c = best'[which]
    OBVIOUS
  <2>3. c = IF Better(which, pixel, b.scalar)
              THEN [b EXCEPT !.scalar = pixel, !.scalar_index = running_index_]
              ELSE b
    BY <1>3, <2>2 DEF scalar_path, Element
  <2>4. pixel \in 0..ScalarMax
    BY <1>1, <1>3, ElementType
  <2>5. /\ \A n : Element(n)' = Element(n)
        /\ b' = c
    BY <1>2, <2>2 DEF Element
  <2> HIDE DEF pixel
  <2>6. /\ c \in BestType /\ c.vector = b.vector /\ c.v = b.v /\ c.offsets = b.offsets
        /\ c.block_index = b.block_index
        /\ c.new = b.new /\ c.offsets_new = b.offsets_new
        /\ c.scalar = IF Better(which, pixel, b.scalar) THEN pixel ELSE b.scalar
        /\ c.scalar_index = IF Better(which, pixel, b.scalar) THEN running_index_
                            ELSE b.scalar_index
    BY <1>3, <2>1, <2>3, <2>4 DEF BestType
  <2>7. /\ b.scalar \in 0..ScalarMax /\ b.scalar_index \in Nat
        /\ Neutral(which) \in 0..ScalarMax
    BY <2>1, ValueOrder DEF BestType
  <2> HIDE DEF b
  <2>8. \A n \in 0..running_index_ - 1 : n \in 0..running_index_' - 1
    BY <1>2, <1>3
  <2>9. VectorsOK(which, b)'
    BY <2>1, <2>5, <2>6, <2>8 DEF VectorsOK
  <2>10. BlockOK(which, b)'
    BY <1>2, <2>1, <2>5, <2>6 DEF BlockOK
  <2>11. b.scalar_index <= running_index_
    BY <1>3, <2>1, <2>7 DEF ScalarOK
  <2>12. ScalarOK(which, b)'
    <3>1. CASE Better(which, pixel, b.scalar)
      <4>1. pixel # Neutral(which) /\ running_index_ \in 0..running_index_' - 1
        BY <1>2, <1>3, <2>7, <3>1, ValueOrder
      <4> QED
        BY <2>5, <2>6, <3>1, <4>1 DEF ScalarOK, pixel
    <3>2. CASE ~Better(which, pixel, b.scalar)
      BY <2>1, <2>5, <2>6, <2>8, <3>2 DEF ScalarOK
    <3> QED
      BY <3>1, <3>2
  <2>13. ASSUME NEW n \in 0..running_index_' - 1
         PROVE  CoveredByVectors(which, b, n)' \/ CoveredByScalars(which, b, n)'
    <3>1. CASE n = running_index_
      <4>1. Element(n) = pixel
        BY <3>1 DEF pixel
      <4>2. ~Better(which, pixel, c.scalar) /\ c.scalar_index <= n
        BY <1>3, <2>4, <2>6, <2>11, <3>1, ValueOrder
      <4> QED
        BY <2>5, <4>1, <4>2 DEF CoveredByScalars
    <3>2. CASE n # running_index_
      <4>1. CoveredByVectors(which, b, n) \/ CoveredByScalars(which, b, n)
        BY <1>2, <1>3, <2>1, <3>2 DEF Covered
      <4>2. CASE CoveredByVectors(which, b, n)
        BY <2>5, <2>6, <4>2 DEF CoveredByVectors
      <4>3. CASE CoveredByScalars(which, b, n)
        <5>1. Element(n) \in 0..ScalarMax
          BY <1>1, <1>2, <1>3, ElementType
        <5>2. ~Better(which, Element(n), b.scalar) /\ (Element(n) = b.scalar => b.scalar_index <= n)
          BY <4>3 DEF CoveredByScalars
        <5>3. ~Better(which, Element(n), c.scalar) /\ (Element(n) = c.scalar => c.scalar_index <= n)
          <6>1. CASE Better(which, pixel, b.scalar)
            BY <2>4, <2>6, <2>7, <5>1, <5>2, <6>1 DEF Better, Which
          <6>2. CASE ~Better(which, pixel, b.scalar)
            BY <2>6, <5>2, <6>2
          <6> QED
            BY <6>1, <6>2
        <5> QED
          BY <2>5, <5>3 DEF CoveredByScalars
      <4> QED
        BY <4>1, <4>2, <4>3
    <3> QED
      BY <3>1, <3>2
  <2>14. Covered(which, b)'
    BY <2>13 DEF Covered
  <2> QED
    BY <2>2, <2>6, <2>9, <2>10, <2>12, <2>14 DEF SearchOK, b
<1>6. best' \in [Which -> BestType]
  <2>1. best' = [which \in Which |-> best'[which]]
    BY DEF scalar_path
  <2> QED
    BY <1>5, <2>1
<1> QED
  BY <1>4, <1>5, <1>6 DEF LocationInv

\* The invariant says what the run checks.
LEMMA LocationInvImplies == LocationInv => FindsFirst
<1> SUFFICES ASSUME LocationInv PROVE FindsFirst
  OBVIOUS
<1>1. CursorOK /\ best \in [Which -> BestType]
  BY DEF LocationInv
<1>2. LocationTypeOK
  <2>1. Total \in Nat /\ image \in [1..Total -> 0..ScalarMax]
    BY <1>1 DEF CursorOK, Total
  <2>2. Len(image) = Total
    BY <2>1
  <2>3. vrunning_offset_ \in 1..ScalarMax
    BY <1>1, MinMaxLocAssumption DEF CursorOK, max_vectors_per_block
  <2>4. \A which \in Which : best[which] \in BestType
    BY <1>1
  <2>5. \A which \in Which :
          /\ best[which].offsets_new \in [Lanes -> 0..max_vectors_per_block]
          /\ best[which].offsets \in [Lanes -> 0..max_vectors_per_block]
          /\ best[which].new \in [Lanes -> 0..ScalarMax]
          /\ best[which].v \in [Lanes -> 0..ScalarMax]
    BY <2>4 DEF BestType
  <2> QED
    BY <1>1, <2>2, <2>3, <2>5 DEF LocationTypeOK, CursorOK
<1> QED
  BY <1>2, IndexIsFirst DEF FindsFirst

(***************************************************************************)
(* For every image, every number of lanes and every limit on the vectors   *)
(* of a block, min_max_loc returns the indices of the first minimum and of *)
(* the first maximum, and the numbers that lanes keep fit the element      *)
(* type.                                                                   *)
(***************************************************************************)
THEOREM SearchFindsFirst == LocationSpec => []FindsFirst
<1>1. LocationInit => LocationInv
  BY LocationInitInv
<1>2. LocationInv /\ [LocationNext]_locationVars => LocationInv'
  BY IdleStep, ZipRowsStep, StartBlockStep, VectorStep, BlockStep, ScalarStep,
     NextRowStep DEF LocationNext
<1>3. LocationInv => FindsFirst
  BY LocationInvImplies
<1> QED
  BY <1>1, <1>2, <1>3, PTL DEF LocationSpec
=============================================================================
