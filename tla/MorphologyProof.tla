-------------------------- MODULE MorphologyProof --------------------------
(***************************************************************************)
(* Dilate and erode, proved for images and kernels of every height, every  *)
(* anchor, border type and number of iterations, in place or not.  The     *)
(* argument follows the rows of the extended image through the double      *)
(* buffer: the rows that the vertical operation still has to read are in   *)
(* the buffer, counted from the half that may be read, and a row of the    *)
(* image is overwritten only when all rows made of it are there.           *)
(***************************************************************************)
EXTENDS MorphologyWorkspace, NumberLemmas, TLAPS

Depth == rows_per_iteration

\* The rows of the image with the border above and below.
AllRows == top + height + bottom

\* The buffer row behind a pointer.
Slot(p) == IF p < 2 * Depth THEN p ELSE p - 2 * Depth

\* Row number e of the extended image that this pass reads.
Wide(e) == Extended(Reference[pass], e - top)

\* Image rows among the first e of the extended image.
Taken(e) == IF e < top THEN 0 ELSE IF e < top + height THEN e - top ELSE height

Working == step \in {"fill", "loop"}

ParametersOK ==
  /\ height \in Nat /\ kernel_height \in Nat \ {0} /\ top \in 0..kernel_height
  /\ border_type \in {"CONSTANT", "REPLICATE", "OTHER"}
  /\ in_place \in BOOLEAN
  /\ iterations \in 0..MaxIterations

\* Passes are only made for calls that were accepted and images that have rows.
CallOK ==
  /\ step \in {"pass", "fill", "loop"} =>
       top < kernel_height /\ border_type \in {"CONSTANT", "REPLICATE"}
  /\ step = "call" => pass = 0
  /\ Working => height > 0 /\ pass < iterations
  /\ step = "loop" => ~first

\* The rows that were filled, and those that are left, from the rows that were
\* reduced.
CountersOK ==
  Working =>
    /\ vertical_height_ = height - dst_rows
    /\ src_rows = Taken(row_index)
    /\ first => /\ dst_rows = 0 /\ row_index = index
                /\ db_ptr_storage = <<0, Depth>>
                /\ horizontal_height = Minimum(AllRows, Depth)
                /\ horizontal_height_ = AllRows - horizontal_height
    /\ ~first => db_ptr_storage \in {<<0, Depth>>, <<Depth, 0>>}
    /\ step = "fill" /\ ~first =>
         LET start == Minimum(dst_rows + Depth, AllRows)
         IN  /\ vertical_height_ > 0
             /\ horizontal_height = Minimum(AllRows - start, Depth)
             /\ row_index = start + index
             /\ horizontal_height_ = AllRows - start - horizontal_height
    /\ step = "loop" /\ vertical_height_ > 0 =>
         /\ row_index = Minimum(dst_rows + Depth, AllRows)
         /\ horizontal_height_ = AllRows - row_index

\* The pointers that are used: those of the last half of the table are not.
PointersOK ==
  Working => /\ DOMAIN ptr_storage = 0..4 * Depth - 1
             /\ \A p \in 0..3 * Depth - 1 : ptr_storage[p] = Slot(p)

\* The half that will be read next.
ReadHalf == IF first THEN 0 ELSE db_ptr_storage[2]

\* Rows that were filled and not yet reduced are in the buffer.
BufferOK ==
  Working /\ vertical_height_ > 0 =>
    \A x \in 0..(row_index - dst_rows) - 1 :
      buffer_rows[Slot(ReadHalf + x)] = Wide(dst_rows + x)

\* A constant border stays in the wide row.
WideRowOK ==
  Working /\ border_type = "CONSTANT" /\ (~first \/ index > 0) =>
    wide_rows = [left |-> Border, mid |-> wide_rows.mid, right |-> Border]

MorphologyInv ==
  /\ ParametersOK /\ CallOK /\ CountersOK /\ PointersOK /\ BufferOK /\ WideRowOK
  /\ RowsCorrect
-----------------------------------------------------------------------------
\* Sizes.  A half of the buffer holds twice the rows of the kernel.
LEMMA Sizes ==
  ASSUME ParametersOK
  PROVE  /\ height \in Nat /\ kernel_height \in Nat \ {0} /\ top \in Nat
         /\ Depth \in Nat \ {0} /\ 2 * kernel_height <= Depth
         /\ AllRows = height + kernel_height - 1
  BY MorphologyAssumption DEF ParametersOK, Depth, rows_per_iteration, AllRows, bottom

\* A pointer table of four halves: the first three are as Slot says.
LEMMA TableSlots ==
  ASSUME ParametersOK, NEW p \in 0..3 * Depth - 1
  PROVE  PointerTable(Depth)[p] = Slot(p)
<1>1. Depth \in Nat \ {0}
  BY Sizes
<1> HIDE DEF Depth
<1>2. p \in 0..4 * Depth - 1 /\ p \in Nat /\ 2 * Depth \in Nat \ {0}
  BY <1>1
<1>3. PointerTable(Depth)[p] = p % (2 * Depth)
  BY <1>2 DEF PointerTable
<1>4. CASE p < 2 * Depth
  <2>1. (0 * (2 * Depth) + p) % (2 * Depth) = p
    BY <1>2, <1>4, DivModOf
  <2>2. 0 * (2 * Depth) + p = p
    BY <1>1, <1>2
  <2> QED
    BY <1>3, <1>4, <2>1, <2>2 DEF Slot
<1>5. CASE ~(p < 2 * Depth)
  <2>1. p - 2 * Depth \in 0..2 * Depth - 1
    BY <1>1, <1>2, <1>5
  <2>2. (1 * (2 * Depth) + (p - 2 * Depth)) % (2 * Depth) = p - 2 * Depth
    BY <1>2, <2>1, DivModOf
  <2>3. 1 * (2 * Depth) + (p - 2 * Depth) = p
    BY <1>1, <1>2
  <2> QED
    BY <1>3, <1>5, <2>2, <2>3 DEF Slot
<1> QED
  BY <1>4, <1>5

\* The function that recurs over the passes exists: the first pass without one
\* would have one made from that of the pass before.
LEMMA ReferenceExists ==
  ASSUME ParametersOK
  PROVE  \E f : f = [i \in 0..MaxIterations |->
                       IF i = 0 THEN [r \in 0..height - 1 |-> <<r>>]
                       ELSE Reduced(f[i - 1])]
<1> DEFINE First == [r \in 0..height - 1 |-> <<r>>]
           Next(n, f) == [i \in 0..n |-> IF i = 0 THEN First ELSE Reduced(f[i - 1])]
           Bad == {n \in 0..MaxIterations : ~ \E f : f = Next(n, f)}
<1> HIDE DEF First
<1>1. ASSUME NEW n \in Bad, \A m \in Bad : n <= m PROVE FALSE
  <2>0. n \in 0..MaxIterations /\ n \in Nat /\ MaxIterations \in Nat
    BY MorphologyAssumption
  <2>1. CASE n = 0
    <3> DEFINE f == [i \in 0..0 |-> First]
    <3>1. f = Next(0, f)
      OBVIOUS
    <3> QED
      BY <2>1, <3>1
  <2>2. CASE n # 0
    <3>1. n - 1 \in 0..MaxIterations /\ ~(n <= n - 1) /\ n - 1 \in Nat
      BY <2>0, <2>2
    <3>2. ~(n - 1 \in Bad)
      <4> HIDE DEF Bad
      <4> QED
        BY <1>1, <3>1
    <3>3. PICK f : f = Next(n - 1, f)
      BY <3>1, <3>2
    <3> DEFINE g == [i \in 0..n |-> IF i = 0 THEN First ELSE Reduced(f[i - 1])]
    <3>4. ASSUME NEW i \in 0..n - 1 PROVE g[i] = f[i]
      <4>1. i \in 0..n /\ g[i] = IF i = 0 THEN First ELSE Reduced(f[i - 1])
        BY <2>0, <3>1
      <4>2. f[i] = Next(n - 1, f)[i]
        BY <3>3
      <4>3. Next(n - 1, f)[i] = IF i = 0 THEN First ELSE Reduced(f[i - 1])
        BY <3>1
      <4> QED
        BY <4>1, <4>2, <4>3
    <3>5. ASSUME NEW i \in 0..n, i # 0 PROVE g[i - 1] = f[i - 1]
      BY <3>1, <3>4, <3>5
    <3>6. g = Next(n, g)
      <4>1. ASSUME NEW i \in 0..n
            PROVE  (IF i = 0 THEN First ELSE Reduced(f[i - 1]))
                     = IF i = 0 THEN First ELSE Reduced(g[i - 1])
        <5> HIDE DEF g
        <5> QED
          BY <3>5
      <4> QED
        BY <4>1
    <3> QED
      BY <3>6
  <2> QED
    BY <2>1, <2>2
<1>2. Bad = {}
  <2>1. Bad \subseteq Nat
    BY MorphologyAssumption
  <2> HIDE DEF Bad
  <2> QED
    BY <1>1, <2>1, Least
<1>3. MaxIterations \in 0..MaxIterations
  BY MorphologyAssumption
<1>4. \E f : f = Next(MaxIterations, f)
  BY <1>2, <1>3
<1> QED
  BY <1>4 DEF First

\* What a pass makes of the rows of the pass before.
LEMMA ReferenceIs ==
  ASSUME ParametersOK
  PROVE  /\ \A r \in 0..height - 1 : Reference[0][r] = <<r>>
         /\ \A i \in 0..MaxIterations - 1 : Reference[i + 1] = Reduced(Reference[i])
<1> DEFINE Body(f) == [i \in 0..MaxIterations |->
                         IF i = 0 THEN [r \in 0..height - 1 |-> <<r>>]
                         ELSE Reduced(f[i - 1])]
<1>1. Reference = CHOOSE f : f = Body(f)
  BY DEF Reference
<1>2. \E f : f = Body(f)
  BY ReferenceExists
<1>3. Reference = Body(Reference)
  <2> HIDE DEF Body
  <2> QED
    BY <1>1, <1>2
<1>4. MaxIterations \in Nat /\ 0 \in 0..MaxIterations
  BY MorphologyAssumption
<1>5. Reference[0] = [r \in 0..height - 1 |-> <<r>>]
  <2>1. Body(Reference)[0] = [r \in 0..height - 1 |-> <<r>>]
    BY <1>4
  <2> HIDE DEF Body
  <2> QED
    BY <1>3, <2>1
<1>6. ASSUME NEW i \in 0..MaxIterations - 1
      PROVE  Reference[i + 1] = Reduced(Reference[i])
  <2>1. i + 1 \in 0..MaxIterations /\ i + 1 # 0 /\ (i + 1) - 1 = i
    BY <1>4
  <2>2. Body(Reference)[i + 1] = Reduced(Reference[(i + 1) - 1])
    BY <2>1
  <2> HIDE DEF Body
  <2> QED
    BY <1>3, <2>1, <2>2
<1> QED
  BY <1>5, <1>6

\* The reference depends on the call alone.
ReferenceFor(h, kh, t, b) ==
  CHOOSE f : f = [i \in 0..MaxIterations |->
    IF i = 0 THEN [r \in 0..h - 1 |-> <<r>>]
    ELSE [r \in 0..h - 1 |-> [k \in 0..kh - 1 |->
            LET clamped == IF r + k - t < 0 THEN 0
                           ELSE IF r + k - t >= h THEN h - 1 ELSE r + k - t
                row == IF r + k - t = clamped \/ b = "REPLICATE"
                       THEN f[i - 1][clamped] ELSE Border
                sides == IF b = "CONSTANT" THEN Border ELSE row
            IN  [left |-> sides, mid |-> row, right |-> sides]]]]

LEMMA ReferenceKept ==
  ASSUME UNCHANGED params
  PROVE  Reference' = Reference
<1>1. Reference = ReferenceFor(height, kernel_height, top, border_type)
  BY DEF Reference, ReferenceFor, Reduced, Extended
<1>2. Reference' = ReferenceFor(height', kernel_height', top', border_type')
  BY DEF Reference, ReferenceFor, Reduced, Extended
<1> QED
  BY <1>1, <1>2 DEF params
-----------------------------------------------------------------------------
\* Where the next row is filled: behind the rows that wait to be reduced, and no
\* further than the two halves reach.
LEMMA FillPlace ==
  ASSUME MorphologyInv, step = "fill", index < horizontal_height
  PROVE  /\ height \in Nat /\ height > 0 /\ dst_rows \in 0..height - 1
         /\ row_index \in 0..AllRows - 1 /\ index \in Nat
         /\ row_index - dst_rows \in 0..2 * Depth - 1
         /\ ~first => row_index >= dst_rows + Depth
         /\ first => dst_rows = 0 /\ row_index = index
         /\ vertical_height_ > 0
         /\ ReadHalf \in {0, Depth}
         /\ db_ptr_storage[1] + index \in 0..2 * Depth - 1
         /\ Slot(ReadHalf + (row_index - dst_rows)) = db_ptr_storage[1] + index
<1>1. /\ height \in Nat /\ kernel_height \in Nat \ {0} /\ top \in Nat
      /\ Depth \in Nat \ {0} /\ 2 * kernel_height <= Depth
      /\ AllRows = height + kernel_height - 1
  BY Sizes DEF MorphologyInv
<1>2. /\ index \in Nat /\ dst_rows \in 0..height /\ horizontal_height \in Nat
  BY <1>1 DEF MorphologyInv, RowsCorrect, MorphologyTypeOK, Depth
<1>3. height > 0
  BY DEF MorphologyInv, CallOK, Working
<1>4. /\ vertical_height_ = height - dst_rows
      /\ first => /\ dst_rows = 0 /\ row_index = index
                  /\ db_ptr_storage = <<0, Depth>>
                  /\ horizontal_height = Minimum(AllRows, Depth)
      /\ ~first => /\ db_ptr_storage \in {<<0, Depth>>, <<Depth, 0>>}
                   /\ vertical_height_ > 0
                   /\ horizontal_height =
                        Minimum(AllRows - Minimum(dst_rows + Depth, AllRows), Depth)
                   /\ row_index = Minimum(dst_rows + Depth, AllRows) + index
  BY DEF MorphologyInv, CountersOK, Working
<1> HIDE DEF Depth, AllRows
<1>5. CASE first
  BY <1>1, <1>2, <1>3, <1>4, <1>5 DEF Minimum, ReadHalf, Slot
<1>6. CASE ~first
  <2>1. Minimum(dst_rows + Depth, AllRows) = dst_rows + Depth
    BY <1>1, <1>2, <1>4, <1>6 DEF Minimum
  <2>2. /\ row_index = dst_rows + Depth + index /\ index < Depth
        /\ row_index < AllRows /\ dst_rows < height
    BY <1>1, <1>2, <1>4, <1>6, <2>1 DEF Minimum
  <2>3. CASE db_ptr_storage = <<0, Depth>>
    BY <1>1, <1>2, <1>3, <1>4, <1>6, <2>2, <2>3 DEF ReadHalf, Slot
  <2>4. CASE db_ptr_storage = <<Depth, 0>>
    BY <1>1, <1>2, <1>3, <1>4, <1>6, <2>2, <2>4 DEF ReadHalf, Slot
  <2> QED
    BY <1>4, <1>6, <2>3, <2>4
<1> QED
  BY <1>5, <1>6

\* A row that no pass has stored to yet is what this pass reads.
LEMMA SourceIs ==
  ASSUME MorphologyInv, Working, NEW r \in 0..height - 1, r >= dst_rows
  PROVE  SourceRow(r) = Reference[pass][r]
<1>1. /\ pass \in Nat /\ height \in Nat /\ dst_rows \in Nat
  BY DEF MorphologyInv, RowsCorrect, MorphologyTypeOK, ParametersOK
<1>2. image[r] = IF pass = 0 /\ ~in_place THEN Garbage ELSE Reference[pass][r]
  BY <1>1 DEF MorphologyInv, RowsCorrect
<1>3. Reference[0][r] = <<r>>
  BY ReferenceIs DEF MorphologyInv
<1> QED
  BY <1>2, <1>3 DEF SourceRow

\* The wide row is the row of the extended image that is due.
LEMMA FilledIs ==
  ASSUME MorphologyInv, step = "fill", index < horizontal_height
  PROVE  FilledWideRow = Wide(row_index)
<1>1. /\ height \in Nat /\ height > 0 /\ dst_rows \in 0..height - 1
      /\ row_index \in 0..AllRows - 1 /\ index \in Nat
      /\ ~first => row_index >= dst_rows + Depth
      /\ first => dst_rows = 0 /\ row_index = index
  BY FillPlace
<1>2. /\ kernel_height \in Nat \ {0} /\ top \in Nat
      /\ Depth \in Nat \ {0} /\ 2 * kernel_height <= Depth
      /\ AllRows = height + kernel_height - 1
  BY Sizes DEF MorphologyInv
<1>3. /\ top < kernel_height /\ border_type \in {"CONSTANT", "REPLICATE"}
      /\ Working /\ src_rows = Taken(row_index)
  BY DEF MorphologyInv, CallOK, CountersOK, Working
<1> HIDE DEF Depth, AllRows
<1> DEFINE e == row_index - top
           rows == Reference[pass]
           clamped == IF e < 0 THEN 0 ELSE IF e >= height THEN height - 1 ELSE e
           row == IF e = clamped \/ border_type = "REPLICATE" THEN rows[clamped]
                  ELSE Border
<1>4. /\ e \in Int /\ clamped \in 0..height - 1
      /\ InImage <=> e = clamped
      /\ InImage => src_rows = clamped
      /\ ~InImage => clamped = IF row_index < top THEN 0 ELSE height - 1
      /\ clamped >= dst_rows
  BY <1>1, <1>2, <1>3 DEF InImage, Taken
<1>5. SourceRow(clamped) = rows[clamped]
  <2> HIDE DEF clamped
  <2> QED
    BY <1>3, <1>4, SourceIs
<1>6. CurrentRow = row
  <2> HIDE DEF clamped, e, rows
  <2> QED
    BY <1>3, <1>4, <1>5 DEF CurrentRow
<1>7. Wide(row_index) = [left |-> IF border_type = "CONSTANT" THEN Border ELSE row,
                         mid |-> row,
                         right |-> IF border_type = "CONSTANT" THEN Border ELSE row]
  BY DEF Wide, Extended
<1> HIDE DEF row
<1>8. CASE border_type = "CONSTANT" /\ ~first
  <2>1. wide_rows = [left |-> Border, mid |-> wide_rows.mid, right |-> Border]
    BY <1>3, <1>8 DEF MorphologyInv, WideRowOK
  <2>2. [wide_rows EXCEPT !.mid = row] = [left |-> Border, mid |-> row, right |-> Border]
    BY <2>1
  <2>3. FilledWideRow = [wide_rows EXCEPT !.mid = row]
    BY <1>6, <1>8 DEF FilledWideRow
  <2> QED
    BY <1>7, <1>8, <2>2, <2>3
<1>9. CASE ~(border_type = "CONSTANT" /\ ~first)
  BY <1>6, <1>7, <1>9 DEF FilledWideRow
<1> QED
  BY <1>8, <1>9
-----------------------------------------------------------------------------
\* What depends on the call alone stays.
LEMMA CallKept ==
  ASSUME ParametersOK, UNCHANGED params
  PROVE  /\ ParametersOK' /\ Depth' = Depth /\ AllRows' = AllRows
         /\ rows_per_iteration' = rows_per_iteration
         /\ Reference' = Reference
         /\ \A p : Slot(p)' = Slot(p)
         /\ \A e : Taken(e)' = Taken(e)
         /\ pass' = pass => \A e : Wide(e)' = Wide(e)
<1>1. Reference' = Reference
  BY ReferenceKept
<1>2. /\ ParametersOK' /\ Depth' = Depth /\ AllRows' = AllRows
      /\ rows_per_iteration' = rows_per_iteration
  BY DEF ParametersOK, params, Depth, rows_per_iteration, AllRows, bottom
<1>3. \A p : Slot(p)' = Slot(p)
  BY <1>2 DEF Slot
<1>4. \A e : Taken(e)' = Taken(e)
  BY DEF Taken, params
<1>5. pass' = pass => \A e : Wide(e)' = Wide(e)
  <2> HIDE DEF Reference
  <2> QED
    BY <1>1 DEF Wide, Extended, params
<1> QED
  BY <1>1, <1>2, <1>3, <1>4, <1>5

\* Between the passes only types, rows and the call matter.
LEMMA Resting ==
  ASSUME ParametersOK, ~Working, CallOK, RowsCorrect
  PROVE  MorphologyInv
  BY DEF MorphologyInv, CountersOK, PointersOK, BufferOK, WideRowOK

\* A call starts with what the caller has in the destination.
LEMMA MorphologyInitInv == MorphologyInit => MorphologyInv
<1> SUFFICES ASSUME MorphologyInit PROVE MorphologyInv
  OBVIOUS
<1>1. ParametersOK
  BY MorphologyAssumption DEF MorphologyInit, ParametersOK
<1>2. ~Working /\ CallOK
  BY DEF MorphologyInit, Working, CallOK
<1>3. MorphologyTypeOK
  <2>1. rows_per_iteration \in Nat /\ height \in Nat /\ iterations \in Nat
    BY <1>1, Sizes DEF Depth, ParametersOK
  <2> HIDE DEF rows_per_iteration
  <2> QED
    BY <2>1 DEF MorphologyInit, MorphologyTypeOK
<1>4. \A r \in 0..height - 1 : Reference[0][r] = <<r>>
  BY <1>1, ReferenceIs
<1>5. RowsCorrect
  BY <1>3, <1>4 DEF MorphologyInit, RowsCorrect
<1> QED
  BY <1>1, <1>2, <1>5, Resting

LEMMA CallStep == MorphologyInv /\ Call => MorphologyInv'
<1> SUFFICES ASSUME MorphologyInv, Call PROVE MorphologyInv'
  OBVIOUS
<1>1. /\ step = "call" /\ error' \in Errors
      /\ step' = IF error' = "OK" THEN "pass" ELSE "returned"
      /\ UNCHANGED <<params, pass, image, workspace>>
  BY DEF Call
<1>2. ParametersOK /\ CallOK /\ MorphologyTypeOK /\ RowsCorrect
  BY DEF MorphologyInv, RowsCorrect
<1>3. /\ ParametersOK' /\ Reference' = Reference
      /\ rows_per_iteration' = rows_per_iteration
  BY <1>1, <1>2, CallKept
<1>4. ~Working' /\ CallOK'
  <2>1. error' = "OK" => top < kernel_height /\ border_type \in {"CONSTANT", "REPLICATE"}
    BY <1>1, <1>2 DEF Errors, ParametersOK
  <2> QED
    BY <1>1, <1>2, <2>1 DEF Working, CallOK, params
<1>5. MorphologyTypeOK'
  BY <1>1, <1>2, <1>3 DEF MorphologyTypeOK, Errors, params, workspace
<1>6. RowsCorrect'
  <2> HIDE DEF Reference
  <2> QED
    BY <1>1, <1>2, <1>3, <1>5 DEF RowsCorrect, params, workspace
<1> QED
  BY <1>3, <1>4, <1>6 DEF MorphologyInv, CountersOK, PointersOK, BufferOK, WideRowOK

LEMMA FinishStep == MorphologyInv /\ Finish => MorphologyInv'
<1> SUFFICES ASSUME MorphologyInv, Finish PROVE MorphologyInv'
  OBVIOUS
<1>1. /\ step = "pass" /\ step' = "returned"
      /\ UNCHANGED <<params, error, pass, image, workspace>>
  BY DEF Finish
<1>2. ParametersOK /\ MorphologyTypeOK /\ RowsCorrect
  BY DEF MorphologyInv, RowsCorrect
<1>3. /\ ParametersOK' /\ Reference' = Reference
      /\ rows_per_iteration' = rows_per_iteration
  BY <1>1, <1>2, CallKept
<1>4. ~Working' /\ CallOK'
  BY <1>1 DEF Working, CallOK
<1>5. MorphologyTypeOK'
  BY <1>1, <1>2, <1>3 DEF MorphologyTypeOK, params, workspace
<1>6. RowsCorrect'
  <2> HIDE DEF Reference
  <2> QED
    BY <1>1, <1>2, <1>3, <1>5 DEF RowsCorrect, params, workspace
<1> QED
  BY <1>3, <1>4, <1>6 DEF MorphologyInv, CountersOK, PointersOK, BufferOK, WideRowOK

\* A pass over an image without rows.
LEMMA EmptyPassStep == MorphologyInv /\ EmptyPass => MorphologyInv'
<1> SUFFICES ASSUME MorphologyInv, EmptyPass PROVE MorphologyInv'
  OBVIOUS
<1>1. /\ step = "pass" /\ pass < iterations /\ height = 0 /\ pass' = pass + 1
      /\ UNCHANGED <<params, step, error, image, workspace>>
  BY DEF EmptyPass
<1>2. ParametersOK /\ CallOK /\ MorphologyTypeOK
  BY DEF MorphologyInv, RowsCorrect
<1>3. ParametersOK' /\ rows_per_iteration' = rows_per_iteration
  BY <1>1, <1>2, CallKept
<1>4. ~Working' /\ CallOK'
  BY <1>1, <1>2 DEF Working, CallOK, params
<1>5. pass' \in 0..iterations'
  BY <1>1, <1>2 DEF MorphologyTypeOK, ParametersOK, params
<1>6. MorphologyTypeOK'
  BY <1>1, <1>2, <1>3, <1>5 DEF MorphologyTypeOK, params, workspace
<1>7. RowsCorrect'
  BY <1>1, <1>6 DEF RowsCorrect, params
<1> QED
  BY <1>3, <1>4, <1>7 DEF MorphologyInv, CountersOK, PointersOK, BufferOK, WideRowOK

\* The number of rows filled in [Step 1] is positive, so that the wide row has
\* its border when the loop starts.
LEMMA StartPassStep == MorphologyInv /\ StartPass => MorphologyInv'
<1> SUFFICES ASSUME MorphologyInv, StartPass PROVE MorphologyInv'
  OBVIOUS
<1>1. /\ step = "pass" /\ pass < iterations /\ height > 0
      /\ ptr_storage' = PointerTable(rows_per_iteration)
      /\ db_ptr_storage' = <<0, rows_per_iteration>>
      /\ horizontal_height' = NextHeight(AllRows)
      /\ horizontal_height_' = AllRows - NextHeight(AllRows)
      /\ vertical_height_' = height
      /\ row_index' = 0 /\ src_rows' = 0 /\ dst_rows' = 0 /\ index' = 0
      /\ first' = TRUE /\ step' = "fill"
      /\ UNCHANGED <<params, error, pass, image, buffer_rows, wide_rows>>
  BY DEF StartPass, AllRows
<1>2. ParametersOK /\ CallOK /\ MorphologyTypeOK /\ RowsCorrect
  BY DEF MorphologyInv, RowsCorrect
<1>3. /\ ParametersOK' /\ Depth' = Depth /\ AllRows' = AllRows
      /\ rows_per_iteration' = rows_per_iteration
      /\ Reference' = Reference
      /\ \A p : Slot(p)' = Slot(p)
      /\ \A e : Taken(e)' = Taken(e)
  BY <1>1, <1>2, CallKept
<1>4. /\ height \in Nat /\ kernel_height \in Nat \ {0} /\ top \in Nat
      /\ Depth \in Nat \ {0} /\ AllRows = height + kernel_height - 1
      /\ Depth = rows_per_iteration
  BY <1>2, Sizes DEF Depth
<1>5. CallOK'
  BY <1>1, <1>2 DEF CallOK, Working, params
<1> HIDE DEF Depth, AllRows, rows_per_iteration
<1>6. NextHeight(AllRows) = Minimum(AllRows, Depth) /\ Minimum(AllRows, Depth) \in 1..Depth
  BY <1>1, <1>4 DEF NextHeight, Minimum
<1>7. CountersOK'
  <2>1. Taken(0) = 0
    BY <1>4 DEF Taken
  <2>2. Taken(row_index)' = Taken(0)
    BY <1>1, <1>3 DEF Taken, params
  <2> QED
    BY <1>1, <1>3, <1>4, <1>6, <2>1, <2>2 DEF CountersOK, params, Minimum
<1>8. PointersOK'
  <2>1. DOMAIN PointerTable(Depth) = 0..4 * Depth - 1
    BY DEF PointerTable
  <2>2. \A p \in 0..3 * Depth - 1 : PointerTable(Depth)[p] = Slot(p)
    BY <1>2, TableSlots
  <2> HIDE DEF PointerTable, Slot
  <2> QED
    BY <1>1, <1>3, <1>4, <2>1, <2>2 DEF PointersOK
<1>9. BufferOK' /\ WideRowOK'
  BY <1>1 DEF BufferOK, WideRowOK
<1>10. MorphologyTypeOK'
  <2>1. {db_ptr_storage'[1], db_ptr_storage'[2]} \subseteq {0, rows_per_iteration'}
    BY <1>1, <1>3
  <2>2. /\ horizontal_height' \in 0..rows_per_iteration' /\ index' \in 0..horizontal_height'
        /\ horizontal_height_' \in Nat
    BY <1>1, <1>3, <1>4, <1>6 DEF Minimum
  <2>3. /\ src_rows' \in 0..height' /\ dst_rows' \in 0..height'
        /\ dst_rows' + vertical_height_' \in {0, height'}
    BY <1>1, <1>4 DEF params
  <2> QED
    BY <1>1, <1>2, <1>3, <2>1, <2>2, <2>3 DEF MorphologyTypeOK, params
<1>11. RowsCorrect'
  <2>1. \A r \in 0..height - 1 : ~(r < dst_rows')
    BY <1>1, <1>4
  <2> HIDE DEF Reference
  <2> QED
    BY <1>1, <1>2, <1>3, <1>10, <2>1 DEF RowsCorrect, params
<1> QED
  BY <1>3, <1>5, <1>7, <1>8, <1>9, <1>11 DEF MorphologyInv

\* Pointers behind rows that wait are different, so that the row filled next
\* overwrites none of them.
LEMMA SlotsDiffer ==
  ASSUME ParametersOK, NEW half \in {0, Depth},
         NEW x \in 0..2 * Depth - 1, NEW y \in 0..2 * Depth - 1,
         Slot(half + x) = Slot(half + y)
  PROVE  x = y
<1>1. Depth \in Nat \ {0}
  BY Sizes
<1> HIDE DEF Depth
<1> QED
  BY <1>1 DEF Slot

LEMMA FillRowStep == MorphologyInv /\ FillRow => MorphologyInv'
<1> SUFFICES ASSUME MorphologyInv, FillRow PROVE MorphologyInv'
  OBVIOUS
<1>1. /\ step = "fill" /\ index < horizontal_height
      /\ wide_rows' = FilledWideRow
      /\ buffer_rows' = [buffer_rows EXCEPT
                           ![ptr_storage[db_ptr_storage[1] + index]] = FilledWideRow]
      /\ ptr_storage' = [p \in DOMAIN ptr_storage |->
                           IF p >= 3 * Depth THEN Garbage ELSE ptr_storage[p]]
      /\ src_rows' = IF InImage THEN src_rows + 1 ELSE src_rows
      /\ row_index' = row_index + 1
      /\ index' = index + 1
      /\ UNCHANGED <<params, step, error, pass, image, db_ptr_storage, dst_rows,
                     horizontal_height_, vertical_height_, horizontal_height, first>>
  BY DEF FillRow, Depth
<1>2. /\ ParametersOK /\ CallOK /\ MorphologyTypeOK /\ RowsCorrect /\ CountersOK
      /\ PointersOK /\ BufferOK /\ Working
  BY <1>1 DEF MorphologyInv, RowsCorrect, Working
<1>3. /\ ParametersOK' /\ Depth' = Depth /\ AllRows' = AllRows
      /\ rows_per_iteration' = rows_per_iteration
      /\ Reference' = Reference
      /\ \A p : Slot(p)' = Slot(p)
      /\ \A e : Taken(e)' = Taken(e)
      /\ \A e : Wide(e)' = Wide(e)
  BY <1>1, <1>2, CallKept
<1>4. /\ height \in Nat /\ kernel_height \in Nat \ {0} /\ top \in Nat
      /\ Depth \in Nat \ {0} /\ AllRows = height + kernel_height - 1
  BY <1>2, Sizes
<1>5. /\ dst_rows \in 0..height - 1 /\ row_index \in 0..AllRows - 1 /\ index \in Nat
      /\ row_index - dst_rows \in 0..2 * Depth - 1
      /\ vertical_height_ > 0 /\ ReadHalf \in {0, Depth}
      /\ db_ptr_storage[1] + index \in 0..2 * Depth - 1
      /\ Slot(ReadHalf + (row_index - dst_rows)) = db_ptr_storage[1] + index
  BY <1>1, FillPlace
<1>6. CallOK'
  BY <1>1, <1>2 DEF CallOK, Working, params
<1> HIDE DEF Depth, AllRows, rows_per_iteration, Reference
<1>7. src_rows' = Taken(row_index + 1) /\ src_rows' \in 0..height
  BY <1>1, <1>2, <1>4, <1>5 DEF CountersOK, Taken, InImage
<1>8. CountersOK'
  <2>1. Taken(row_index)' = Taken(row_index + 1)
    BY <1>1, <1>3 DEF Taken, params
  <2>2. Working'
    BY <1>1 DEF Working
  <2>3. /\ vertical_height_' = height' - dst_rows'
        /\ src_rows' = Taken(row_index)'
    BY <1>1, <1>2, <1>7, <2>1 DEF CountersOK, params
  <2>4. first' => /\ dst_rows' = 0 /\ row_index' = index'
                  /\ db_ptr_storage' = <<0, Depth'>>
                  /\ horizontal_height' = Minimum(AllRows', Depth')
                  /\ horizontal_height_' = AllRows' - horizontal_height'
    BY <1>1, <1>2, <1>3, <1>5 DEF CountersOK
  <2>5. ~first' =>
           /\ db_ptr_storage' \in {<<0, Depth'>>, <<Depth', 0>>}
           /\ vertical_height_' > 0
           /\ horizontal_height' =
                Minimum(AllRows' - Minimum(dst_rows' + Depth', AllRows'), Depth')
           /\ row_index' = Minimum(dst_rows' + Depth', AllRows') + index'
           /\ horizontal_height_' =
                AllRows' - Minimum(dst_rows' + Depth', AllRows') - horizontal_height'
    <3> SUFFICES ASSUME ~first PROVE ~first' => 
           /\ db_ptr_storage' \in {<<0, Depth'>>, <<Depth', 0>>}
           /\ vertical_height_' > 0
           /\ horizontal_height' =
                Minimum(AllRows' - Minimum(dst_rows' + Depth', AllRows'), Depth')
           /\ row_index' = Minimum(dst_rows' + Depth', AllRows') + index'
           /\ horizontal_height_' =
                AllRows' - Minimum(dst_rows' + Depth', AllRows') - horizontal_height'
      BY <1>1
    <3>1. /\ db_ptr_storage \in {<<0, Depth>>, <<Depth, 0>>}
          /\ horizontal_height =
               Minimum(AllRows - Minimum(dst_rows + Depth, AllRows), Depth)
          /\ row_index = Minimum(dst_rows + Depth, AllRows) + index
          /\ horizontal_height_ =
               AllRows - Minimum(dst_rows + Depth, AllRows) - horizontal_height
      BY <1>1, <1>2 DEF CountersOK
    <3>2. Minimum(dst_rows + Depth, AllRows) \in Int
      BY <1>4, <1>5 DEF Minimum
    <3> HIDE DEF Minimum
    <3> QED
      BY <1>1, <1>3, <1>5, <3>1, <3>2
  <2>6. step' = "fill"
    BY <1>1
  <2> HIDE DEF Minimum, Taken
  <2> QED
    BY <2>3, <2>4, <2>5, <2>6 DEF CountersOK
<1>9. PointersOK'
  <2>1. /\ DOMAIN ptr_storage = 0..4 * Depth - 1
        /\ \A p \in 0..3 * Depth - 1 : ptr_storage[p] = Slot(p)
    BY <1>2 DEF PointersOK
  <2>2. DOMAIN ptr_storage' = 0..4 * Depth - 1
    BY <1>1, <2>1
  <2>3. ASSUME NEW p \in 0..3 * Depth - 1 PROVE ptr_storage'[p] = Slot(p)
    <3>1. p \in 0..4 * Depth - 1 /\ ~(p >= 3 * Depth)
      BY <1>4
    <3> QED
      BY <1>1, <2>1, <3>1
  <2> HIDE DEF Slot
  <2> QED
    BY <1>3, <2>2, <2>3 DEF PointersOK
<1>10. buffer_rows' = [buffer_rows EXCEPT ![db_ptr_storage[1] + index] = Wide(row_index)]
  <2>1. FilledWideRow = Wide(row_index)
    BY <1>1, FilledIs
  <2>2. db_ptr_storage[1] + index \in 0..3 * Depth - 1
    BY <1>4, <1>5
  <2>3. ptr_storage[db_ptr_storage[1] + index] = Slot(db_ptr_storage[1] + index)
    BY <1>2, <2>2 DEF PointersOK
  <2>4. Slot(db_ptr_storage[1] + index) = db_ptr_storage[1] + index
    BY <1>4, <1>5 DEF Slot
  <2> QED
    BY <1>1, <2>1, <2>3, <2>4
<1>11. DOMAIN buffer_rows = 0..2 * Depth - 1
  BY <1>2 DEF MorphologyTypeOK, Depth
<1>12. BufferOK'
  <2>1. ReadHalf' = ReadHalf
    BY <1>1 DEF ReadHalf
  <2>2. \A x \in 0..(row_index - dst_rows) - 1 :
          buffer_rows[Slot(ReadHalf + x)] = Wide(dst_rows + x)
    BY <1>2, <1>5 DEF BufferOK
  <2>3. ASSUME NEW x \in 0..(row_index + 1 - dst_rows) - 1
        PROVE  buffer_rows'[Slot(ReadHalf + x)] = Wide(dst_rows + x)
    <3>1. x \in 0..2 * Depth - 1 /\ x <= row_index - dst_rows
      BY <1>4, <1>5
    <3>2. Slot(ReadHalf + x) \in 0..2 * Depth - 1
      BY <1>4, <1>5, <3>1 DEF Slot
    <3>3. CASE x = row_index - dst_rows
      <4>1. dst_rows + x = row_index
        BY <1>4, <1>5, <3>3
      <4> HIDE DEF Slot, Wide
      <4> QED
        BY <1>5, <1>10, <1>11, <3>2, <3>3, <4>1
    <3>4. CASE x # row_index - dst_rows
      <4>1. x \in 0..(row_index - dst_rows) - 1
        BY <1>4, <1>5, <3>1, <3>4
      <4>2. Slot(ReadHalf + x) # Slot(ReadHalf + (row_index - dst_rows))
        <5> HIDE DEF ReadHalf, Slot
        <5> QED
          BY <1>2, <1>5, <3>1, <3>4, SlotsDiffer
      <4> HIDE DEF Slot, Wide, ReadHalf
      <4>3. buffer_rows'[Slot(ReadHalf + x)] = buffer_rows[Slot(ReadHalf + x)]
        BY <1>5, <1>10, <1>11, <3>2, <4>2
      <4> QED
        BY <2>2, <4>1, <4>3
    <3> QED
      BY <3>3, <3>4
  <2>4. ASSUME NEW x \in 0..(row_index' - dst_rows') - 1
        PROVE  buffer_rows'[Slot(ReadHalf + x)'] = Wide(dst_rows + x)'
    <3>1. x \in 0..(row_index + 1 - dst_rows) - 1
      BY <1>1, <1>4, <1>5
    <3>2. Slot(ReadHalf + x)' = Slot(ReadHalf + x)
      BY <1>3, <2>1 DEF Slot
    <3>3. Wide(dst_rows + x)' = Wide(dst_rows + x)
      BY <1>1, <1>3 DEF Wide, Extended, params
    <3> HIDE DEF Slot, Wide
    <3> QED
      BY <2>3, <3>1, <3>2, <3>3
  <2> HIDE DEF Slot, Wide, ReadHalf
  <2> QED
    BY <2>4 DEF BufferOK
<1>13. WideRowOK'
  <2>1. border_type = "CONSTANT" =>
          Wide(row_index) = [left |-> Border, mid |-> Wide(row_index).mid, right |-> Border]
    BY DEF Wide, Extended
  <2>2. wide_rows' = Wide(row_index)
    BY <1>1, FilledIs
  <2> HIDE DEF Wide
  <2> QED
    BY <1>1, <2>1, <2>2 DEF WideRowOK, params
<1>14. MorphologyTypeOK'
  <2>1. index' \in 0..horizontal_height' /\ row_index' \in Nat
    BY <1>1, <1>2, <1>4, <1>5 DEF MorphologyTypeOK
  <2>2. DOMAIN buffer_rows' = 0..2 * rows_per_iteration' - 1
    BY <1>3, <1>10, <1>11 DEF Depth
  <2> QED
    BY <1>1, <1>2, <1>3, <1>7, <2>1, <2>2 DEF MorphologyTypeOK, params
<1>15. RowsCorrect'
  BY <1>1, <1>2, <1>3, <1>14 DEF RowsCorrect, params
<1> QED
  BY <1>3, <1>6, <1>8, <1>9, <1>12, <1>13, <1>15 DEF MorphologyInv

\* The halves change places: what was filled first may be read now.
LEMMA FirstFilledStep == MorphologyInv /\ FirstFilled => MorphologyInv'
<1> SUFFICES ASSUME MorphologyInv, FirstFilled PROVE MorphologyInv'
  OBVIOUS
<1>1. /\ step = "fill" /\ index = horizontal_height /\ first
      /\ db_ptr_storage' = <<db_ptr_storage[2], db_ptr_storage[1]>>
      /\ first' = FALSE /\ step' = "loop"
      /\ UNCHANGED <<params, error, pass, image, ptr_storage, buffer_rows, wide_rows,
                     row_index, src_rows, dst_rows, horizontal_height_,
                     vertical_height_, horizontal_height, index>>
  BY DEF FirstFilled, Swap
<1>2. /\ ParametersOK /\ CallOK /\ MorphologyTypeOK /\ RowsCorrect /\ CountersOK
      /\ PointersOK /\ BufferOK /\ WideRowOK /\ Working
  BY <1>1 DEF MorphologyInv, RowsCorrect, Working
<1>3. /\ ParametersOK' /\ Depth' = Depth /\ AllRows' = AllRows
      /\ rows_per_iteration' = rows_per_iteration
      /\ Reference' = Reference
      /\ \A p : Slot(p)' = Slot(p)
      /\ \A e : Taken(e)' = Taken(e)
      /\ \A e : Wide(e)' = Wide(e)
  BY <1>1, <1>2, CallKept
<1>4. /\ height \in Nat /\ kernel_height \in Nat \ {0} /\ top \in Nat /\ height > 0
      /\ Depth \in Nat \ {0} /\ AllRows = height + kernel_height - 1
  BY <1>2, Sizes DEF CallOK
<1>5. CallOK'
  BY <1>1, <1>2 DEF CallOK, Working, params
<1>6. /\ vertical_height_ = height - dst_rows /\ src_rows = Taken(row_index)
      /\ dst_rows = 0 /\ row_index = index /\ db_ptr_storage = <<0, Depth>>
      /\ horizontal_height = Minimum(AllRows, Depth)
      /\ horizontal_height_ = AllRows - horizontal_height
  BY <1>1, <1>2 DEF CountersOK
<1> HIDE DEF Depth, AllRows, rows_per_iteration, Reference
<1>7. row_index = Minimum(dst_rows + Depth, AllRows) /\ index > 0
  BY <1>1, <1>4, <1>6 DEF Minimum
<1>8. db_ptr_storage' = <<Depth, 0>>
  BY <1>1, <1>6
<1>9. CountersOK'
  <2>1. Taken(row_index)' = Taken(row_index)
    BY <1>1 DEF Taken, params
  <2>2. row_index' = Minimum(dst_rows' + Depth', AllRows')
    BY <1>1, <1>3, <1>7
  <2> HIDE DEF Minimum, Taken
  <2> QED
    BY <1>1, <1>3, <1>6, <1>8, <2>1, <2>2 DEF CountersOK, params
<1>10. PointersOK'
  <2> HIDE DEF Slot
  <2> QED
    BY <1>1, <1>2, <1>3 DEF PointersOK
<1>11. BufferOK'
  <2>1. ReadHalf = 0 /\ ReadHalf' = 0
    BY <1>1, <1>8 DEF ReadHalf
  <2>2. \A x \in 0..(row_index - dst_rows) - 1 :
          buffer_rows[Slot(ReadHalf + x)] = Wide(dst_rows + x)
    BY <1>2, <1>4, <1>6 DEF BufferOK
  <2>3. \A x : Slot(ReadHalf + x)' = Slot(ReadHalf + x)
    BY <1>3, <2>1 DEF Slot
  <2>4. \A x : Wide(dst_rows + x)' = Wide(dst_rows + x)
    BY <1>1, <1>3 DEF Wide, Extended, params
  <2> HIDE DEF Slot, Wide, ReadHalf
  <2> QED
    BY <1>1, <2>2, <2>3, <2>4 DEF BufferOK
<1>12. WideRowOK'
  BY <1>1, <1>2, <1>7 DEF WideRowOK, params
<1>13. MorphologyTypeOK'
  <2>1. {db_ptr_storage'[1], db_ptr_storage'[2]} \subseteq {0, rows_per_iteration'}
    BY <1>3, <1>8 DEF Depth
  <2> QED
    BY <1>1, <1>2, <1>3, <2>1 DEF MorphologyTypeOK, params
<1>14. RowsCorrect'
  BY <1>1, <1>2, <1>3, <1>13 DEF RowsCorrect, params
<1> QED
  BY <1>3, <1>5, <1>9, <1>10, <1>11, <1>12, <1>14 DEF MorphologyInv

LEMMA NextBlockStep == MorphologyInv /\ NextBlock => MorphologyInv'
<1> SUFFICES ASSUME MorphologyInv, NextBlock PROVE MorphologyInv'
  OBVIOUS
<1>1. /\ step = "loop" /\ vertical_height_ > 0
      /\ horizontal_height' = NextHeight(horizontal_height_)
      /\ horizontal_height_' = horizontal_height_ - NextHeight(horizontal_height_)
      /\ index' = 0 /\ step' = "fill"
      /\ UNCHANGED <<params, error, pass, image, ptr_storage, db_ptr_storage,
                     buffer_rows, wide_rows, row_index, src_rows, dst_rows,
                     vertical_height_, first>>
  BY DEF NextBlock
<1>2. /\ ParametersOK /\ CallOK /\ MorphologyTypeOK /\ RowsCorrect /\ CountersOK
      /\ PointersOK /\ BufferOK /\ WideRowOK /\ Working /\ ~first
  BY <1>1 DEF MorphologyInv, RowsCorrect, Working, CallOK
<1>3. /\ ParametersOK' /\ Depth' = Depth /\ AllRows' = AllRows
      /\ rows_per_iteration' = rows_per_iteration
      /\ Reference' = Reference
      /\ \A p : Slot(p)' = Slot(p)
      /\ \A e : Taken(e)' = Taken(e)
      /\ \A e : Wide(e)' = Wide(e)
  BY <1>1, <1>2, CallKept
<1>4. /\ height \in Nat /\ kernel_height \in Nat \ {0} /\ dst_rows \in 0..height
      /\ Depth \in Nat \ {0} /\ AllRows = height + kernel_height - 1
      /\ Depth = rows_per_iteration
  BY <1>2, Sizes DEF MorphologyTypeOK, Depth
<1>5. CallOK'
  BY <1>1, <1>2 DEF CallOK, Working, params
<1>6. /\ vertical_height_ = height - dst_rows /\ src_rows = Taken(row_index)
      /\ db_ptr_storage \in {<<0, Depth>>, <<Depth, 0>>}
      /\ row_index = Minimum(dst_rows + Depth, AllRows)
      /\ horizontal_height_ = AllRows - row_index
  BY <1>1, <1>2 DEF CountersOK
<1> HIDE DEF Depth, AllRows, rows_per_iteration, Reference
<1>7. /\ row_index \in 0..AllRows
      /\ horizontal_height' = Minimum(AllRows - row_index, Depth)
      /\ horizontal_height' \in 0..Depth
      /\ horizontal_height_' = AllRows - row_index - horizontal_height'
      /\ horizontal_height_' \in Nat
  BY <1>1, <1>4, <1>6 DEF Minimum, NextHeight
<1>8. CountersOK'
  <2>1. Taken(row_index)' = Taken(row_index)
    BY <1>1 DEF Taken, params
  <2>2. /\ horizontal_height' =
             Minimum(AllRows' - Minimum(dst_rows' + Depth', AllRows'), Depth')
        /\ row_index' = Minimum(dst_rows' + Depth', AllRows') + index'
        /\ horizontal_height_' =
             AllRows' - Minimum(dst_rows' + Depth', AllRows') - horizontal_height'
    <3> HIDE DEF Minimum
    <3> QED
      BY <1>1, <1>3, <1>6, <1>7
  <2> HIDE DEF Minimum, Taken
  <2> QED
    BY <1>1, <1>2, <1>3, <1>6, <2>1, <2>2 DEF CountersOK, params
<1>9. PointersOK'
  <2> HIDE DEF Slot
  <2> QED
    BY <1>1, <1>2, <1>3 DEF PointersOK
<1>10. BufferOK'
  <2>1. ReadHalf' = ReadHalf
    BY <1>1 DEF ReadHalf
  <2>2. \A x \in 0..(row_index - dst_rows) - 1 :
          buffer_rows[Slot(ReadHalf + x)] = Wide(dst_rows + x)
    BY <1>1, <1>2 DEF BufferOK
  <2>3. \A x : Slot(ReadHalf + x)' = Slot(ReadHalf + x)
    BY <1>3, <2>1 DEF Slot
  <2>4. \A x : Wide(dst_rows + x)' = Wide(dst_rows + x)
    BY <1>1, <1>3 DEF Wide, Extended, params
  <2> HIDE DEF Slot, Wide, ReadHalf
  <2> QED
    BY <1>1, <2>2, <2>3, <2>4 DEF BufferOK
<1>11. WideRowOK'
  BY <1>1, <1>2 DEF WideRowOK, params
<1>12. MorphologyTypeOK'
  <2>1. horizontal_height' \in 0..rows_per_iteration' /\ index' \in 0..horizontal_height'
    BY <1>1, <1>3, <1>4, <1>7
  <2> QED
    BY <1>1, <1>2, <1>3, <1>7, <2>1 DEF MorphologyTypeOK, params
<1>13. RowsCorrect'
  BY <1>1, <1>2, <1>3, <1>12 DEF RowsCorrect, params
<1> QED
  BY <1>3, <1>5, <1>8, <1>9, <1>10, <1>11, <1>13 DEF MorphologyInv

LEMMA EndPassStep == MorphologyInv /\ EndPass => MorphologyInv'
<1> SUFFICES ASSUME MorphologyInv, EndPass PROVE MorphologyInv'
  OBVIOUS
<1>1. /\ step = "loop" /\ vertical_height_ = 0 /\ pass' = pass + 1 /\ step' = "pass"
      /\ UNCHANGED <<params, error, image, workspace>>
  BY DEF EndPass
<1>2. /\ ParametersOK /\ CallOK /\ MorphologyTypeOK /\ RowsCorrect /\ CountersOK
      /\ Working
  BY <1>1 DEF MorphologyInv, RowsCorrect, Working
<1>3. /\ ParametersOK' /\ Reference' = Reference
      /\ rows_per_iteration' = rows_per_iteration
  BY <1>1, <1>2, CallKept
<1>4. ~Working' /\ CallOK'
  BY <1>1, <1>2 DEF Working, CallOK, params
<1>5. /\ height \in Nat /\ pass \in Nat /\ iterations \in Nat /\ pass < iterations
      /\ dst_rows = height
  BY <1>1, <1>2 DEF ParametersOK, MorphologyTypeOK, CallOK, CountersOK
<1>6. MorphologyTypeOK'
  <2>1. pass' \in 0..iterations'
    BY <1>1, <1>5 DEF params
  <2> QED
    BY <1>1, <1>2, <1>3, <2>1 DEF MorphologyTypeOK, params, workspace
<1>7. RowsCorrect'
  <2> HIDE DEF Reference
  <2>1. \A r \in 0..height - 1 : r < dst_rows /\ image[r] = Reference[pass + 1][r]
    BY <1>1, <1>2, <1>5 DEF RowsCorrect
  <2> QED
    BY <1>1, <1>3, <1>5, <1>6, <2>1 DEF RowsCorrect, params, workspace
<1> QED
  BY <1>3, <1>4, <1>7 DEF MorphologyInv, CountersOK, PointersOK, BufferOK, WideRowOK

\* When a block is filled, the rows that the vertical operation reads for a row
\* of the destination are all there.
LEMMA ReadIs ==
  ASSUME MorphologyInv, step = "fill", index = horizontal_height, ~first,
         NEW row \in 0..NextHeight(vertical_height_) - 1, NEW k \in 0..kernel_height - 1
  PROVE  ReadAt(row + k) = Wide(dst_rows + row + k)
<1>1. /\ ParametersOK /\ CountersOK /\ PointersOK /\ BufferOK /\ MorphologyTypeOK
      /\ Working
  BY DEF MorphologyInv, RowsCorrect, Working
<1>2. /\ height \in Nat /\ kernel_height \in Nat \ {0} /\ dst_rows \in 0..height
      /\ Depth \in Nat \ {0} /\ 2 * kernel_height <= Depth
      /\ AllRows = height + kernel_height - 1
      /\ Depth = rows_per_iteration
  BY <1>1, Sizes DEF MorphologyTypeOK, Depth
<1>3. /\ vertical_height_ = height - dst_rows /\ vertical_height_ > 0
      /\ db_ptr_storage \in {<<0, Depth>>, <<Depth, 0>>}
      /\ index = Minimum(AllRows - Minimum(dst_rows + Depth, AllRows), Depth)
      /\ row_index = Minimum(dst_rows + Depth, AllRows) + index
  BY <1>1 DEF CountersOK
<1> HIDE DEF Depth, AllRows, rows_per_iteration
<1> DEFINE x == row + k
<1>4. x \in 0..(row_index - dst_rows) - 1 /\ x < 2 * Depth /\ x \in Nat
      /\ x < Depth + kernel_height
  BY <1>2, <1>3 DEF NextHeight, Minimum
<1>5. ReadHalf = db_ptr_storage[2] /\ ReadHalf \in {0, Depth}
  BY <1>3 DEF ReadHalf
<1>6. dst_rows + row + k = dst_rows + x
  BY <1>2
<1> HIDE DEF x
<1>7. ReadHalf + x \in 0..3 * Depth - 1
  BY <1>2, <1>4, <1>5
<1>8. ptr_storage[ReadHalf + x] = Slot(ReadHalf + x)
  BY <1>1, <1>7 DEF PointersOK
<1>9. Slot(ReadHalf + x) \in Nat /\ Slot(ReadHalf + x) # Garbage
  BY <1>2, <1>7, MorphologyAssumption DEF Slot
<1>10. buffer_rows[Slot(ReadHalf + x)] = Wide(dst_rows + x)
  BY <1>1, <1>3, <1>4 DEF BufferOK
<1>11. ReadAt(x) = buffer_rows[Slot(ReadHalf + x)]
  <2> HIDE DEF ReadHalf, Slot
  <2> QED
    BY <1>5, <1>8, <1>9 DEF ReadAt
<1>12. x = row + k
  BY DEF x
<1> QED
  BY <1>6, <1>10, <1>11, <1>12

\* A row that is stored is the row of the next pass.
LEMMA ReducedIs ==
  ASSUME MorphologyInv, step = "fill", index = horizontal_height, ~first,
         NEW r \in 0..height - 1, r >= dst_rows,
         r < dst_rows + NextHeight(vertical_height_)
  PROVE  ReducedRow(r - dst_rows) = Reference[pass + 1][r]
<1>1. ParametersOK /\ MorphologyTypeOK /\ CallOK /\ CountersOK /\ Working
  BY DEF MorphologyInv, RowsCorrect, Working
<1>2. /\ height \in Nat /\ dst_rows \in Nat /\ pass \in Nat /\ pass < iterations
      /\ iterations \in 0..MaxIterations /\ kernel_height \in Nat \ {0} /\ top \in Nat
      /\ Depth \in Nat \ {0} /\ Depth = rows_per_iteration
      /\ vertical_height_ = height - dst_rows
  BY <1>1, Sizes DEF ParametersOK, MorphologyTypeOK, CallOK, CountersOK, Depth
<1>3. Reference[pass + 1] = Reduced(Reference[pass])
  <2>1. pass \in 0..MaxIterations - 1
    BY <1>2, MorphologyAssumption
  <2> QED
    BY <1>1, <2>1, ReferenceIs
<1>4. NextHeight(vertical_height_) \in Int
  BY <1>2 DEF NextHeight, Minimum
<1> DEFINE row == r - dst_rows
<1>5. row \in 0..NextHeight(vertical_height_) - 1 /\ dst_rows + row = r /\ row \in Int
  <2> HIDE DEF NextHeight
  <2> QED
    BY <1>2, <1>4
<1> HIDE DEF row
<1>6. ASSUME NEW k \in 0..kernel_height - 1
      PROVE  ReadAt(row + k) = Extended(Reference[pass], r + k - top)
  <2>1. ReadAt(row + k) = Wide(dst_rows + row + k)
    BY <1>5, ReadIs
  <2>2. dst_rows + row + k = r + k /\ (r + k) - top = r + k - top
    BY <1>2, <1>5
  <2> HIDE DEF ReadAt, Extended
  <2> QED
    BY <2>1, <2>2 DEF Wide
<1>7. ReducedRow(row) = [k \in 0..kernel_height - 1 |->
                           Extended(Reference[pass], r + k - top)]
  <2> HIDE DEF ReadAt, Extended
  <2> QED
    BY <1>6 DEF ReducedRow
<1>8. Reduced(Reference[pass])[r] = [k \in 0..kernel_height - 1 |->
                                       Extended(Reference[pass], r + k - top)]
  <2> HIDE DEF Extended
  <2> QED
    BY DEF Reduced
<1> HIDE DEF ReducedRow, Reduced, Extended
<1>9. ReducedRow(row) = Reference[pass + 1][r]
  BY <1>3, <1>7, <1>8
<1> QED
  BY <1>9 DEF row

LEMMA VerticalStep == MorphologyInv /\ Vertical => MorphologyInv'
<1> SUFFICES ASSUME MorphologyInv, Vertical PROVE MorphologyInv'
  OBVIOUS
<1> DEFINE n == NextHeight(vertical_height_)
<1>1. /\ step = "fill" /\ index = horizontal_height /\ ~first
      /\ image' = [r \in DOMAIN image |->
                     IF r \in dst_rows..dst_rows + n - 1 THEN ReducedRow(r - dst_rows)
                                                         ELSE image[r]]
      /\ vertical_height_' = vertical_height_ - n
      /\ dst_rows' = dst_rows + n
      /\ db_ptr_storage' = <<db_ptr_storage[2], db_ptr_storage[1]>>
      /\ step' = "loop"
      /\ UNCHANGED <<params, error, pass, ptr_storage, buffer_rows, wide_rows, row_index,
                     src_rows, horizontal_height_, horizontal_height, index, first>>
  BY DEF Vertical, Swap
<1>2. /\ ParametersOK /\ CallOK /\ MorphologyTypeOK /\ RowsCorrect /\ CountersOK
      /\ PointersOK /\ BufferOK /\ WideRowOK /\ Working
  BY <1>1 DEF MorphologyInv, RowsCorrect, Working, CallOK
<1>3. /\ ParametersOK' /\ Depth' = Depth /\ AllRows' = AllRows
      /\ rows_per_iteration' = rows_per_iteration
      /\ Reference' = Reference
      /\ \A p : Slot(p)' = Slot(p)
      /\ \A e : Taken(e)' = Taken(e)
      /\ \A e : Wide(e)' = Wide(e)
  BY <1>1, <1>2, CallKept
<1>4. /\ height \in Nat /\ kernel_height \in Nat \ {0} /\ dst_rows \in 0..height
      /\ Depth \in Nat \ {0} /\ 2 * kernel_height <= Depth
      /\ AllRows = height + kernel_height - 1
      /\ Depth = rows_per_iteration /\ pass \in Nat
  BY <1>2, Sizes DEF MorphologyTypeOK, Depth, ParametersOK
<1>5. CallOK'
  BY <1>1, <1>2 DEF CallOK, Working, params
<1>6. /\ vertical_height_ = height - dst_rows /\ vertical_height_ > 0
      /\ src_rows = Taken(row_index)
      /\ db_ptr_storage \in {<<0, Depth>>, <<Depth, 0>>}
      /\ index = Minimum(AllRows - Minimum(dst_rows + Depth, AllRows), Depth)
      /\ row_index = Minimum(dst_rows + Depth, AllRows) + index
      /\ horizontal_height_ =
           AllRows - Minimum(dst_rows + Depth, AllRows) - index
  BY <1>1, <1>2 DEF CountersOK
<1> HIDE DEF Depth, AllRows, rows_per_iteration, Reference
<1>7. /\ n \in 1..vertical_height_ /\ n = Minimum(vertical_height_, Depth)
      /\ vertical_height_' = height - dst_rows'
      /\ dst_rows' \in 0..height
      /\ vertical_height_' > 0 => n = Depth
  BY <1>1, <1>4, <1>6 DEF NextHeight, Minimum
<1> HIDE DEF n
<1>8. db_ptr_storage' \in {<<0, Depth>>, <<Depth, 0>>}
  BY <1>1, <1>6
<1>9. vertical_height_' > 0 =>
        /\ row_index' = Minimum(dst_rows' + Depth, AllRows)
        /\ horizontal_height_' = AllRows - row_index'
  BY <1>1, <1>4, <1>6, <1>7 DEF Minimum
<1>10. CountersOK'
  <2>1. Taken(row_index)' = Taken(row_index)
    BY <1>1 DEF Taken, params
  <2> HIDE DEF Minimum, Taken
  <2> QED
    BY <1>1, <1>3, <1>6, <1>7, <1>8, <1>9, <2>1 DEF CountersOK, params
<1>11. PointersOK'
  <2> HIDE DEF Slot
  <2> QED
    BY <1>1, <1>2, <1>3 DEF PointersOK
<1>12. BufferOK'
  <2> SUFFICES ASSUME vertical_height_' > 0,
                      NEW x \in 0..(row_index' - dst_rows') - 1
               PROVE  buffer_rows'[Slot(ReadHalf + x)'] = Wide(dst_rows + x)'
    BY DEF BufferOK
  <2>1. /\ n = Depth /\ dst_rows' = dst_rows + Depth
        /\ row_index \in Nat /\ row_index' = row_index
        /\ x \in Nat /\ x + Depth \in 0..(row_index - dst_rows) - 1 /\ x < Depth
    BY <1>1, <1>4, <1>6, <1>7, <1>9 DEF Minimum
  <2>2. buffer_rows[Slot(ReadHalf + (x + Depth))] = Wide(dst_rows + (x + Depth))
    BY <1>2, <1>6, <2>1 DEF BufferOK
  <2>3. Wide(dst_rows + x)' = Wide(dst_rows + (x + Depth))
    <3>1. dst_rows' + x = dst_rows + (x + Depth)
      BY <1>4, <2>1
    <3>2. Wide(dst_rows + x)' = Extended(Reference[pass], (dst_rows' + x) - top)
      BY <1>1, <1>3 DEF Wide, Extended, params
    <3> QED
      BY <3>1, <3>2 DEF Wide
  <2>4. Slot(ReadHalf + x)' = Slot(ReadHalf + (x + Depth))
    <3>1. \/ ReadHalf = 0 /\ ReadHalf' = Depth
          \/ ReadHalf = Depth /\ ReadHalf' = 0
      BY <1>1, <1>6 DEF ReadHalf
    <3>2. Slot(ReadHalf + x)' = IF ReadHalf' + x < 2 * Depth THEN ReadHalf' + x
                                ELSE (ReadHalf' + x) - 2 * Depth
      BY <1>3 DEF Slot
    <3> HIDE DEF ReadHalf
    <3> QED
      BY <1>4, <2>1, <3>1, <3>2 DEF Slot
  <2> QED
    BY <1>1, <2>2, <2>3, <2>4
<1>13. WideRowOK'
  BY <1>1, <1>2 DEF WideRowOK, params
<1>14. MorphologyTypeOK'
  <2>1. {db_ptr_storage'[1], db_ptr_storage'[2]} \subseteq {0, rows_per_iteration'}
    BY <1>3, <1>4, <1>8
  <2>2. /\ dst_rows' \in 0..height' /\ dst_rows' + vertical_height_' \in {0, height'}
    BY <1>1, <1>4, <1>7 DEF params
  <2>3. DOMAIN image' = 0..height' - 1
    BY <1>1, <1>2 DEF MorphologyTypeOK, params
  <2> QED
    BY <1>1, <1>2, <1>3, <2>1, <2>2, <2>3 DEF MorphologyTypeOK, params
<1>15. ASSUME NEW r \in 0..height - 1
       PROVE  image'[r] = IF r < dst_rows' THEN Reference[pass + 1][r]
                          ELSE IF pass = 0 /\ ~in_place THEN Garbage
                          ELSE Reference[pass][r]
  <2>1. DOMAIN image = 0..height - 1
    BY <1>2 DEF MorphologyTypeOK
  <2>2. image[r] = IF r < dst_rows THEN Reference[pass + 1][r]
                   ELSE IF pass = 0 /\ ~in_place THEN Garbage ELSE Reference[pass][r]
    BY <1>2, <1>4 DEF RowsCorrect, Working
  <2>3. CASE r \in dst_rows..dst_rows + n - 1
    <3>1. r >= dst_rows /\ r < dst_rows + n /\ r < dst_rows'
      BY <1>1, <1>4, <1>7, <2>3
    <3>2. ReducedRow(r - dst_rows) = Reference[pass + 1][r]
      BY <1>1, <3>1, ReducedIs DEF n
    <3> HIDE DEF ReducedRow
    <3> QED
      BY <1>1, <2>1, <2>3, <3>1, <3>2
  <2>4. CASE r \notin dst_rows..dst_rows + n - 1
    <3>1. r < dst_rows' <=> r < dst_rows
      BY <1>1, <1>4, <1>7, <2>4
    <3>2. image'[r] = image[r]
      BY <1>1, <2>1, <2>4
    <3> QED
      BY <2>2, <3>1, <3>2
  <2> QED
    BY <2>3, <2>4
<1>16. RowsCorrect'
  BY <1>1, <1>3, <1>4, <1>14, <1>15 DEF RowsCorrect, params
<1> QED
  BY <1>3, <1>5, <1>10, <1>11, <1>12, <1>13, <1>16 DEF MorphologyInv

(***************************************************************************)
(* The rows that dilate and erode have written are those of one more       *)
(* iteration and the others are what the pass still reads, at every point  *)
(* of every pass, in place or not (MorphologyWorkspace::process).          *)
(***************************************************************************)
THEOREM MorphologyCorrect == MorphologySpec => []RowsCorrect
<1>1. MorphologyInit => MorphologyInv
  BY MorphologyInitInv
<1>2. MorphologyInv /\ [MorphologyNext]_morphologyVars => MorphologyInv'
  <2> SUFFICES ASSUME MorphologyInv, [MorphologyNext]_morphologyVars
               PROVE  MorphologyInv'
    OBVIOUS
  <2>1. CASE MorphologyNext
    BY <2>1, CallStep, FinishStep, EmptyPassStep, StartPassStep, FillRowStep,
       FirstFilledStep, NextBlockStep, VerticalStep, EndPassStep DEF MorphologyNext
  <2>2. CASE UNCHANGED morphologyVars
    <3>1. /\ ParametersOK' /\ Depth' = Depth /\ AllRows' = AllRows
          /\ rows_per_iteration' = rows_per_iteration
          /\ Reference' = Reference
          /\ \A p : Slot(p)' = Slot(p)
          /\ \A e : Taken(e)' = Taken(e)
          /\ \A e : Wide(e)' = Wide(e)
      BY <2>2, CallKept DEF MorphologyInv, morphologyVars
    <3> HIDE DEF Depth, AllRows, rows_per_iteration, Reference
    <3>2. CallOK' /\ WideRowOK'
      BY <2>2 DEF MorphologyInv, CallOK, WideRowOK, Working, morphologyVars, params,
                  workspace
    <3>3. Taken(row_index)' = Taken(row_index) /\ ReadHalf' = ReadHalf
      BY <2>2 DEF Taken, ReadHalf, morphologyVars, params, workspace
    <3>4. CountersOK'
      <4> HIDE DEF Taken, Minimum
      <4> QED
        BY <2>2, <3>1, <3>3 DEF MorphologyInv, CountersOK, Working, morphologyVars,
                                params, workspace
    <3>5. PointersOK'
      <4> HIDE DEF Slot
      <4> QED
        BY <2>2, <3>1 DEF MorphologyInv, PointersOK, Working, morphologyVars, workspace
    <3>6. BufferOK'
      <4>1. \A x : /\ Slot(ReadHalf + x)' = Slot(ReadHalf + x)
                   /\ Wide(dst_rows + x)' = Wide(dst_rows + x)
        BY <2>2, <3>1, <3>3 DEF Slot, Wide, Extended, morphologyVars, params, workspace
      <4> HIDE DEF Slot, Wide, ReadHalf
      <4> QED
        BY <2>2, <4>1 DEF MorphologyInv, BufferOK, Working, morphologyVars, workspace
    <3>7. MorphologyTypeOK'
      BY <2>2, <3>1 DEF MorphologyInv, RowsCorrect, MorphologyTypeOK, morphologyVars,
                        params, workspace
    <3>8. RowsCorrect'
      BY <2>2, <3>1, <3>7 DEF MorphologyInv, RowsCorrect, morphologyVars, params,
                              workspace
    <3> QED
      BY <3>1, <3>2, <3>4, <3>5, <3>6, <3>8 DEF MorphologyInv
  <2> QED
    BY <2>1, <2>2
<1>3. MorphologyInv => RowsCorrect
  BY DEF MorphologyInv
<1> QED
  BY <1>1, <1>2, <1>3, PTL DEF MorphologySpec
=============================================================================
