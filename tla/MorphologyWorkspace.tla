------------------------ MODULE MorphologyWorkspace ------------------------
(***************************************************************************)
(* Dilate and erode: kleidicv/include/kleidicv/morphology/workspace.h and  *)
(* the operations of kleidicv/src/morphology that it drives.  Rows of the  *)
(* source are widened with a border, reduced horizontally into one half of *)
(* a double buffer, and the vertical operation reduces the other half into *)
(* the destination.  From the second iteration on, and from the first when *)
(* the caller passes the same image twice, the source is the destination.  *)
(*                                                                         *)
(* Columns are abstracted: a wide row is its left border, its middle and   *)
(* its right border, and the value of a pixel row is the term that         *)
(* computes it, so that two rows are equal only if they were computed from *)
(* the same rows in the same way.                                          *)
(***************************************************************************)
EXTENDS Integers

CONSTANTS
  Heights,         \* image heights
  KernelHeights,   \* kernel.height()
  MinRows,         \* rows_per_iteration is at least this (32 in the code)
  MaxIterations,   \* bound: iterations of one call
  Border,          \* the constant border value
  Garbage          \* contents of memory nothing has been stored to

ASSUME MorphologyAssumption ==
  /\ Heights \subseteq Nat
  /\ KernelHeights \subseteq Nat \ {0}
  /\ MinRows \in Nat \ {0}
  /\ MaxIterations \in Nat
  /\ Garbage \notin Nat

VARIABLES
  height, kernel_height,
  top,                 \* margin_.top(): the anchor's y coordinate
  border_type,
  in_place,            \* the caller passed the same image as src and dst
  iterations,
  step,
  error,               \* what the call returned
  pass,                \* iterations of the operation completed
  image,               \* rows of dst
  ptr_storage,         \* DoubleBufferedIndirectRows: buffer row per pointer
  db_ptr_storage,      \* offsets of the halves to write and to read
  buffer_rows,
  wide_rows,           \* the one wide row
  row_index, src_rows, dst_rows,
  horizontal_height_, vertical_height_,
  horizontal_height,   \* rows the current for loop fills
  index,
  first                \* TRUE in [Step 1], before the while loop

params == <<height, kernel_height, top, border_type, in_place, iterations>>
workspace == <<ptr_storage, db_ptr_storage, buffer_rows, wide_rows, row_index, src_rows,
               dst_rows, horizontal_height_, vertical_height_, horizontal_height,
               index, first>>
morphologyVars == <<params, step, error, pass, image, workspace>>

Minimum(a, b) == IF a < b THEN a ELSE b
-----------------------------------------------------------------------------
\* create: std::max(2 * kernel.height(), 32)
rows_per_iteration == IF 2 * kernel_height > MinRows THEN 2 * kernel_height ELSE MinRows

bottom == kernel_height - top - 1

GarbageRow == [left |-> Garbage, mid |-> Garbage, right |-> Garbage]

\* Any call: the rows of src are the terms <<0>>, <<1>>, ...
MorphologyInit ==
  /\ height \in Heights
  /\ kernel_height \in KernelHeights
  /\ top \in 0..kernel_height    \* kernel_height itself is out of range
  /\ border_type \in {"CONSTANT", "REPLICATE", "OTHER"}
  /\ in_place \in BOOLEAN
  /\ iterations \in 0..MaxIterations
  /\ step = "call"
  /\ error = "OK"
  /\ pass = 0
  /\ image = [r \in 0..height - 1 |-> IF in_place THEN <<r>> ELSE Garbage]
  /\ ptr_storage = << >>
  /\ db_ptr_storage = <<0, 0>>
  /\ buffer_rows = [b \in 0..2 * rows_per_iteration - 1 |-> GarbageRow]
  /\ wide_rows = GarbageRow
  /\ row_index = 0 /\ src_rows = 0 /\ dst_rows = 0
  /\ horizontal_height_ = 0 /\ vertical_height_ = 0
  /\ horizontal_height = 0 /\ index = 0
  /\ first = TRUE

\* The checks of dilate and erode, morphology_is_implemented, and the checks and
\* the allocation of create.  Pointers are valid: null ones are refused first.
Errors ==
  IF border_type = "OTHER" \/ height < kernel_height - 1 THEN {"NOT_IMPLEMENTED"}
  ELSE IF top >= kernel_height THEN {"RANGE"}
  ELSE {"OK", "ALLOCATION"}

Call ==
  /\ step = "call"
  /\ error' \in Errors
  /\ step' = IF error' = "OK" THEN "pass" ELSE "returned"
  /\ UNCHANGED <<params, pass, image, workspace>>

\* for (size_t i = 0; i < iterations; ++i) workspace.process(...)
Finish ==
  /\ step = "pass"
  /\ pass = iterations
  /\ step' = "returned"
  /\ UNCHANGED <<params, error, pass, image, workspace>>

\* process returns at once for an empty image.
EmptyPass ==
  /\ step = "pass"
  /\ pass < iterations
  /\ height = 0
  /\ pass' = pass + 1
  /\ UNCHANGED <<params, step, error, image, workspace>>

\* The constructor stores four times depth pointers: the second pair of halves
\* points to the same rows as the first.
PointerTable(depth) == [p \in 0..4 * depth - 1 |-> p % (2 * depth)]

\* get_next_horizontal_height and get_next_vertical_height
NextHeight(remaining) == Minimum(remaining, rows_per_iteration)

\* process up to [Step 1]: the double buffer and the counters.
StartPass ==
  LET all_rows == top + height + bottom
  IN  /\ step = "pass"
      /\ pass < iterations
      /\ height > 0
      /\ ptr_storage' = PointerTable(rows_per_iteration)
      /\ db_ptr_storage' = <<0, rows_per_iteration>>
      /\ horizontal_height' = NextHeight(all_rows)
      /\ horizontal_height_' = all_rows - NextHeight(all_rows)
      /\ vertical_height_' = height
      /\ row_index' = 0 /\ src_rows' = 0 /\ dst_rows' = 0
      /\ index' = 0
      /\ first' = TRUE
      /\ step' = "fill"
      /\ UNCHANGED <<params, error, pass, image, buffer_rows, wide_rows>>

\* Row r of the source of this pass.
SourceRow(r) ==
  IF r \notin 0..height - 1 THEN Garbage
  ELSE IF pass = 0 /\ ~in_place THEN <<r>> ELSE image[r]

InImage == row_index >= top /\ row_index < top + height

\* Mutant: below the image REPLICATE goes on reading where the source ended.
CurrentRow_PastTheEnd ==
  IF InImage THEN SourceRow(src_rows)
  ELSE IF border_type = "CONSTANT" THEN Border
  ELSE IF row_index < top THEN SourceRow(0) ELSE SourceRow(src_rows)

\* The source row the border type puts into row_index: the source rows in
\* order, and for REPLICATE the first and the last one outside of the image.
CurrentRow ==
  IF InImage THEN SourceRow(src_rows)
  ELSE IF border_type = "CONSTANT" THEN Border
  ELSE IF row_index < top THEN SourceRow(0) ELSE SourceRow(height - 1)

\* The wide row is kept from row to row: after [Step 1] the constant left and
\* right borders are not stored again.
FilledWideRow ==
  LET row == CurrentRow
      sides == IF border_type = "CONSTANT" THEN Border ELSE row
  IN  IF border_type = "CONSTANT" /\ ~first
        THEN [wide_rows EXCEPT !.mid = row]
        ELSE [left |-> sides, mid |-> row, right |-> sides]

\* One round of the for loops: fill the wide row and reduce it into a buffer
\* row.  Pointers stored past three times the depth lie in the memory of the
\* buffer rows and are lost.
FillRow ==
  /\ step = "fill"
  /\ index < horizontal_height
  /\ wide_rows' = FilledWideRow
  /\ buffer_rows' = [buffer_rows EXCEPT
                        ![ptr_storage[db_ptr_storage[1] + index]] = FilledWideRow]
  /\ ptr_storage' = [p \in DOMAIN ptr_storage |->
                       IF p >= 3 * rows_per_iteration THEN Garbage ELSE ptr_storage[p]]
  /\ src_rows' = IF InImage THEN src_rows + 1 ELSE src_rows
  /\ row_index' = row_index + 1
  /\ index' = index + 1
  /\ UNCHANGED <<params, step, error, pass, image, db_ptr_storage, dst_rows,
                 horizontal_height_, vertical_height_, horizontal_height, first>>

Swap == db_ptr_storage' = <<db_ptr_storage[2], db_ptr_storage[1]>>

\* The end of [Step 1].
FirstFilled ==
  /\ step = "fill"
  /\ index = horizontal_height
  /\ first
  /\ Swap
  /\ first' = FALSE
  /\ step' = "loop"
  /\ UNCHANGED <<params, error, pass, image, ptr_storage, buffer_rows, wide_rows, row_index,
                 src_rows, dst_rows, horizontal_height_, vertical_height_,
                 horizontal_height, index>>

\* while (vertical_height_): the next rows are filled ...
NextBlock ==
  /\ step = "loop"
  /\ vertical_height_ > 0
  /\ horizontal_height' = NextHeight(horizontal_height_)
  /\ horizontal_height_' = horizontal_height_ - NextHeight(horizontal_height_)
  /\ index' = 0
  /\ step' = "fill"
  /\ UNCHANGED <<params, error, pass, image, ptr_storage, db_ptr_storage, buffer_rows, wide_rows,
                 row_index, src_rows, dst_rows, vertical_height_, first>>

\* The row behind a pointer of the half that may be read.
ReadAt(row) ==
  LET p == ptr_storage[db_ptr_storage[2] + row]
  IN  IF p = Garbage THEN GarbageRow ELSE buffer_rows[p]

\* VerticalOp: a row of the destination is reduced from kernel_height rows.
ReducedRow(row) == [k \in 0..kernel_height - 1 |-> ReadAt(row + k)]

\* Mutant: get_next_vertical_height does not count down.
Vertical_NoCount ==
  /\ step = "fill"
  /\ index = horizontal_height
  /\ ~first
  /\ Swap
  /\ step' = "loop"
  /\ UNCHANGED <<params, error, pass, image, ptr_storage, buffer_rows, wide_rows, row_index,
                 src_rows, dst_rows, horizontal_height_, vertical_height_,
                 horizontal_height, index, first>>

\* ... and the rows of the other half are reduced into the destination.
Vertical ==
  LET n == NextHeight(vertical_height_)
  IN  /\ step = "fill"
      /\ index = horizontal_height
      /\ ~first
      /\ image' = [r \in DOMAIN image |->
                     IF r \in dst_rows..dst_rows + n - 1 THEN ReducedRow(r - dst_rows)
                                                         ELSE image[r]]
      /\ vertical_height_' = vertical_height_ - n
      /\ dst_rows' = dst_rows + n
      /\ Swap
      /\ step' = "loop"
      /\ UNCHANGED <<params, error, pass, ptr_storage, buffer_rows, wide_rows, row_index,
                     src_rows, horizontal_height_, horizontal_height, index, first>>

EndPass ==
  /\ step = "loop"
  /\ vertical_height_ = 0
  /\ pass' = pass + 1
  /\ step' = "pass"
  /\ UNCHANGED <<params, error, image, workspace>>

MorphologyNext ==
  \/ Call \/ Finish \/ EmptyPass \/ StartPass
  \/ FillRow \/ FirstFilled \/ NextBlock \/ Vertical \/ EndPass

MorphologySpec == MorphologyInit /\ [][MorphologyNext]_morphologyVars
-----------------------------------------------------------------------------
MorphologyTypeOK ==
  /\ step \in {"call", "pass", "fill", "loop", "returned"}
  /\ error \in {"OK", "NOT_IMPLEMENTED", "RANGE", "ALLOCATION"}
  /\ pass \in 0..iterations
  /\ DOMAIN image = 0..height - 1
  /\ DOMAIN buffer_rows = 0..2 * rows_per_iteration - 1
  /\ {db_ptr_storage[1], db_ptr_storage[2]} \subseteq {0, rows_per_iteration}
  /\ horizontal_height \in 0..rows_per_iteration
  /\ index \in 0..horizontal_height
  /\ src_rows \in 0..height
  /\ dst_rows \in 0..height
  /\ dst_rows + vertical_height_ \in {0, height}
  /\ horizontal_height_ \in Nat /\ row_index \in Nat /\ first \in BOOLEAN

(***************************************************************************)
(* The definition of the operation, by rows: row r is reduced from the     *)
(* rows r - top .. r + bottom of the source, extended by the border.       *)
(***************************************************************************)
Extended(rows, r) ==
  LET clamped == IF r < 0 THEN 0 ELSE IF r >= height THEN height - 1 ELSE r
      row == IF r = clamped \/ border_type = "REPLICATE" THEN rows[clamped] ELSE Border
      sides == IF border_type = "CONSTANT" THEN Border ELSE row
  IN  [left |-> sides, mid |-> row, right |-> sides]

Reduced(rows) ==
  [r \in 0..height - 1 |-> [k \in 0..kernel_height - 1 |-> Extended(rows, r + k - top)]]

Reference[i \in 0..MaxIterations] ==
  IF i = 0 THEN [r \in 0..height - 1 |-> <<r>>] ELSE Reduced(Reference[i - 1])

(***************************************************************************)
(* At every point of every pass the rows already written hold the result   *)
(* of one more iteration and the others still hold what the pass reads:    *)
(* the destination may be the source because the double buffer is always   *)
(* a block ahead of the rows it overwrites.  Before the first pass the     *)
(* destination is what the caller passed.  Counters stay within what was   *)
(* allocated.                                                              *)
(***************************************************************************)
RowsCorrect ==
  /\ MorphologyTypeOK
  /\ \A r \in 0..height - 1 :
       LET done == IF step \in {"fill", "loop"} /\ r < dst_rows THEN pass + 1 ELSE pass
       IN  image[r] = IF done = 0 /\ ~in_place THEN Garbage ELSE Reference[done][r]

(***************************************************************************)
(* Every call returns: the two loops over the remaining heights use up     *)
(* their counters together, for every height, kernel and anchor.           *)
(***************************************************************************)
CallReturns == <>(step = "returned" /\ (error = "OK" => pass = iterations))
=============================================================================
