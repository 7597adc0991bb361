------------------------------ MODULE Borders ------------------------------
(***************************************************************************)
(* What lies outside an image.                                             *)
(*                                                                         *)
(* FixedBorderInfo (kleidicv/include/kleidicv/workspace/border_3x3.h to    *)
(* border_21x21.h): the offsets, from a row or column, of the rows or      *)
(* columns a kernel taps there.  Each header writes out one table for each *)
(* border type and column of the margin; the tables follow one rule, which *)
(* is stated here, and a column past the last one a header tells apart     *)
(* takes the last one's table.                                             *)
(*                                                                         *)
(* border_generic_neon.h: the replicated border of Gaussian blurs with a   *)
(* kernel of any size.  Eight elements that start outside the row are      *)
(* looked up in the first or last eight elements of the row, through an    *)
(* index vector that is put together from two 64-bit integers by shifts of *)
(* whole bytes.                                                            *)
(*                                                                         *)
(* median_blur_border_handling.h: the index of a row or column itself.     *)
(***************************************************************************)
EXTENDS Integers

BorderTypes == {"REPLICATE", "REFLECT", "WRAP", "REVERSE"}

\* get_fixed_border_type: CONSTANT, TRANSPARENT and NONE have none.
HasFixedBorder(border_type) == border_type \in BorderTypes

Lesser(a, b) == IF a < b THEN a ELSE b
Larger(a, b) == IF a < b THEN b ELSE a
-----------------------------------------------------------------------------
\* The offsets of a table are numbered c0, c1, ... as in the headers.
offsets_without_border(margin) == [k \in 0..2 * margin |-> k - margin]

\* The table of the column that many columns from the left, of n.
LeftTable(type, margin, n, column) ==
  [k \in 0..2 * margin |->
     LET o == k - margin
     IN  CASE o >= -column -> o
           [] o < -column /\ type = "REPLICATE" -> -column
           [] o < -column /\ type = "REFLECT" -> -o - 2 * column - 1
           [] o < -column /\ type = "WRAP" -> o + n
           [] o < -column /\ type = "REVERSE" -> -o - 2 * column]

\* The table of a column with that many columns to its right.
RightTable(type, margin, n, right) ==
  [k \in 0..2 * margin |->
     LET o == k - margin
     IN  CASE o <= right -> o
           [] o > right /\ type = "REPLICATE" -> right
           [] o > right /\ type = "REFLECT" -> 2 * right + 1 - o
           [] o > right /\ type = "WRAP" -> o - n
           [] o > right /\ type = "REVERSE" -> 2 * right - o]

\* offsets_with_left_border and offsets_with_right_border.
Left_3x3(type, n, column) == LeftTable(type, 1, n, 0)
Left_5x5(type, n, column) == LeftTable(type, 2, n, Lesser(column, 1))
Left_7x7(type, n, column) == LeftTable(type, 3, n, Lesser(column, 2))
Left_9x9(type, n, column) == LeftTable(type, 4, n, Lesser(column, 3))
Left_15x15(type, n, column) == LeftTable(type, 7, n, Lesser(column, 6))
Left_21x21(type, n, column) == LeftTable(type, 10, n, Lesser(column, 9))

\* Columns that are none of the last few have the last one's table.
OfLast(margin, n, column) ==
  IF n - 1 - column < margin THEN n - 1 - column ELSE 0

Right_3x3(type, n, column) == RightTable(type, 1, n, 0)
Right_5x5(type, n, column) == RightTable(type, 2, n, OfLast(2, n, column))
Right_7x7(type, n, column) == RightTable(type, 3, n, OfLast(3, n, column))
Right_9x9(type, n, column) == RightTable(type, 4, n, OfLast(4, n, column))
Right_15x15(type, n, column) == RightTable(type, 7, n, OfLast(7, n, column))
Right_21x21(type, n, column) == RightTable(type, 10, n, OfLast(10, n, column))

offsets_with_left_border(margin, type, n, column) ==
  CASE margin = 1 -> Left_3x3(type, n, column)
    [] margin = 2 -> Left_5x5(type, n, column)
    [] margin = 3 -> Left_7x7(type, n, column)
    [] margin = 4 -> Left_9x9(type, n, column)
    [] margin = 7 -> Left_15x15(type, n, column)
    [] margin = 10 -> Left_21x21(type, n, column)

offsets_with_right_border(margin, type, n, column) ==
  CASE margin = 1 -> Right_3x3(type, n, column)
    [] margin = 2 -> Right_5x5(type, n, column)
    [] margin = 3 -> Right_7x7(type, n, column)
    [] margin = 4 -> Right_9x9(type, n, column)
    [] margin = 7 -> Right_15x15(type, n, column)
    [] margin = 10 -> Right_21x21(type, n, column)

\* offsets_with_border: which side a row's table is taken from.
InLeftBorder(margin, row) ==
  CASE margin = 1 -> row = 0
    [] margin = 2 -> row <= 1
    [] margin = 3 -> row <= 2
    [] margin = 4 -> row <= 3
    [] margin = 7 -> row <= 6
    [] margin = 10 -> row < 10

InRightBorder(margin, n, row) ==
  CASE margin = 1 -> row = n - 1
    [] margin = 2 -> row >= n - 2
    [] margin = 3 -> row >= n - 3
    [] margin = 4 -> row >= n - 4
    [] margin = 7 -> row >= n - 7
    [] margin = 10 -> row >= n - 10

offsets_with_border(margin, type, n, row) ==
  IF InLeftBorder(margin, row)
    THEN offsets_with_left_border(margin, type, n, row)
  ELSE IF InRightBorder(margin, n, row)
    THEN offsets_with_right_border(margin, type, n, row)
  ELSE offsets_without_border(margin)
-----------------------------------------------------------------------------
Byte == 0..7

\* Shifts of a 64-bit integer, given as its bytes, by a number of bytes, and
\* the bitwise or of two integers no byte of which is set in both.
ShiftLeft(v, n) == [j \in Byte |-> IF j - n \in Byte THEN v[j - n] ELSE 0]
ShiftRight(v, n) == [j \in Byte |-> IF j + n \in Byte THEN v[j + n] ELSE 0]
LowBytes(v, n) == [j \in Byte |-> IF j < n THEN v[j] ELSE 0]
Or(v, w) == [j \in Byte |-> v[j] + w[j]]

\* The constructor: the i-th value shifted in ends in byte 7 - i.
data_indices == [j \in Byte |-> j]
border_indices_left(channels) ==
  [j \in Byte |-> ((channels * 8) - 1 - (7 - j)) % channels]
border_indices_right(channels) == [j \in Byte |-> (j % channels) + 8 - channels]

\* The eight elements of the row that are shown from start_offset < 0 on.
load_left(channels, start_offset) ==
  LET border == border_indices_left(channels)
      shift == (-start_offset - 8) % channels
  IN  IF start_offset > -8
        THEN Or(ShiftRight(border, 8 + start_offset),
                ShiftLeft(data_indices, -start_offset))
        ELSE Or(LowBytes(ShiftRight(border, channels - shift), shift),
                ShiftLeft(border, shift))

\* Likewise from start_offset > length - 8 on, in a row of length elements.
load_right(channels, length, start_offset) ==
  LET border == border_indices_right(channels)
      past == start_offset - (length - 8)
      shift == (start_offset - length) % channels
      indices ==
        IF past < 8
          THEN Or(ShiftRight(data_indices, past), ShiftLeft(border, 8 - past))
        ELSE IF shift = 0 THEN border
        ELSE Or(ShiftLeft(ShiftRight(border, channels - shift), 8 - shift),
                ShiftRight(border, shift))
  IN  [j \in Byte |-> length - 8 + indices[j]]

get_column(width, raw_column) ==
  IF raw_column < 0 THEN 0
  ELSE IF raw_column > width - 1 THEN width - 1 ELSE raw_column

get_row(height, raw_row) ==
  IF raw_row < 0 THEN 0 ELSE IF raw_row > height - 1 THEN height - 1 ELSE raw_row
-----------------------------------------------------------------------------
\* get_physical_index of the histogram medians.
get_physical_index(index, limit, border_type) ==
  IF index >= 0 /\ index < limit THEN index
  ELSE CASE border_type = "REFLECT" ->
              IF index < 0 THEN -index - 1 ELSE 2 * limit - index - 1
         [] border_type = "WRAP" ->
              IF index < 0 THEN limit + index ELSE index - limit
         [] border_type = "REVERSE" ->
              IF index < 0 THEN Lesser(-index, limit - 1) ELSE 2 * limit - index - 2
         [] border_type = "REPLICATE" -> Larger(0, Lesser(index, limit - 1))
-----------------------------------------------------------------------------
\* What a border type means: the row or column of n shown at place i.
Shown(type, n, i) ==
  IF i \in 0..n - 1 THEN i
  ELSE CASE type = "REPLICATE" -> IF i < 0 THEN 0 ELSE n - 1
         [] type = "REFLECT" -> IF i < 0 THEN -1 - i ELSE 2 * n - 1 - i
         [] type = "WRAP" -> IF i < 0 THEN n + i ELSE i - n
         [] type = "REVERSE" -> IF i < 0 THEN -i ELSE 2 * n - 2 - i
=============================================================================
