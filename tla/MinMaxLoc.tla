----------------------------- MODULE MinMaxLoc -----------------------------
(***************************************************************************)
(* class MinMaxLoc of kleidicv/src/analysis/min_max_loc_neon.cpp, driven   *)
(* by RowBasedBlockOperation.  A row is cut into blocks of vectors and a   *)
(* tail of scalars.  Within a block every lane remembers the number of the *)
(* vector that brought its best value; this number has to fit the element  *)
(* type, which is why a block is limited to max_vectors_per_block vectors. *)
(*                                                                         *)
(* The minimum and the maximum are found by the same steps: the members    *)
(* vmin_x_ and vmax_x_ of the class are best[which].x here.                *)
(***************************************************************************)
EXTENDS Extrema

CONSTANTS
  num_lanes,
  ScalarMax,    \* std::numeric_limits<ScalarType>::max(); the lowest is 0
  Pixels,       \* values of pixels
  Shapes        \* width, height and stride of images

ASSUME MinMaxLocAssumption ==
  /\ num_lanes \in Nat \ {0}
  /\ ScalarMax \in Nat /\ ScalarMax >= 3
  /\ Pixels \subseteq 0..ScalarMax
  /\ Shapes \subseteq [width : Nat, height : Nat, stride : Nat]
  /\ \A s \in Shapes : s.stride >= s.width

VARIABLES
  shape, image,         \* src: the sequence of its pixels by rows
  columns, rows_left,   \* the rectangle of zip_rows and the rows left of it
  elements,             \* elements left of the current row
  vectors_in_block, vectors,    \* of the current block: all and done
  vrunning_offset_, running_index_,
  best,
  at

locationVars == <<shape, image, columns, rows_left, elements, vectors_in_block,
                  vectors, vrunning_offset_, running_index_, best, at>>

Lanes == 0..num_lanes - 1

AllLanes(v) == [l \in Lanes |-> v]
-----------------------------------------------------------------------------
\* The value every pixel is better than or equal to.
Neutral(which) == IF which = "min" THEN ScalarMax ELSE 0

LocationInit ==
  /\ shape \in Shapes
  /\ image \in [1..shape.width * shape.height -> Pixels]
  /\ columns = 0 /\ rows_left = 0 /\ elements = 0
  /\ vectors_in_block = 0 /\ vectors = 0
  /\ vrunning_offset_ = 1
  /\ running_index_ = 0
  /\ best = [which \in Which |->
               [new |-> AllLanes(Neutral(which)), offsets_new |-> AllLanes(0),
                v |-> AllLanes(Neutral(which)), offsets |-> AllLanes(0),
                block_index |-> 0, vector |-> Neutral(which),
                scalar |-> Neutral(which), scalar_index |-> 0]]
  /\ at = "call"

\* min_max_loc refuses an empty image.
Refuse ==
  /\ at = "call"
  /\ shape.width = 0 \/ shape.height = 0
  /\ at' = "range"
  /\ UNCHANGED <<shape, image, columns, rows_left, elements, vectors_in_block,
                 vectors, vrunning_offset_, running_index_, best>>

\* zip_rows makes one row of a continuous image.
ZipRows ==
  LET continuous == shape.stride = shape.width
  IN  /\ at = "call"
      /\ shape.width > 0 /\ shape.height > 0
      /\ columns' = IF continuous THEN shape.width * shape.height ELSE shape.width
      /\ rows_left' = IF continuous THEN 1 ELSE shape.height
      /\ elements' = columns'
      /\ at' = "row"
      /\ UNCHANGED <<shape, image, vectors_in_block, vectors, vrunning_offset_,
                     running_index_, best>>

max_vectors_per_block == ScalarMax - 1

\* process_blocks<2> takes an even number of vectors as long as there are two,
\* process_blocks<1> the one that is left.
BlockVectors ==
  LET factor == IF elements >= 2 * num_lanes THEN 2 ELSE 1
      remaining == (elements \div (factor * num_lanes)) * factor
      limit == (max_vectors_per_block \div factor) * factor
  IN  IF limit < remaining THEN limit ELSE remaining

StartBlock ==
  /\ at = "row"
  /\ elements >= num_lanes
  /\ vectors_in_block' = BlockVectors
  /\ vectors' = 0
  /\ at' = "block"
  /\ UNCHANGED <<shape, image, columns, rows_left, elements, vrunning_offset_,
                 running_index_, best>>

\* The elements before the ones that are left, over all rows.
Position == Len(image) - (rows_left - 1) * columns - elements

vector_path ==
  LET pixel(l) == image[Position + l + 1]
      updated(which, b) ==
        [b EXCEPT
           !.offsets_new = [l \in Lanes |-> IF Better(which, pixel(l), b.new[l])
                                              THEN vrunning_offset_ ELSE @[l]],
           !.new = [l \in Lanes |-> IF Better(which, pixel(l), @[l])
                                      THEN pixel(l) ELSE @[l]]]
  IN  /\ at = "block"
      /\ vectors < vectors_in_block
      /\ best' = [which \in Which |-> updated(which, best[which])]
      /\ vrunning_offset_' = (vrunning_offset_ + 1) % (ScalarMax + 1)
      /\ vectors' = vectors + 1
      /\ elements' = elements - num_lanes
      /\ UNCHANGED <<shape, image, columns, rows_left, vectors_in_block,
                     running_index_, at>>

\* The horizontal minimum or maximum of a vector.
Across(which, v) ==
  CHOOSE x \in {v[l] : l \in Lanes} : \A l \in Lanes : ~Better(which, v[l], x)

\* Mutant: the next block starts from the best value of each lane.
Merge_KeepLanes(which, b) ==
  LET updated == {l \in Lanes : b.offsets_new[l] # 0}
  IN  [b EXCEPT
         !.vector = Across(which, b.new),
         !.block_index = IF updated # {} THEN running_index_ ELSE @,
         !.offsets = [l \in Lanes |-> IF l \in updated THEN b.offsets_new[l] ELSE @[l]],
         !.v = [l \in Lanes |-> IF l \in updated THEN b.new[l] ELSE @[l]],
         !.offsets_new = AllLanes(0)]

\* The lanes the block has improved are copied to the result so far, and the
\* next block only looks for values better than all of them.
Merge(which, b) ==
  LET updated == {l \in Lanes : b.offsets_new[l] # 0}
  IN  [b EXCEPT
         !.vector = Across(which, b.new),
         !.block_index = IF updated # {} THEN running_index_ ELSE @,
         !.offsets = [l \in Lanes |-> IF l \in updated THEN b.offsets_new[l] ELSE @[l]],
         !.v = [l \in Lanes |-> IF l \in updated THEN b.new[l] ELSE @[l]],
         !.new = AllLanes(Across(which, b.new)),
         !.offsets_new = AllLanes(0)]

on_block_finished ==
  /\ at = "block"
  /\ vectors = vectors_in_block
  /\ best' = [which \in Which |-> Merge(which, best[which])]
  /\ running_index_' = running_index_ + vectors_in_block * num_lanes
  /\ vrunning_offset_' = 1
  /\ at' = "row"
  /\ UNCHANGED <<shape, image, columns, rows_left, elements, vectors_in_block,
                 vectors>>

scalar_path ==
  LET pixel == image[Position + 1]
      updated(which, b) ==
        IF Better(which, pixel, b.scalar)
          THEN [b EXCEPT !.scalar = pixel, !.scalar_index = running_index_]
          ELSE b
  IN  /\ at = "row"
      /\ elements < num_lanes
      /\ elements > 0
      /\ best' = [which \in Which |-> updated(which, best[which])]
      /\ running_index_' = running_index_ + 1
      /\ elements' = elements - 1
      /\ UNCHANGED <<shape, image, columns, rows_left, vectors_in_block,
                     vectors, vrunning_offset_, at>>

NextRow ==
  /\ at = "row"
  /\ elements = 0
  /\ rows_left' = rows_left - 1
  /\ elements' = IF rows_left > 1 THEN columns ELSE 0
  /\ at' = IF rows_left > 1 THEN "row" ELSE "returned"
  /\ UNCHANGED <<shape, image, columns, vectors_in_block, vectors, vrunning_offset_,
                 running_index_, best>>

LocationNext ==
  \/ Refuse \/ ZipRows \/ StartBlock \/ vector_path \/ on_block_finished
  \/ scalar_path \/ NextRow

LocationSpec == LocationInit /\ [][LocationNext]_locationVars
-----------------------------------------------------------------------------
\* min_index and max_index: of the lanes that hold the best value, the one with
\* the earliest vector and of those the first.  Offset 0 is a lane no vector has
\* improved.
VectorIndex(b, which) ==
  LET selected == {l \in Lanes : ~Better(which, b.new[l], b.v[l])}
      earliest == CHOOSE l \in selected :
                    \A k \in selected : \/ b.offsets[l] < b.offsets[k]
                                        \/ b.offsets[l] = b.offsets[k] /\ l =< k
  IN  [offset |-> b.offsets[earliest],
       index |-> b.block_index + (b.offsets[earliest] - 1) * num_lanes + earliest]

\* min_index, max_index
Index(which) ==
  LET b == best[which]
      found == VectorIndex(b, which)
  IN  IF Better(which, b.scalar, b.vector) \/ found.offset = 0
        THEN b.scalar_index
      ELSE IF Better(which, b.vector, b.scalar) \/ found.index < b.scalar_index
        THEN found.index ELSE b.scalar_index
-----------------------------------------------------------------------------
LocationTypeOK ==
  /\ at \in {"call", "row", "block", "range", "returned"}
  /\ elements \in 0..columns
  /\ vectors \in 0..vectors_in_block
  /\ vrunning_offset_ \in 1..ScalarMax
  /\ running_index_ \in 0..Len(image)
  /\ \A which \in Which :
       /\ best[which].offsets_new \in [Lanes -> 0..max_vectors_per_block]
       /\ best[which].offsets \in [Lanes -> 0..max_vectors_per_block]
       /\ best[which].new \in [Lanes -> 0..ScalarMax]
       /\ best[which].v \in [Lanes -> 0..ScalarMax]

(***************************************************************************)
(* min_max_loc finds the first minimum and the first maximum of the image, *)
(* wherever blocks and rows end and whether a vector or a scalar step met  *)
(* the value first: no lane's offset is ever combined with the index of a  *)
(* block it does not belong to, and the numbers of vectors stay in the     *)
(* range of the element type.                                              *)
(***************************************************************************)
FindsFirst ==
  /\ LocationTypeOK
  /\ at = "returned" =>
       \A which \in Which : Index(which) = FirstExtreme(which, image)
=============================================================================
