--------------------------- MODULE ThreadedMinMax ---------------------------
(***************************************************************************)
(* parallel_min_max, parallel_min_max_with_sme and parallel_min_max_loc of *)
(* kleidicv_thread/src/kleidicv_thread.cpp.  Every batch of rows stores    *)
(* its result at the slot of its first row; the other slots keep the value *)
(* they were filled with, and the caller reduces all of them.              *)
(*                                                                         *)
(* ParallelBatches shows how rows become batches; here any batch may take  *)
(* any rows that are left, in any order.  The functions that the batches   *)
(* run are what they promise (Extrema); MinMaxLoc shows that for one of    *)
(* them.                                                                   *)
(***************************************************************************)
EXTENDS Extrema

CONSTANTS
  Reductions,   \* "min_max", "min_max_loc"
  Values,       \* values of pixels
  ImageWidths, ImageHeights,
  Padding,      \* src_stride - width, in elements
  Lowest, Highest,    \* of the element type
  Sources,      \* "valid", "null"
  Unchanged     \* what the caller has in *p_min and *p_max

ASSUME ThreadedMinMaxAssumption ==
  /\ Reductions \subseteq {"min_max", "min_max_loc"}
  /\ Lowest \in Int /\ Highest \in Int /\ Lowest <= Highest
  /\ Values \subseteq Lowest..Highest
  /\ ImageWidths \subseteq Nat /\ ImageHeights \subseteq Nat /\ Padding \in Nat
  /\ Sources \subseteq {"valid", "null"}
  /\ Unchanged \notin Lowest..Highest

VARIABLES
  reduction, width, height, source,
  pixels,        \* src: the rows of the image
  wanted,        \* the results the caller passed a pointer for
  slots,         \* min_values and max_values, or min_offsets and max_offsets
  rows,          \* rows no batch has taken yet
  return_val,
  extremes,      \* *p_min and *p_max
  state

inputs == <<reduction, width, height, source, pixels, wanted>>
threadedVars == <<inputs, slots, rows, return_val, extremes, state>>

src_stride == width + Padding

\* The pixels of the rows begin..end - 1, one row after the other.
PixelsOf(begin, end) ==
  [i \in 1..(end - begin) * width |->
     pixels[begin + ((i - 1) \div width)][((i - 1) % width) + 1]]

\* kleidicv_min_max and kleidicv_min_max_loc on such rows.
offset_for_index(index) == (index \div width) * src_stride + (index % width)

Computed(which, begin, end) ==
  IF reduction = "min_max"
    THEN Extreme(which, PixelsOf(begin, end))
    ELSE offset_for_index(FirstExtreme(which, PixelsOf(begin, end)))

FunctionError(begin, end) ==
  IF source = "null" THEN "NULL_POINTER"
  ELSE IF width = 0 \/ begin = end THEN "RANGE" ELSE "OK"
-----------------------------------------------------------------------------
ThreadedInit ==
  /\ reduction \in Reductions
  /\ width \in ImageWidths /\ height \in ImageHeights
  /\ source \in Sources
  /\ pixels \in [0..height - 1 -> [1..width -> Values]]
  /\ wanted \in SUBSET Which
  /\ slots = << >>
  /\ rows = 0..height - 1
  /\ return_val = "OK"
  /\ extremes = [which \in Which |-> Unchanged]
  /\ state = "call"

\* What allocate_and_fill fills the slots with.
Fill(which) ==
  IF reduction = "min_max_loc" THEN 0
  ELSE IF which = "min" THEN Highest ELSE Lowest

\* There is one slot even if there is no row.
Allocate ==
  LET value_count == IF height = 0 THEN 1 ELSE height
  IN  /\ state = "call"
      /\ slots' = [which \in wanted |-> [r \in 0..value_count - 1 |-> Fill(which)]]
      /\ state' = "batches"
      /\ UNCHANGED <<inputs, rows, return_val, extremes>>

AllocationFails ==
  /\ state = "call"
  /\ wanted # {}
  /\ return_val' = "ALLOCATION"
  /\ state' = "returned"
  /\ UNCHANGED <<inputs, slots, rows, extremes>>

\* callback: one batch of consecutive rows, (0, 0) for an image without rows.  Its
\* result goes to min_values.data() + begin.
Batch(begin, end) ==
  LET error == FunctionError(begin, end)
  IN  /\ state = "batches"
      /\ begin..end - 1 \subseteq rows
      /\ slots' = IF error # "OK" THEN slots
                  ELSE [which \in wanted |->
                          [slots[which] EXCEPT ![begin] =
                             Computed(which, begin, end)]]
      /\ rows' = rows \ (begin..end - 1)
      /\ return_val' = IF error # "OK" THEN error ELSE return_val
      /\ state' = IF rows' = {} THEN "reduce" ELSE "batches"
      /\ UNCHANGED <<inputs, extremes>>

\* reduce_min and reduce_max, over height slots.
Reduced(which) ==
  LET values == {Fill(which)} \cup {slots[which][i] : i \in 0..height - 1}
  IN  CHOOSE v \in values : \A w \in values : ~Better(which, w, v)

Pixel(offset) == pixels[offset \div src_stride][(offset % src_stride) + 1]

\* Mutant: offsets are not moved to the rows of their batch.
ReducedOffset_NoStride(which) ==
  LET better[i \in 0..height] ==
        IF i = 0 THEN 0
        ELSE LET offset == slots[which][i - 1]
             IN  IF Better(which, Pixel(offset), Pixel(better[i - 1]))
                   THEN offset ELSE better[i - 1]
  IN  better[height]

\* reduce_offset: the first of the best pixels the slots refer to.
ReducedOffset(which) ==
  LET better[i \in 0..height] ==
        IF i = 0 THEN 0
        ELSE LET offset == slots[which][i - 1] + (i - 1) * src_stride
             IN  IF Better(which, Pixel(offset), Pixel(better[i - 1]))
                   THEN offset ELSE better[i - 1]
  IN  better[height]

\* Pixels of an image without columns lie outside of it: any row may come out.
Outcomes(which) ==
  IF which \notin wanted THEN {extremes[which]}
  ELSE IF reduction = "min_max" THEN {Reduced(which)}
  ELSE IF width = 0 THEN {0} \cup {i * src_stride : i \in 0..height - 1}
  ELSE {ReducedOffset(which)}

\* The reductions come after the batches whatever those returned.  reduce_offset
\* reads pixels if there is any row, also when src is null.
Reduce ==
  /\ state = "reduce"
  /\ IF reduction = "min_max_loc" /\ source = "null" /\ wanted # {} /\ height > 0
       THEN /\ state' = "null dereference"
            /\ UNCHANGED extremes
       ELSE /\ state' = "returned"
            /\ \E min \in Outcomes("min"), max \in Outcomes("max") :
                 extremes' = [min |-> min, max |-> max]
  /\ UNCHANGED <<inputs, slots, rows, return_val>>

ThreadedNext ==
  \/ Allocate \/ AllocationFails \/ Reduce
  \/ \E begin \in 0..height, end \in 0..height :
       /\ begin < end \/ (begin = 0 /\ height = 0)
       /\ Batch(begin, end)

ThreadedSpec == ThreadedInit /\ [][ThreadedNext]_threadedVars
-----------------------------------------------------------------------------
ThreadedTypeOK ==
  /\ state \in {"call", "batches", "reduce", "returned", "null dereference"}
  /\ return_val \in {"OK", "RANGE", "NULL_POINTER", "ALLOCATION"}
  /\ rows \subseteq 0..height - 1
  /\ \A which \in DOMAIN slots :
       reduction = "min_max" =>
         \A i \in DOMAIN slots[which] : slots[which][i] \in Lowest..Highest

(***************************************************************************)
(* However the rows are cut into batches and in whatever order those end,  *)
(* the threaded call returns what one call on the whole image returns: for *)
(* min_max_loc also the same one of several equal pixels, although the     *)
(* slots no batch has stored to refer to pixels as well.  Every slot that  *)
(* is reduced has a value of the element type.                             *)
(***************************************************************************)
SameAsSingleThreaded ==
  /\ ThreadedTypeOK
  /\ state = "returned" /\ return_val = "OK" =>
       \A which \in wanted : extremes[which] = Computed(which, 0, height)

(***************************************************************************)
(* The single-threaded functions return KLEIDICV_ERROR_NULL_POINTER when   *)
(* there is no source (test_min_max.cpp).                                  *)
(***************************************************************************)
NullSourceRefused == state # "null dereference"
=============================================================================
