------------------------------ MODULE Extrema ------------------------------
(***************************************************************************)
(* What kleidicv_min_max and kleidicv_min_max_loc promise: the extreme     *)
(* values of an image and the first place, by rows, where each is found.   *)
(* An image is the sequence of its pixels by rows; indices are from 0.     *)
(***************************************************************************)
EXTENDS Integers, Sequences

Which == {"min", "max"}

Better(which, a, b) == IF which = "min" THEN a < b ELSE a > b

\* The first index of an extreme value.
FirstExtreme(which, pixels) ==
  CHOOSE i \in 0..Len(pixels) - 1 :
    \A j \in 0..Len(pixels) - 1 :
      /\ ~Better(which, pixels[j + 1], pixels[i + 1])
      /\ j < i => Better(which, pixels[i + 1], pixels[j + 1])

Extreme(which, pixels) == pixels[FirstExtreme(which, pixels) + 1]
=============================================================================
