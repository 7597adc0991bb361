------------------------------ MODULE RowLoop ------------------------------
(***************************************************************************)
(* How an operation is driven along one row: RowBasedOperation over        *)
(* LoopUnroll (kleidicv/include/kleidicv/operations.h, utils.h) and the    *)
(* loops kernels write themselves with LoopUnroll2.                        *)
(*                                                                         *)
(* A row has two buffers, which are one and the same when the call is in   *)
(* place.  An element's value is the number of times the operation has     *)
(* been applied to it: an operation loads from the source, adds one and    *)
(* stores to the destination, so the row is right when every element of    *)
(* the destination is exactly 1.                                           *)
(***************************************************************************)
EXTENDS Integers, FiniteSets

CONSTANTS
  Operations,  \* the traits of operation classes: see OperationType
  Lengths,
  step         \* num_lanes of the vectors

\* The traits that steer the loops.  loop: the class that drives the row;
\* twice, once: UnrollTwice and UnrollOnce; avoid_tail: TryToAvoidTailLoop;
\* sc: remaining elements take predicated vectors, otherwise single
\* elements; in_place: the C API allows source and destination to be one.
OperationType ==
  [loop : {"LoopUnroll", "LoopUnroll2"}, twice : BOOLEAN, once : BOOLEAN,
   avoid_tail : BOOLEAN, sc : BOOLEAN, in_place : BOOLEAN]

ASSUME RowLoopAssumption ==
  /\ step \in Nat \ {0}
  /\ Lengths \subseteq Nat
  /\ Operations \subseteq OperationType
  \* An operation that steps back over elements does not overwrite its source.
  /\ \A o \in Operations : o.once /\ o.avoid_tail => ~o.in_place

VARIABLES
  operation, in_place, length,   \* the call
  length_, index_,               \* of the loop: what is left, and where
  can_avoid_tail_,
  src, dst,
  touched,                       \* positions accessed
  pc

vars == <<operation, in_place, length, length_, index_, can_avoid_tail_, src,
          dst, touched, pc>>

Row == 0..length - 1
-----------------------------------------------------------------------------
Init ==
  /\ operation \in Operations
  /\ in_place \in BOOLEAN
  /\ in_place => operation.in_place
  /\ length \in Lengths
  /\ length_ = length
  /\ index_ = 0
  /\ can_avoid_tail_ = (length >= step)
  /\ src = [p \in Row |-> 0]
  /\ dst = [p \in Row |-> 0]
  /\ touched = {}
  /\ pc = "twice"

\* vector_path_2x, vector_path and scalar_path of OperationAdapter: the
\* elements are all loaded before one of them is stored.
Apply(positions) ==
  LET result == [p \in Row |->
                   IF p \in positions THEN src[p] + 1 ELSE dst[p]]
  IN  /\ dst' = result
      /\ src' = IF in_place THEN result ELSE src
      /\ touched' = touched \cup positions

Call == <<operation, in_place, length, can_avoid_tail_>>

\* One round of unroll_n_times: the columns advance past n elements.
Round(n) ==
  /\ length_ >= n
  /\ Apply(index_..index_ + n - 1)
  /\ index_' = index_ + n
  /\ length_' = length_ - n
  /\ UNCHANGED <<Call, pc>>

\* A loop that is over, or left out by its `if constexpr`.
Skip(label, next) ==
  /\ pc = label /\ pc' = next
  /\ UNCHANGED <<Call, src, dst, touched, index_, length_>>

UnrollTwice == pc = "twice" /\ operation.twice /\ Round(2 * step)
UnrollOnce == pc = "once" /\ operation.once /\ Round(step)

EndTwice ==
  /\ ~operation.twice \/ length_ < 2 * step
  /\ Skip("twice", "once")

\* The row is at least a vector long: step back so that its last vector is
\* a full one, and go round the loop once more.
CanStepBack ==
  /\ operation.once /\ operation.avoid_tail
  /\ length_ \in 1..step - 1
  /\ IF operation.loop = "LoopUnroll" THEN can_avoid_tail_ ELSE length >= step

\* Mutant: a whole vector is stepped back.
StepBack_Vector ==
  /\ pc = "once"
  /\ CanStepBack
  /\ index_' = index_ - step
  /\ length_' = step
  /\ UNCHANGED <<Call, src, dst, touched, pc>>

StepBack ==
  /\ pc = "once"
  /\ CanStepBack
  /\ index_' = index_ - (step - length_)
  /\ length_' = step
  /\ UNCHANGED <<Call, src, dst, touched, pc>>

EndOnce ==
  /\ ~operation.once \/ length_ < step
  /\ ~CanStepBack
  /\ Skip("once", "remaining")

\* remaining_path: one element at a time on NEON, on SVE and SME as many as
\* svwhilelt leaves active.
Remaining ==
  /\ pc = "remaining" /\ length_ > 0
  /\ LET n == IF operation.sc /\ length_ >= step THEN step
              ELSE IF operation.sc THEN length_ ELSE 1
     IN  Round(n)

Return == length_ = 0 /\ Skip("remaining", "done")

Next ==
  \/ UnrollTwice \/ EndTwice \/ UnrollOnce \/ StepBack \/ EndOnce
  \/ Remaining \/ Return

Spec == Init /\ [][Next]_vars
-----------------------------------------------------------------------------
TypeOK ==
  /\ operation \in Operations /\ length \in Lengths
  /\ length_ \in 0..length
  /\ index_ \in 0..length
  /\ pc \in {"twice", "once", "remaining", "done"}

(* Every element of a row is processed exactly once from its own source,   *)
(* for every length around the multiples of the vector length, although    *)
(* the loop that avoids a tail processes some elements twice and a call    *)
(* may be in place: kleidicv/include/kleidicv/utils.h:187,320.             *)
EveryElementOnce == pc = "done" => \A p \in Row : dst[p] = 1

(* No load or store leaves the row: stepping back must not go before its   *)
(* start when the row is shorter than a vector.                            *)
StaysInRow == touched \subseteq Row

\* Every element of a row is processed exactly once from its own source, and no
\* load or store leaves the row.
RowsProcessed == TypeOK /\ StaysInRow /\ EveryElementOnce
=============================================================================
