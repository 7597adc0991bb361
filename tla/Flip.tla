-------------------------------- MODULE Flip --------------------------------
(***************************************************************************)
(* kleidicv_thread_flip and kleidicv_flip: flip.h, flip_neon.cpp and the   *)
(* threaded call.  The image is cut into work items; each thread moves the *)
(* pixels of its work items in blocks that it loads into registers and     *)
(* stores back.  When source and destination are the same image a work     *)
(* item owns two mirrored rows, or one row that it exchanges with itself.  *)
(*                                                                         *)
(* A pixel is known by the place it has in the source.                     *)
(***************************************************************************)
EXTENDS Integers

CONSTANTS
  Threads,      \* threads of the application's scheduler
  Widths, Heights,
  num_lanes,    \* pixels of a vector
  Unset         \* pixels of a destination nothing has been stored to

ASSUME FlipAssumption ==
  /\ Widths \subseteq Nat /\ Heights \subseteq Nat
  /\ num_lanes \in Nat \ {0}

VARIABLES
  width, height,
  flip_mode,
  in_place,             \* src == dst
  same_stride,          \* src_stride == dst_stride
  error,
  work_items,           \* work items no thread has taken
  image,                \* dst
  at,                   \* what each thread does
  item, column,         \* its work item and the pixels of it that are done
  registers             \* the pixels it has loaded

inputs == <<width, height, flip_mode, in_place, same_stride>>
locals == <<at, item, column, registers>>
vars == <<inputs, error, work_items, image, locals>>

Places == (0..height - 1) \X (0..width - 1)
-----------------------------------------------------------------------------
flip_validate ==
  IF in_place /\ ~same_stride THEN "RANGE"
  ELSE IF flip_mode = "OTHER" THEN "NOT_IMPLEMENTED" ELSE "OK"

\* Mutant: every row is a work item.
flip_work_item_count_Rows == height

flip_work_item_count ==
  IF ~in_place \/ flip_mode = "HORIZONTAL" THEN height
  ELSE IF flip_mode = "VERTICAL" THEN height \div 2
  ELSE (height + 1) \div 2

Init ==
  /\ width \in Widths /\ height \in Heights
  /\ flip_mode \in {"HORIZONTAL", "VERTICAL", "BOTH", "OTHER"}
  /\ in_place \in BOOLEAN
  /\ same_stride \in BOOLEAN
  /\ error = "none"
  /\ work_items = {}
  /\ image = [p \in Places |-> IF in_place THEN p ELSE Unset]
  /\ at = [t \in Threads |-> "idle"]
  /\ item = [t \in Threads |-> 0]
  /\ column = [t \in Threads |-> 0]
  /\ registers = [t \in Threads |-> << >>]

\* Nothing is left to do after an error and for an empty image.
Call ==
  /\ error = "none"
  /\ error' = flip_validate
  /\ work_items' = IF error' # "OK" \/ width = 0 THEN {}
                   ELSE 0..flip_work_item_count - 1
  /\ UNCHANGED <<inputs, image, locals>>

\* A thread gets work items from the scheduler, in any order.
Take(t) ==
  /\ at[t] = "idle"
  /\ \E i \in work_items :
       /\ item' = [item EXCEPT ![t] = i]
       /\ work_items' = work_items \ {i}
  /\ column' = [column EXCEPT ![t] = 0]
  /\ at' = [at EXCEPT ![t] = "load"]
  /\ UNCHANGED <<inputs, error, image, registers>>
-----------------------------------------------------------------------------
\* The row that row i of the source comes to.
Mirrored(i) == IF flip_mode = "HORIZONTAL" THEN i ELSE height - i - 1

Target(p) ==
  <<Mirrored(p[1]), IF flip_mode = "VERTICAL" THEN p[2] ELSE width - p[2] - 1>>

\* Mutant: the centre row is exchanged with itself from end to end.
PixelCount_Whole(i) == width

\* The pixels of a work item: for a row exchanged with itself one half of them.
PixelCount(i) ==
  IF in_place /\ flip_mode # "VERTICAL" /\ Mirrored(i) = i THEN width \div 2 ELSE width

\* LoopUnroll2: two vectors at a time, then one, then single pixels.
BlockSize(left) ==
  IF left >= 2 * num_lanes THEN 2 * num_lanes
  ELSE IF left >= num_lanes THEN num_lanes ELSE 1

\* The pixels of the current block, and the ones it is exchanged with.
Block(t) ==
  {<<item[t], c>> :
     c \in column[t]..column[t] + BlockSize(PixelCount(item[t]) - column[t]) - 1}

Exchanged(t) == Block(t) \cup {Target(p) : p \in Block(t)}

Load(t) ==
  /\ at[t] = "load"
  /\ column[t] < PixelCount(item[t])
  /\ registers' = [registers EXCEPT ![t] =
                     [p \in IF in_place THEN Exchanged(t) ELSE Block(t) |->
                        IF in_place THEN image[p] ELSE p]]
  /\ at' = [at EXCEPT ![t] = "store"]
  /\ UNCHANGED <<inputs, error, work_items, image, item, column>>

\* The block goes to its targets and, in place, the pixels there to the block.
Store(t) ==
  /\ at[t] = "store"
  /\ image' = [q \in Places |->
                 IF Target(q) \in DOMAIN registers[t] THEN registers[t][Target(q)]
                                                      ELSE image[q]]
  /\ column' = [column EXCEPT ![t] = @ + BlockSize(PixelCount(item[t]) - @)]
  /\ at' = [at EXCEPT ![t] = "load"]
  /\ UNCHANGED <<inputs, error, work_items, item, registers>>

ItemDone(t) ==
  /\ at[t] = "load"
  /\ column[t] = PixelCount(item[t])
  /\ at' = [at EXCEPT ![t] = "idle"]
  /\ UNCHANGED <<inputs, error, work_items, image, item, column, registers>>

Next == Call \/ \E t \in Threads : Take(t) \/ Load(t) \/ Store(t) \/ ItemDone(t)

Spec == Init /\ [][Next]_vars
-----------------------------------------------------------------------------
TypeOK ==
  /\ error \in {"none", "OK", "RANGE", "NOT_IMPLEMENTED"}
  /\ work_items \subseteq 0..height - 1
  /\ image \in [Places -> Places \cup {Unset}]
  /\ at \in [Threads -> {"idle", "load", "store"}]
  /\ \A t \in Threads : at[t] # "idle" => /\ item[t] \in 0..height - 1
                                          /\ column[t] \in 0..PixelCount(item[t])

Finished == error # "none" /\ work_items = {} /\ \A t \in Threads : at[t] = "idle"

(***************************************************************************)
(* When every work item is done every pixel is where the flip mode puts    *)
(* it, in place or not, for odd and even heights and widths: no pixel is   *)
(* exchanged twice and none is left out.  A call that was refused has not  *)
(* touched the destination.                                                *)
(***************************************************************************)
Flipped ==
  Finished =>
    \A p \in Places : image[Target(p)] = IF error = "OK" THEN p
                                         ELSE IF in_place THEN Target(p) ELSE Unset

(***************************************************************************)
(* "Independent units of work" (flip.h): two threads are never at blocks   *)
(* with a pixel in common, so no pixel is read by one thread while another *)
(* one moves it.                                                           *)
(***************************************************************************)
ItemsIndependent ==
  \A t, u \in Threads :
    t # u /\ at[t] = "store" /\ at[u] = "store" =>
      IF in_place THEN Exchanged(t) \cap Exchanged(u) = {}
      ELSE {Target(p) : p \in Block(t)} \cap {Target(p) : p \in Block(u)} = {}
=============================================================================
