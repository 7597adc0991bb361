----------------------------- MODULE BlockStack -----------------------------
(***************************************************************************)
(* class Stack of kleidicv/include/kleidicv/containers/stack.h: a stack of *)
(* pointers in a doubly linked list of fixed-size blocks.  Blocks are kept *)
(* when the stack shrinks and used again when it grows.                    *)
(*                                                                         *)
(* A stack is a record: its blocks in list order, the current one, and     *)
(* back_ as the number of elements of the current block at or below it, so *)
(* that 0 is back_min_ and kBlockCapacity is back_max_.  empty_back_ is    *)
(* back_min_ of the first block.                                           *)
(***************************************************************************)
EXTENDS Integers, Sequences

CONSTANTS
  Values,           \* what is pushed
  kBlockCapacity,   \* elements a block holds (1022 pointers)
  Unset             \* contents of a block nothing has been stored to

ASSUME CapacityAssumption == kBlockCapacity \in Nat \ {0}

make_block == [i \in 1..kBlockCapacity |-> Unset]

\* Stack()
EmptyStack == [blocks |-> <<make_block>>, current |-> 1, back |-> 0]

empty(s) == s.current = 1 /\ s.back = 0

\* Mutant: the block after the current one is not used again.
next_block_Stay(s) ==
  IF s.current < Len(s.blocks)
    THEN [s EXCEPT !.back = 0]
    ELSE [s EXCEPT !.blocks = Append(@, make_block), !.current = @ + 1, !.back = 0]

\* A new block is allocated only at the end of the list; the process stops if
\* that fails.
next_block(s) ==
  IF s.current < Len(s.blocks)
    THEN [s EXCEPT !.current = @ + 1, !.back = 0]
    ELSE [s EXCEPT !.blocks = Append(@, make_block), !.current = @ + 1, !.back = 0]

prev_block(s) == [s EXCEPT !.current = @ - 1, !.back = kBlockCapacity]

push_back(s, v) ==
  LET t == IF s.back = kBlockCapacity THEN next_block(s) ELSE s
  IN  [t EXCEPT !.blocks[t.current][t.back + 1] = v, !.back = @ + 1]

back(s) == s.blocks[s.current][s.back]

pop_back(s) ==
  LET t == [s EXCEPT !.back = @ - 1]
  IN  IF t.back = 0 /\ ~empty(t) THEN prev_block(t) ELSE t

\* The elements, from the bottom of the stack to its top.
Contents(s) ==
  [k \in 1..(s.current - 1) * kBlockCapacity + s.back |->
     s.blocks[((k - 1) \div kBlockCapacity) + 1][((k - 1) % kBlockCapacity) + 1]]
=============================================================================
