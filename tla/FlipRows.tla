----------------------------- MODULE FlipRows -----------------------------
(***************************************************************************)
(* How flip_neon.cpp and flip_sc.h move the pixels of a row with vectors.  *)
(* A row is the sequence of its pixels; three-channel pixels are separated *)
(* by the loads and put together by the stores, so a lane is a pixel.      *)
(* cpu = [sc, lanes]; an SVE loop ends with one predicated vector, a NEON  *)
(* loop with single pixels.  At the end, calls of the row functions on     *)
(* rows of distinct pixels.                                                *)
(***************************************************************************)
EXTENDS KernelCall, Integers, Sequences
LOCAL INSTANCE Lanes

CONSTANTS
  RowWidths,    \* in pixels
  RowLanes      \* pixels of a vector

\* The pixels of the next block when `left` are left.
BlockOf(left, unrolls, cpu) ==
  LET fits == {f \in unrolls : f * cpu.lanes <= left}
  IN  IF fits # {} THEN cpu.lanes * (CHOOSE f \in fits : \A g \in fits : g <= f)
      ELSE IF cpu.sc THEN left ELSE 1

\* reverse_lanes: SVE reverses a register at once, NEON reverses each half
\* and then exchanges the halves.
reverse_lanes(v, cpu) ==
  LET halves == rev(low(v)) \o rev(high(v))
  IN  IF cpu.sc \/ cpu.lanes = 1 THEN rev(v) ELSE ext(halves, halves, Half(v))

\* A block backwards: its vectors in the opposite order, or a table lookup
\* with the indices tail_length - 1, tail_length - 2, ...
ReversedBlock(block, cpu) ==
  LET n == Len(block)
      L == cpu.lanes
      Vector(k) == SubSeq(block, (k - 1) * L + 1, k * L)
  IN  IF n % L = 0
      THEN [j \in 1..n |->
              LET k == n \div L - ((j - 1) \div L)
              IN  reverse_lanes(Vector(k), cpu)[((j - 1) % L) + 1]]
      ELSE tbl(block, [i \in 1..n |-> n - i])

\* A row block by block; reversed, it is stored from its end.
Copied(row, unrolls, reversed, cpu) ==
  LET w == Len(row)
      F[at \in 0..w] ==
        IF at = w THEN <<>>
        ELSE LET n == BlockOf(w - at, unrolls, cpu)
                 block == SubSeq(row, at + 1, at + n)
             IN  IF reversed THEN F[at + n] \o ReversedBlock(block, cpu)
                             ELSE block \o F[at + n]
  IN  F[0]

copy_row_to_dst(row, cpu) == Copied(row, {1, 2}, FALSE, cpu)
copy_reversed_row_to_dst(row, cpu) == Copied(row, {1, 2}, TRUE, cpu)
copy_row_to_dst_sc(row, cpu) == Copied(row, {1, 2, 4}, FALSE, cpu)
copy_reversed_row_to_dst_sc(row, cpu) == Copied(row, {1, 2, 4}, TRUE, cpu)

Put(row, at, block) ==
  [i \in DOMAIN row |-> IF i - at \in DOMAIN block THEN block[i - at] ELSE row[i]]

\* Mutant: the block stored last is loaded after the first store.
swap_reversed_pixel_block_pair_LateLoad(rows, at, k, same, cpu) ==
  LET w == Len(rows[1])
      b == Put(rows[2], w - at - k,
               ReversedBlock(SubSeq(rows[1], at + 1, at + k), cpu))
      a == Put(IF same THEN b ELSE rows[1], at,
               ReversedBlock(SubSeq(b, w - at - k + 1, w - at), cpu))
  IN  <<a, IF same THEN a ELSE b>>

\* k pixels at `at` of one row change places with as many before the end of
\* the other; both blocks are loaded before either is stored.
swap_reversed_pixel_block_pair(rows, at, k, same, cpu) ==
  LET w == Len(rows[1])
      forward == SubSeq(rows[1], at + 1, at + k)
      backward == SubSeq(rows[2], w - at - k + 1, w - at)
      b == Put(rows[2], w - at - k, ReversedBlock(forward, cpu))
      a == Put(IF same THEN b ELSE rows[1], at, ReversedBlock(backward, cpu))
  IN  <<a, IF same THEN a ELSE b>>

\* n pixels from the start of one row change places with n from the end of
\* the other, backwards; in place the two are the same row.
swap_reversed(rows, n, same, unrolls, cpu) ==
  LET Starts[at \in 0..n] ==
        IF at >= n THEN <<>>
        ELSE LET k == BlockOf(n - at, unrolls, cpu)
             IN  <<<<at, k>>>> \o Starts[at + k]
      steps == Starts[0]
      G[s \in 0..Len(steps)] ==
        IF s = 0 THEN rows
        ELSE swap_reversed_pixel_block_pair(G[s - 1], steps[s][1], steps[s][2],
                                            same, cpu)
  IN  G[Len(steps)]

\* Three-channel pixels are not taken two vectors at a time on NEON.
swap_reversed_row_pair_in_place(rows, same, channels, cpu) ==
  LET w == Len(rows[1])
  IN  swap_reversed(rows, IF same THEN w \div 2 ELSE w, same,
                    IF channels # 3 THEN {1, 2} ELSE {1}, cpu)

swap_reversed_row_pair_in_place_sc(rows, same, channels, cpu) ==
  LET w == Len(rows[1])
  IN  swap_reversed(rows, IF same THEN w \div 2 ELSE w, same, {1, 2}, cpu)

Swapped(rows, unrolls, cpu) ==
  LET w == Len(rows[1])
      F[at \in 0..w] ==
        IF at = w THEN rows
        ELSE LET n == BlockOf(w - at, unrolls, cpu)
                 m == F[at + n]
                 Part(r) == SubSeq(m[r], at + 1, at + n)
             IN  <<Put(m[1], at, Part(2)), Put(m[2], at, Part(1))>>
  IN  F[0]
swap_row_pair_in_place(rows, cpu) == Swapped(rows, {1, 2}, cpu)
swap_row_pair_in_place_sc(rows, cpu) == Swapped(rows, {1, 2, 4}, cpu)
-----------------------------------------------------------------------------
PixelRow(w, first) == [i \in 1..w |-> first + i]

FlipCpus == [sc : BOOLEAN, lanes : RowLanes]

CopyRow ==
  \E w \in RowWidths, cpu \in FlipCpus :
    LET row == PixelRow(w, 0)
    IN  /\ call' = [kernel |-> "copy_row", width |-> w]
        /\ result' =
             IF cpu.sc
             THEN [reversed |-> copy_reversed_row_to_dst_sc(row, cpu),
                   plain |-> copy_row_to_dst_sc(row, cpu)]
             ELSE [reversed |-> copy_reversed_row_to_dst(row, cpu),
                   plain |-> copy_row_to_dst(row, cpu)]

SwapRows ==
  \E w \in RowWidths, cpu \in FlipCpus, ch \in {1, 3} :
    LET row == PixelRow(w, 0)
        other == PixelRow(w, 100)
    IN  /\ call' = [kernel |-> "swap_rows", width |-> w]
        /\ LET Pair(rows, same) ==
                 IF cpu.sc
                 THEN swap_reversed_row_pair_in_place_sc(rows, same, ch, cpu)
                 ELSE swap_reversed_row_pair_in_place(rows, same, ch, cpu)
           IN  result' =
                 [both |-> Pair(<<row, other>>, FALSE),
                  self |-> Pair(<<row, row>>, TRUE),
                  vertical |->
                    IF cpu.sc THEN swap_row_pair_in_place_sc(<<row, other>>, cpu)
                              ELSE swap_row_pair_in_place(<<row, other>>, cpu)]

FlipKernels == CopyRow \/ SwapRows
-----------------------------------------------------------------------------
Backwards(row) == [i \in DOMAIN row |-> row[Len(row) + 1 - i]]

(* A row is copied, reversed and exchanged pixel by pixel whatever its     *)
(* width: full vectors, pairs and quadruples of them, and the pixels after *)
(* them (flip_neon.cpp:108-161, flip_sc.h:151-252).  Reversed in place, the*)
(* blocks taken from both ends never load what the other end has stored    *)
(* already, also where they meet (flip_neon.cpp:201-237).                  *)
RowsFlipped ==
  LET row == PixelRow(call.width, 0)
      other == PixelRow(call.width, 100)
  IN  /\ call.kernel = "copy_row" =>
           result.reversed = Backwards(row) /\ result.plain = row
      /\ call.kernel = "swap_rows" =>
           /\ result.both = <<Backwards(other), Backwards(row)>>
           /\ result.vertical = <<other, row>>
           /\ result.self = <<Backwards(row), Backwards(row)>>
=============================================================================
