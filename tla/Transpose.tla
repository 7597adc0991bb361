----------------------------- MODULE Transpose -----------------------------
(***************************************************************************)
(* Transposing and rotating an image by a quarter turn                     *)
(* (rotate and transpose in kleidicv/src/transform), tile by tile, out of  *)
(* place on several threads that each take a stripe of source columns, or  *)
(* in place on one.  A step is one tile: NEON transposes it in registers,  *)
(* SME writes rows of the ZA array and reads columns.                      *)
(***************************************************************************)
EXTENDS Integers, Sequences
LOCAL INSTANCE Lanes

CONSTANTS
  Operations,   \* [turn: "transpose", "cw" or "ccw"; sme; lanes; channels; in_place]
  Sizes,        \* of the source image: <<width, height>>
  Cuts          \* where a second stripe may begin

VARIABLES
  op, width, height,   \* the call
  tasks,               \* stripes: columns begin..end - 1 and the tiles to do
  mem                  \* the destination, which in place is also the source
vars == <<op, width, height, tasks, mem>>

L == op.lanes
Channels == 1..op.channels
Range(n) == 0..n - 1

\* The pixel at row y and column x of the source, channel by channel.
Source(y, x) == [c \in Channels |-> op.channels * (width * y + x) + c - 1]
Empty == <<>>
Pixel(y, x) == IF op.in_place THEN mem[y][x] ELSE Source(y, x)

\* n rows of m pixels from row y and column x.
Load(y, x, n, m) == [i \in 1..n |-> [j \in 1..m |-> Pixel(y + i - 1, x + j - 1)]]
Plane(rows, c) == [i \in DOMAIN rows |-> [j \in DOMAIN rows[i] |-> rows[i][j][c]]]
Interleave(planes) ==
  [i \in DOMAIN planes[1] |->
     [j \in DOMAIN planes[1][i] |-> [c \in Channels |-> planes[c][i][j]]]]
Store(m, r, k, rows) ==
  [y \in DOMAIN m |-> [x \in DOMAIN m[y] |->
     IF y - r + 1 \in DOMAIN rows /\ x - k + 1 \in DOMAIN rows[1]
     THEN rows[y - r + 1][x - k + 1] ELSE m[y][x]]]
-----------------------------------------------------------------------------
(* The tile in registers: rows exchange ever larger parts of themselves.   *)
rotate_transpose_tile_recursive(rows, reverse_rows) ==
  LET n == Len(rows)
      Pairs == [i \in 1..n |->
        LET row == IF reverse_rows THEN n + 1 - i ELSE i
            first  == IF i % 2 = 1 THEN row
                      ELSE IF reverse_rows THEN row + 1 ELSE row - 1
            second == IF reverse_rows THEN first - 1 ELSE first + 1
        IN  IF i % 2 = 1 THEN trn1(rows[first], rows[second])
                         ELSE trn2(rows[first], rows[second])]
      T[order \in {2, 4, 8, 16}] ==
        IF order = 2 THEN Pairs
        ELSE LET half == order \div 2
                 In(i) == Wide(T[half][i], half)
             IN  [i \in 1..n |->
                    IF (i - 1) % order < half
                    THEN Narrow(trn1(In(i), In(i + half)))
                    ELSE Narrow(trn2(In(i - half), In(i)))]
  IN  T[n]

\* Three channels are separated by the load, vld3, and put together by vst3.
rotate_transpose_tile_3ch(rows, reverse_rows) ==
  Interleave([c \in Channels |->
                rotate_transpose_tile_recursive(Plane(rows, c), reverse_rows)])

(* The tile of SME, of any size: red goes through ZA at once, green and    *)
(* blue through buffers, with the rows already in the order they load in.  *)
transform_tile_1ch(rows, reverse_load, reverse_store) ==
  LET n == Len(rows)
      w == Len(rows[1])
      za == [i \in 1..n |-> rows[IF reverse_load THEN n + 1 - i ELSE i]]
      col(i) == IF reverse_store THEN w + 1 - i ELSE i
  IN  [i \in 1..w |-> [j \in 1..n |-> za[j][col(i)]]]

transform_tile_3ch(rows, reverse_load, reverse_store) ==
  LET loaded == IF reverse_load THEN rev(rows) ELSE rows
  IN  Interleave([c \in Channels |->
                    transform_tile_1ch(Plane(loaded, c), FALSE, reverse_store)])

transform_tile(rows, reverse_load, reverse_store) ==
  IF op.channels = 3
  THEN transform_tile_3ch(rows, reverse_load, reverse_store)
  ELSE Interleave(<<transform_tile_1ch(Plane(rows, 1),
                                       reverse_load, reverse_store)>>)
-----------------------------------------------------------------------------
(* The tiles of a call on w columns and n rows, in the order of its loops. *)
Block(kind, v, h, n, m) == [kind |-> kind, v |-> v, h |-> h, n |-> n, m |-> m]

\* LoopUnroll2<TryToAvoidTailLoop>: the last block steps back into the row
\* instead of being cut, unless the whole row is shorter than a block.
Starts(n) ==
  [i \in 1..(IF n < L THEN 0 ELSE ((n + L - 1) \div L)) |->
     IF i * L <= n THEN (i - 1) * L ELSE n - L]

Concat(s) ==
  LET F[i \in 0..Len(s)] == IF i = 0 THEN <<>> ELSE F[i - 1] \o s[i]
  IN  F[Len(s)]
Map(s, F(_)) == [i \in DOMAIN s |-> F(s[i])]

rotate_transpose_rect(w) ==
  IF height < L
  THEN IF height = 0 THEN <<>> ELSE <<Block("rows", 0, 0, height, w)>>
  ELSE Concat(Map(Starts(height), LAMBDA v :
         IF w < L THEN <<Block("segment", v, 0, L, w)>>
         ELSE Map(Starts(w), LAMBDA h : Block("tile", v, h, L, L))))

\* LoopUnroll2 without the step back, from `from` to n.
Blocks(from, n) == [i \in 1..(n - from) \div L |-> from + (i - 1) * L]
Rest(from, n) == from + ((n - from) \div L) * L

transpose_in_place(w) ==
  Concat(Map(Blocks(0, w), LAMBDA v :
    <<Block("diagonal", v, v, L, L)>>
    \o (IF w <= v + L THEN <<>>
        ELSE Map(Blocks(v + L, w), LAMBDA h : Block("exchange", v, h, L, L))
             \o (IF Rest(v + L, w) = w THEN <<>>
                 ELSE <<Block("swap", v, Rest(v + L, w), L,
                              w - Rest(v + L, w))>>))))
  \o (IF Rest(0, w) = w THEN <<>>
      ELSE <<Block("corner", Rest(0, w), Rest(0, w),
                   w - Rest(0, w), w - Rest(0, w))>>)

LOCAL Smaller(a, b) == IF a < b THEN a ELSE b
EveryBlock(from, n) == [i \in 1..(IF n <= from THEN 0
                                  ELSE ((n - from + L - 1) \div L)) |->
                          from + (i - 1) * L]
Size(at, n) == Smaller(L, n - at)

rotate_transpose_to_dst(w) ==
  Concat(Map(EveryBlock(0, w), LAMBDA h :
    Map(EveryBlock(0, height), LAMBDA v :
      Block("tile", v, h, Size(v, height), Size(h, w)))))

transpose_in_place_sme(w) ==
  Concat(Map(EveryBlock(0, w), LAMBDA v :
    <<Block("diagonal", v, v, Size(v, w), Size(v, w))>>
    \o Map(EveryBlock(v + L, w), LAMBDA h :
         Block("exchange", v, h, Size(v, w), Size(h, w)))))

Tiles(w) ==
  IF op.sme THEN IF op.in_place THEN transpose_in_place_sme(w)
                                ELSE rotate_transpose_to_dst(w)
            ELSE IF op.in_place THEN transpose_in_place(w)
                                ELSE rotate_transpose_rect(w)

\* kleidicv_thread_transpose and kleidicv_thread_rotate: stripes of columns,
\* unless the image is its own destination.
Stripe(b, e) == [begin |-> b, end |-> e, todo |-> Tiles(e - b)]
Stripes == IF op.in_place THEN {{Stripe(0, width)}}
           ELSE {{Stripe(0, width)}}
                \cup {{Stripe(0, k), Stripe(k, width)} : k \in Cuts \cap 1..width - 1}
\* Rotating in place is refused.
rotate_is_implemented(o) == ~o.in_place

\* The first destination row of a stripe.
dst_offset(t) == IF op.turn = "ccw" THEN width - t.end ELSE t.begin

Init ==
  /\ op \in Operations
  /\ \E s \in Sizes :
       /\ width = s[1] /\ height = s[2]
       /\ op.in_place => width = height
  /\ op.turn # "transpose" => rotate_is_implemented(op)
  /\ mem = IF op.in_place
           THEN [y \in Range(height) |-> [x \in Range(width) |-> Source(y, x)]]
           ELSE [r \in Range(width) |-> [c \in Range(height) |-> Empty]]
  /\ tasks \in Stripes
-----------------------------------------------------------------------------
\* Where a tile of m columns from h goes in a stripe of w columns: its first
\* destination row; and the first destination column of n rows from v.
vector_dst_row_from_src_col(h, m, w) == IF op.turn = "ccw" THEN w - h - m ELSE h
vector_dst_col_from_src_row(v, n) == IF op.turn = "cw" THEN height - v - n ELSE v

row_index(rows) == IF op.turn = "ccw" THEN rev(rows) ELSE rows

\* The tile of a rotation, or of a transposition out of place.
rotate(rows) == row_index(rotate_transpose_tile_3ch(rows, op.turn = "cw"))
rotate_by_angle(rows) == transform_tile(rows, op.turn = "cw", op.turn = "ccw")

\* One tile out of place.
Tile(t, b) ==
  LET rows == Load(b.v, t.begin + b.h, b.n, b.m)
      tile == IF op.sme THEN rotate_by_angle(rows) ELSE rotate(rows)
  IN  /\ b.kind = "tile"
      /\ mem' = Store(mem, dst_offset(t)
                       + vector_dst_row_from_src_col(b.h, b.m, t.end - t.begin),
                      vector_dst_col_from_src_row(b.v, b.n), tile)

\* A narrow or a low image, pixel by pixel.
rotate_transpose_scalar(t, b) ==
  LET w == b.m
      col == IF b.kind = "segment" THEN vector_dst_col_from_src_row(b.v, b.n)
             ELSE IF op.turn = "cw" THEN 0 ELSE b.v
      Row(k) == IF op.turn = "ccw" THEN w - k - 1 ELSE k
      Col(i) == IF op.turn = "cw" THEN b.n - i - 1 ELSE i
  IN  /\ b.kind \in {"segment", "rows"}
      /\ mem' = [y \in DOMAIN mem |-> [x \in DOMAIN mem[y] |->
           IF \E i \in Range(b.n), k \in Range(w) :
                y = dst_offset(t) + Row(k) /\ x = col + Col(i)
           THEN LET i == CHOOSE i \in Range(b.n) : x = col + Col(i)
                    k == CHOOSE k \in Range(w) : y = dst_offset(t) + Row(k)
                IN  Source(b.v + i, t.begin + b.h + k)
           ELSE mem[y][x]]]

\* In place: a tile on the diagonal, and a pair of tiles that change places.
Turned(rows) == IF op.sme THEN transform_tile(rows, FALSE, FALSE)
                          ELSE rotate_transpose_tile_3ch(rows, FALSE)

Diagonal(b) ==
  /\ b.kind = "diagonal"
  /\ mem' = Store(mem, b.v, b.v, Turned(Load(b.v, b.v, b.n, b.m)))

\* Mutant: the first tile is stored before the second is read.
Exchange_NoTmp(b) ==
  LET other == Turned(Load(b.h, b.v, b.m, b.n))
      first == Store(mem, b.v, b.h, other)
      Row(i) == [j \in 1..b.m |-> first[b.v + i - 1][b.h + j - 1]]
  IN  /\ b.kind = "exchange"
      /\ mem' = Store(first, b.h, b.v, Turned([i \in 1..b.n |-> Row(i)]))

\* One of the two is turned into tmp before the other is stored over it.
Exchange(b) ==
  LET tmp == Turned(Load(b.v, b.h, b.n, b.m))
      other == Turned(Load(b.h, b.v, b.m, b.n))
  IN  /\ b.kind = "exchange"
      /\ mem' = Store(Store(mem, b.v, b.h, other), b.h, b.v, tmp)

\* Mutant: the last loop starts at row 0 instead of behind the tiles.
Swap_FromTheTop(b) ==
  /\ b.kind \in {"swap", "corner"}
  /\ mem' = [y \in DOMAIN mem |-> [x \in DOMAIN mem[y] |->
               IF b.kind = "corner"
                  \/ (y - b.v \in Range(b.n) /\ x - b.h \in Range(b.m))
                  \/ (x - b.v \in Range(b.n) /\ y - b.h \in Range(b.m))
               THEN mem[x][y] ELSE mem[y][x]]]

\* std::swap across the diagonal, in what is left of the rows and at the end.
Swap(b) ==
  LET Above(y, x) == IF b.kind = "swap"
                     THEN y - b.v \in Range(b.n) /\ x - b.h \in Range(b.m)
                     ELSE y >= b.v /\ x > y
  IN  /\ b.kind \in {"swap", "corner"}
      /\ mem' = [y \in DOMAIN mem |-> [x \in DOMAIN mem[y] |->
                   IF Above(y, x) \/ Above(x, y) THEN mem[x][y] ELSE mem[y][x]]]

Step(t) ==
  /\ t.todo # <<>>
  /\ LET b == Head(t.todo)
     IN  Tile(t, b) \/ rotate_transpose_scalar(t, b)
         \/ Diagonal(b) \/ Exchange(b) \/ Swap(b)
  /\ tasks' = (tasks \ {t}) \cup {[t EXCEPT !.todo = Tail(@)]}
  /\ UNCHANGED <<op, width, height>>

Next == \E t \in tasks : Step(t)
Spec == Init /\ [][Next]_vars
-----------------------------------------------------------------------------
Done == \A t \in tasks : t.todo = <<>>

\* The source pixel that belongs at a place of the destination.
Wanted(r, c) ==
  CASE op.turn = "transpose" -> Source(c, r)
    [] op.turn = "cw"        -> Source(height - 1 - c, r)
    [] op.turn = "ccw"       -> Source(c, width - 1 - r)

(* When every stripe is done each pixel, all its channels together, has    *)
(* moved to its place, at every size, on every backend.                    *)
Turns == Done => \A r \in DOMAIN mem : \A c \in DOMAIN mem[r] :
                   mem[r][c] = Wanted(r, c)

(* A pixel that has arrived stays: a tile that steps back to avoid a tail, *)
(* another stripe, or a later exchange in place never replaces it by       *)
(* another one.                                                            *)
KeepsArrived ==
  \A r \in DOMAIN mem : \A c \in DOMAIN mem[r] :
    (~op.in_place \/ r # c) /\ mem[r][c] = Wanted(r, c)
      => mem'[r][c] = Wanted(r, c)
ArrivedStays == [][KeepsArrived]_vars
=============================================================================
