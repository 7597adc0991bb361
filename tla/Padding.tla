------------------------------ MODULE Padding ------------------------------
(***************************************************************************)
(* kleidicv_add_padding_by_copy: the checks, the choice of a strategy, the *)
(* maps that an operation builds once, and the rows that its stripes fill, *)
(* in any order when threads share them.                                   *)
(***************************************************************************)
EXTENDS Integers, Sequences, Lanes

CONSTANTS
  PaddingCalls,     \* the calls considered
  PaddingBackends,  \* [lanes, sme]: the vectors of the kernels that copy backwards
  MaxPixels,        \* KLEIDICV_MAX_IMAGE_PIXELS
  StripeCuts        \* rows at which a second and a third stripe may begin

CallType ==
  [border : {"constant", "replicate", "reflect", "wrap", "reverse"},
   src_width : Nat, src_height : Nat,
   top : Nat, bottom : Nat, left : Nat, right : Nat]

ASSUME PaddingAssumption ==
  /\ PaddingCalls \subseteq CallType
  /\ PaddingBackends \subseteq [lanes : Nat \ {0}, sme : BOOLEAN]
  /\ MaxPixels \in Nat /\ StripeCuts \subseteq Nat

VARIABLES
  args, backend,  \* the call
  status,         \* "checking", "ok", or an error
  operation,      \* the strategy and its maps, once allocated
  pad_stripes,    \* rows begin..end - 1 still to be filled
  padded          \* the rows filled: the source pixel <<row, column>> at each place
paddingVars == <<args, backend, status, operation, pad_stripes, padded>>

NoOperation == [strategy |-> "none"]
Border == <<-1, -1>>      \* the border value
Absent == <<-2, -2>>      \* nothing stored yet
dst_width == args.src_width + args.left + args.right
dst_height == args.src_height + args.top + args.bottom
-----------------------------------------------------------------------------
CHECK_IMAGE_SIZE(w, h) == w * h <= MaxPixels

add_padding_by_copy_checks ==
  LET sizes == {args.src_width, args.src_height, args.top, args.bottom,
                args.left, args.right}
      horizontal == args.left + args.right
      vertical == args.top + args.bottom
  IN  IF ~CHECK_IMAGE_SIZE(args.src_width, args.src_height) THEN "range"
      ELSE IF args.border # "constant"
              /\ (args.src_width = 0 \/ args.src_height = 0) THEN "not_implemented"
      ELSE IF \/ \E s \in sizes : s > MaxPixels
              \/ horizontal > MaxPixels \/ vertical > MaxPixels
              \/ args.src_width > MaxPixels - horizontal
              \/ args.src_height > MaxPixels - vertical
              \/ ~CHECK_IMAGE_SIZE(dst_width, dst_height) THEN "range"
      ELSE "ok"

\* Mutant: a reversed border as wide as the image takes the fast path.
can_use_fast_path_Closed(border, w, left, right) ==
  left <= w /\ right <= w /\ (border # "wrap" => w > 1)

can_use_fast_path(border, w, left, right) ==
  CASE border = "wrap"    -> left <= w /\ right <= w
    [] border = "reflect" -> w > 1 /\ left <= w /\ right <= w
    [] border = "reverse" -> w > 1 /\ left < w /\ right < w

resolve_border_strategy ==
  IF args.border \in {"constant", "replicate"} THEN args.border
  ELSE IF can_use_fast_path(args.border, args.src_width, args.left, args.right)
  THEN args.border ELSE "indexed"

wrap_index(position, length) == position % length

reflect_index(position, length) ==
  LET period == 2 * length
      reflected == position % period
  IN  IF length = 1 THEN 0
      ELSE IF reflected >= length THEN period - reflected - 1 ELSE reflected
reverse_index(position, length) ==
  LET period == 2 * (length - 1)
      reflected == position % period
  IN  IF length = 1 THEN 0
      ELSE IF reflected >= length THEN period - reflected ELSE reflected

MapIndex(border, position, length) ==
  CASE border = "wrap"    -> wrap_index(position, length)
    [] border = "reflect" -> reflect_index(position, length)
    [] border = "reverse" -> reverse_index(position, length)

build_coordinate_sequence(border, count, start, length) ==
  [i \in 1..count |-> MapIndex(border, start + i - 1, length)]

\* allocate_operation and the constructors of the operations.
Operation ==
  LET strategy == resolve_border_strategy
      Rows(count, start) ==
        build_coordinate_sequence(args.border, count, start, args.src_height)
      Columns(count, start) ==
        build_coordinate_sequence(args.border, count, start, args.src_width)
  IN  IF strategy \in {"constant", "replicate"} THEN [strategy |-> strategy]
      ELSE [strategy |-> strategy,
            top |-> Rows(args.top, -args.top),
            bottom |-> Rows(args.bottom, args.src_height),
            borders |-> IF strategy # "indexed" THEN <<>>
                        ELSE Columns(args.left, -args.left)
                             \o Columns(args.right, args.src_width)]
-----------------------------------------------------------------------------
(* One row: the columns of the source that it is made of, -1 for the       *)
(* border value.  The kernels move whole pixels, so a pixel is its column. *)
copy_contiguous_bytes(at, n) == [i \in 1..n |-> at + i - 1]
fill_repeated_pixel(column, n) == [i \in 1..n |-> column]

\* n pixels backwards from `last`: pairs of vectors, then pixel by pixel.
Vector(last, k, m) == copy_contiguous_bytes(last + 1 - k, m)
ReversedPairs(last, n) ==
  LET L == backend.lanes
      F[i \in 0..n \div (2 * L)] ==
        IF i = 0 THEN <<>>
        ELSE LET index == 2 * L * (i - 1)
             IN  F[i - 1] \o rev(Vector(last, index + L, L))
                          \o rev(Vector(last, index + 2 * L, L))
  IN  F[n \div (2 * L)]

copy_reversed_neon(last, n) ==
  LET pairs == n - (n % (2 * backend.lanes))
  IN  ReversedPairs(last, n)
      \o [i \in 1..n - pairs |-> last - pairs - i + 1]

\* After the pairs one more vector, and a lookup for the rest.
copy_reversed_sc(last, n) ==
  LET L == backend.lanes
      pairs == n - (n % (2 * L))
      ones == n - (n % L)
  IN  ReversedPairs(last, n)
      \o (IF ones > pairs THEN rev(Vector(last, ones, L)) ELSE <<>>)
      \o (IF n = ones THEN <<>>
          ELSE tbl(Vector(last, n, n - ones),
                   [i \in 1..n - ones |-> n - ones - i]))

copy_reversed_pixels(last, n) ==
  IF backend.sme THEN copy_reversed_sc(last, n) ELSE copy_reversed_neon(last, n)

inner == copy_contiguous_bytes(0, args.src_width)
AddPaddingByCopyConstant ==
  fill_repeated_pixel(-1, args.left) \o inner
  \o fill_repeated_pixel(-1, args.right)
AddPaddingByCopyReplicate ==
  fill_repeated_pixel(0, args.left) \o inner
  \o fill_repeated_pixel(args.src_width - 1, args.right)
AddPaddingByCopyReflect ==
  copy_reversed_pixels(args.left - 1, args.left) \o inner
  \o copy_reversed_pixels(args.src_width - 1, args.right)
AddPaddingByCopyReverse ==
  copy_reversed_pixels(args.left, args.left) \o inner
  \o copy_reversed_pixels(args.src_width - 2, args.right)
AddPaddingByCopyWrap ==
  copy_contiguous_bytes(args.src_width - args.left, args.left) \o inner
  \o copy_contiguous_bytes(0, args.right)
AddPaddingByCopyIndexed ==
  SubSeq(operation.borders, 1, args.left) \o inner
  \o SubSeq(operation.borders, args.left + 1, args.left + args.right)

fill_row(strategy) ==
  CASE strategy = "constant"  -> AddPaddingByCopyConstant
    [] strategy = "replicate" -> AddPaddingByCopyReplicate
    [] strategy = "reflect"   -> AddPaddingByCopyReflect
    [] strategy = "reverse"   -> AddPaddingByCopyReverse
    [] strategy = "wrap"      -> AddPaddingByCopyWrap
    [] strategy = "indexed"   -> AddPaddingByCopyIndexed

LOCAL Smaller(a, b) == IF a < b THEN a ELSE b
LOCAL Larger(a, b) == IF a < b THEN b ELSE a

split_body_rows(b, e) ==
  LET body_begin == Smaller(Larger(b, args.top), e)
  IN  [begin |-> body_begin,
       end |-> Larger(body_begin, Smaller(e, args.top + args.src_height))]

Row(y, columns) == [x \in 1..dst_width |->
                      IF columns[x] = -1 THEN Border ELSE <<y, columns[x]>>]
BorderRow == [x \in 1..dst_width |-> Border]

\* The row that the stripe from b to e stores at y.
StripeRow(b, e, y) ==
  LET body == split_body_rows(b, e)
      s == operation.strategy
  IN  CASE y >= body.begin /\ y < body.end /\ args.src_width # 0 ->
             Row(y - args.top, fill_row(s))
        [] s = "constant" /\ (args.src_width = 0 \/ y < body.begin \/ y >= body.end) ->
             BorderRow
        [] s = "replicate" /\ y < body.begin -> Row(0, fill_row(s))
        [] s = "replicate" /\ y >= body.end -> Row(args.src_height - 1, fill_row(s))
        [] s \notin {"constant", "replicate"} /\ y < body.begin ->
             Row(operation.top[y + 1], fill_row(s))
        [] OTHER ->
             Row(operation.bottom[y - (args.top + args.src_height) + 1], fill_row(s))
-----------------------------------------------------------------------------
PaddingInit ==
  /\ args \in PaddingCalls /\ backend \in PaddingBackends
  /\ status = "checking" /\ operation = NoOperation
  /\ pad_stripes = {}
  /\ padded = [y \in 0..dst_height - 1 |-> [x \in 1..dst_width |-> Absent]]

Refuse ==
  /\ status = "checking" /\ add_padding_by_copy_checks # "ok"
  /\ status' = add_padding_by_copy_checks
  /\ UNCHANGED <<args, backend, operation, pad_stripes, padded>>

\* The maps are built once, before any stripe; malloc may fail.
create_add_padding_by_copy_operation ==
  /\ status = "checking" /\ add_padding_by_copy_checks = "ok"
  /\ \/ /\ operation' = Operation /\ status' = "ok"
        /\ \E k, l \in {0} \cup (StripeCuts \cap 1..dst_height - 1) :
             /\ k <= l
             /\ pad_stripes' = {s \in {<<0, k>>, <<k, l>>, <<l, dst_height>>} : s[1] < s[2]}
     \/ status' = "allocation" /\ UNCHANGED <<operation, pad_stripes>>
  /\ UNCHANGED <<args, backend, padded>>

process_stripe(s) ==
  /\ padded' = [y \in DOMAIN padded |-> IF y >= s[1] /\ y < s[2]
                                     THEN StripeRow(s[1], s[2], y) ELSE padded[y]]
  /\ pad_stripes' = pad_stripes \ {s}
  /\ UNCHANGED <<args, backend, status, operation>>

PaddingNext == \/ Refuse \/ create_add_padding_by_copy_operation
               \/ \E s \in pad_stripes : process_stripe(s)
PaddingSpec == PaddingInit /\ [][PaddingNext]_paddingVars
-----------------------------------------------------------------------------
(* The place that a position p outside the n of the image stands for, by   *)
(* mirroring or shifting it towards the image until it is inside; `reach`  *)
(* bounds the distance.                                                    *)
Towards(border, n, p) ==
  CASE border = "wrap"    -> IF p < 0 THEN p + n ELSE p - n
    [] border = "reflect" -> IF p < 0 THEN -1 - p ELSE (2 * n) - 1 - p
    [] border = "reverse" -> IF p < 0 THEN -p ELSE (2 * n) - 2 - p
Bounce(border, n, reach) ==
  LET B[p \in -reach..reach] ==
        IF p \in 0..n - 1 THEN p
        ELSE IF border = "replicate" THEN IF p < 0 THEN 0 ELSE n - 1
        ELSE IF border = "reverse" /\ n = 1 THEN 0
        ELSE B[Towards(border, n, p)]
  IN  B

\* The pixel wanted at row y and column x, counted from the image's first pixel.
Wanted(y, x) ==
  LET Place(n, p) == Bounce(args.border, n, dst_width + dst_height)[p]
  IN  IF args.border = "constant"
      THEN IF y \in 0..args.src_height - 1 /\ x \in 0..args.src_width - 1
           THEN <<y, x>> ELSE Border
      ELSE <<Place(args.src_height, y), Place(args.src_width, x)>>

\* An accepted call has a destination that the library can address, and every
\* row and column its maps name is one of the source.
MapsInsideSource ==
  status = "ok" =>
    /\ dst_width * dst_height <= MaxPixels
    /\ operation.strategy \notin {"constant", "replicate"} =>
         /\ \A i \in DOMAIN operation.top : operation.top[i] \in 0..args.src_height - 1
         /\ \A i \in DOMAIN operation.bottom :
              operation.bottom[i] \in 0..args.src_height - 1
         /\ \A i \in 1..dst_width :
              fill_row(operation.strategy)[i] \in 0..args.src_width - 1

(* Once every stripe is done each place of the destination holds the pixel *)
(* its border type gives it, at paddings wider than the image too, however *)
(* the rows were shared out and whichever strategy was resolved; a call    *)
(* that is refused or whose allocation fails has stored nothing; and the   *)
(* maps lead inside the source.                                            *)
Padded ==
  /\ status = "ok" /\ pad_stripes = {} =>
       \A y \in DOMAIN padded : \A x \in 1..dst_width :
         padded[y][x] = Wanted(y - args.top, x - 1 - args.left)
  /\ status # "ok" =>
       \A y \in DOMAIN padded : \A x \in 1..dst_width : padded[y][x] = Absent
  /\ MapsInsideSource
=============================================================================
