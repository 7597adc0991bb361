-------------------------- MODULE SeparableFilter --------------------------
(***************************************************************************)
(* SeparableFilterWorkspace and BlurAndDownsampleFilterWorkspace           *)
(* (kleidicv/include/kleidicv/workspace/separable.h, blur_and_downsample_  *)
(* ws.h) and the calls that use them: Gaussian blur, 5x5 separable filter, *)
(* Sobel, and blur and downsample.  A call is validated and cut into       *)
(* stripes of rows; each stripe allocates one buffer row, into which it    *)
(* filters vertically and from which it filters horizontally, row by row.  *)
(*                                                                         *)
(* Stripes share nothing but the source, so they are run one after the     *)
(* other here.  An element of the buffer holds the number of the row whose *)
(* vertical pass stored it.  Pointer, stride and image size checks, which  *)
(* do not touch the filter, are left out.                                  *)
(***************************************************************************)
EXTENDS FilterRows

CONSTANTS
  Calls,      \* the calls: see CallType
  Cuts,       \* sets of rows at which the scheduler starts a new stripe
  Garbage     \* contents of memory nothing has been stored to

\* vector: bytes of a vector; binomial: sigma is 0; flat: all the energy of
\* the kernel generated from sigma is in its middle; bytes: of an element.
CallType ==
  [op : {"gaussian_blur", "separable_filter_2d", "sobel", "blur_and_downsample"},
   size : Nat, sc : BOOLEAN, vector : Nat, bytes : {1, 2}, channels : Nat,
   width : Nat, height : Nat, border : BorderTypes \cup {"CONSTANT"},
   binomial : BOOLEAN, flat : BOOLEAN]

VARIABLES
  args,      \* the call
  cuts,
  status,
  begin,     \* first row of the stripe to come
  todo,      \* source rows of this stripe still to filter
  row,       \* the source row being filtered
  buffer,
  rows,      \* the rows tapped by the last vertical pass
  writes,    \* the stores of the last horizontal pass, with their taps
  count,     \* times each row of the destination was stored
  stray,     \* elements accessed outside the source row or the buffer
  pc

vars == <<args, cuts, status, begin, todo, row, buffer, rows, writes, count, stray, pc>>
-----------------------------------------------------------------------------
Fixed(size) == size <= 9 \/ size = 15 \/ size = 21

\* A kernel of any other size is filtered in blocks of eight elements, which
\* must not reach across the whole row.
FitsArbitrary(size, width) ==
  LET margin == size \div 2
  IN  width >= ((margin + 7) \div 8) * 8 + margin

gaussian_blur_validate(c) ==
  /\ HasFixedBorder(c.border)
  /\ c.size \in 3..255 /\ c.size % 2 = 1
  /\ c.width >= c.size - 1 /\ c.height >= c.size - 1
  /\ c.channels <= 4
  /\ Fixed(c.size) \/ (c.border = "REPLICATE" /\ FitsArbitrary(c.size, c.width))

separable_filter_2d_validate(c) ==
  /\ c.size = 5
  /\ c.width >= 4 /\ c.height >= 4
  /\ HasFixedBorder(c.border)
  /\ c.channels <= 4

sobel_validate(c) == c.width >= 2 /\ c.height >= 2 /\ c.channels <= 4

blur_and_downsample_validate(c) ==
  /\ c.width >= 4 /\ c.height >= 4 /\ c.channels \in 1..4
  /\ HasFixedBorder(c.border)

Valid(c) ==
  CASE c.op = "gaussian_blur" -> gaussian_blur_validate(c)
    [] c.op = "separable_filter_2d" -> separable_filter_2d_validate(c)
    [] c.op = "sobel" -> sobel_validate(c)
    [] c.op = "blur_and_downsample" -> blur_and_downsample_validate(c)

\* kleidicv_gaussian_blur_u8: which kernel is used.
Arbitrary == args.op = "gaussian_blur" /\ ~Fixed(args.size)
Downsamples == args.op = "blur_and_downsample"

\* gaussian_blur_fixed: the kernels of 15 and 21 are never binomial.
Custom == args.op = "gaussian_blur" /\ (~args.binomial \/ args.size > 9)

\* BufferType of the filter, by its size in bytes.
BufferBytes == IF Custom THEN args.bytes ELSE 2 * args.bytes

margin_ == args.size \div 2
length_ == args.width * args.channels
src_lanes == args.vector \div args.bytes
buffer_lanes == args.vector \div BufferBytes

DstRows == 0..(IF Downsamples THEN AlignUp2(args.height) \div 2 ELSE args.height) - 1
-----------------------------------------------------------------------------
Init ==
  /\ args \in Calls
  /\ cuts \in Cuts
  /\ status = "OK"
  /\ begin = 0 /\ row = 0
  /\ todo = {} /\ buffer = << >> /\ rows = << >> /\ writes = {} /\ stray = {}
  /\ count = [r \in DstRows |-> 0]
  /\ pc = "call"

Validate ==
  /\ pc = "call"
  /\ IF Valid(args) THEN pc' = "stripe" /\ UNCHANGED status
     ELSE pc' = "done" /\ status' = "NOT_IMPLEMENTED"
  /\ UNCHANGED <<args, cuts, begin, todo, row, buffer, rows, writes, count, stray>>

\* The end of the stripe that begins at b.
EndOf(b) ==
  LET after == {c \in cuts : c > b /\ c < args.height} \cup {args.height}
  IN  CHOOSE c \in after : \A d \in after : c <= d

\* The three loops of process_arbitrary.
FirstRows(b, e) == b..Lesser(e, margin_) - 1
MiddleRows(b, e) == Larger(b, margin_)..Lesser(e, args.height - margin_) - 1
LastRows(b, e) == Larger(b, args.height - margin_)..e - 1

\* for (vertical_index = align_up(y_begin, 2); ...; vertical_index += 2)
EvenRows(b, e) == {r \in AlignUp2(b)..e - 1 : r % 2 = 0}

RowsOf(b, e) ==
  IF Arbitrary THEN FirstRows(b, e) \cup MiddleRows(b, e) \cup LastRows(b, e)
  ELSE IF Downsamples THEN EvenRows(b, e)
  ELSE b..e - 1

\* allocate: elements of the buffer, three more than the row has.
allocate(length) == length + 3

\* create, at the start of every stripe.
Create ==
  /\ pc = "stripe" /\ begin < args.height
  /\ begin' = EndOf(begin)
  /\ \/ /\ buffer' = [e \in 0..allocate(length_) - 1 |-> Garbage]
        /\ todo' = RowsOf(begin, EndOf(begin))
        /\ pc' = IF Custom /\ args.flat THEN "copy" ELSE "vertical"
        /\ UNCHANGED status
     \/ /\ status' = "ALLOCATION"
        /\ UNCHANGED <<buffer, todo, pc>>
  /\ UNCHANGED <<args, cuts, row, rows, writes, count, stray>>

\* generate_gaussian_half_kernel failed: the rows are copied.
CopyRows ==
  /\ pc = "copy"
  /\ count' = [r \in DstRows |-> count[r] + (IF r \in todo THEN 1 ELSE 0)]
  /\ todo' = {}
  /\ pc' = "vertical"
  /\ UNCHANGED <<args, cuts, status, begin, row, buffer, rows, writes, stray>>

\* The rows tapped at row r.
RowsTapped(r) ==
  LET m == margin_
  IN  CASE Arbitrary /\ r \in MiddleRows(0, args.height) ->
             [k \in 0..2 * m |-> r + k - m]
        [] Arbitrary /\ r \notin MiddleRows(0, args.height) ->
             [k \in 0..2 * m |-> get_row(args.height, r + k - m)]
        [] OTHER ->
             LET offsets == offsets_with_border(m, args.border, args.height, r)
             IN  [k \in 0..2 * m |-> r + offsets[k]]

VerticalPass ==
  IF Arbitrary THEN process_arbitrary_vertical(length_, src_lanes)
  ELSE IF Downsamples
    THEN process_vertical_downsample(args.sc, length_, src_lanes)
  ELSE process_vertical(ClassOf(args.size, args.sc), args.sc,
                        BufferBytes > args.bytes, length_, src_lanes)

ProcessVertical ==
  /\ pc = "vertical" /\ todo # {}
  /\ LET r == CHOOSE x \in todo : \A y \in todo : x <= y
         pass == VerticalPass
     IN  /\ row' = r
         /\ todo' = todo \ {r}
         /\ rows' = RowsTapped(r)
         /\ buffer' = [e \in DOMAIN buffer |->
                         IF e \in pass.stores THEN r ELSE buffer[e]]
         /\ stray' = stray \cup (pass.loads \ (0..length_ - 1))
                           \cup (pass.stores \ DOMAIN buffer)
  /\ pc' = "horizontal"
  /\ UNCHANGED <<args, cuts, status, begin, writes, count>>

HorizontalPass ==
  IF Arbitrary
    THEN process_arbitrary_horizontal(margin_, args.width, args.channels,
                                      buffer_lanes)
  ELSE IF Downsamples
    THEN process_horizontal_downsample(args.sc, args.border, args.width,
                                       args.channels, buffer_lanes)
  ELSE process_horizontal(ClassOf(args.size, args.sc), args.sc, args.border,
                          args.width, args.channels, buffer_lanes)

ProcessHorizontal ==
  /\ pc = "horizontal"
  /\ writes' = HorizontalPass
  /\ stray' = stray \cup
       (UNION {{w[2][k] : k \in DOMAIN w[2]} : w \in writes'} \ DOMAIN buffer)
  /\ count' = [count EXCEPT ![IF Downsamples THEN row \div 2 ELSE row] = @ + 1]
  /\ pc' = "vertical"
  /\ UNCHANGED <<args, cuts, status, begin, todo, row, buffer, rows>>

\* The workspace is freed, and with it the buffer.
EndStripe ==
  /\ pc = "vertical" /\ todo = {}
  /\ buffer' = << >> /\ rows' = << >> /\ writes' = {}
  /\ pc' = "stripe"
  /\ UNCHANGED <<args, cuts, status, begin, todo, row, count, stray>>

Return ==
  /\ pc = "stripe" /\ begin = args.height
  /\ pc' = "done"
  /\ UNCHANGED <<args, cuts, status, begin, todo, row, buffer, rows, writes,
                 count, stray>>

Next ==
  \/ Validate \/ Create \/ CopyRows \/ ProcessVertical \/ ProcessHorizontal
  \/ EndStripe \/ Return

Spec == Init /\ [][Next]_vars
-----------------------------------------------------------------------------
FilterTypeOK ==
  /\ args \in CallType /\ cuts \in Cuts
  /\ status \in {"OK", "NOT_IMPLEMENTED", "ALLOCATION"}
  /\ begin \in 0..args.height /\ row \in 0..args.height
  /\ todo \subseteq 0..args.height - 1
  /\ pc \in {"call", "stripe", "copy", "vertical", "horizontal", "done"}

\* The source column and channel of an element of the destination.
Column(e) == (e \div args.channels) * (IF Downsamples THEN 2 ELSE 1)

(* Every element of a filtered row is stored, and stored from the kernel's *)
(* window around its own place, in its own channel, with what lies outside *)
(* the image replaced as the border type says, for images down to the      *)
(* smallest the validation accepts and on every path along the row.        *)
FilteredThroughBorder ==
  (writes # {}) =>
    LET m == margin_
        Window(n, i) == [k \in 0..2 * m |-> Shown(args.border, n, i + k - m)]
        Taps(e) == [k \in 0..2 * m |->
                      Window(args.width, Column(e))[k] * args.channels
                      + (e % args.channels)]
        width == IF Downsamples THEN AlignUp2(args.width) \div 2 ELSE args.width
    IN  /\ pc = "vertical" => rows = Window(args.height, row)
        /\ writes = {<<e, Taps(e)>> : e \in 0..width * args.channels - 1}

(* A horizontal pass taps only what the vertical pass of the same row has  *)
(* stored: no element is left over from the row before, and none is read   *)
(* that was never stored.                                                  *)
TapsAreFresh ==
  (pc = "vertical" /\ writes # {}) =>
    \A w \in writes : \A k \in DOMAIN w[2] : buffer[w[2][k]] = row

(* Neither pass accesses memory outside the source row and the buffer the  *)
(* stripe allocated, although interleaving stores of SVE go past the end   *)
(* of the row and the kernel of 21 has no loop for what is left of a row.  *)
StaysInBuffers == stray = {}

(* Once a call has returned OK every row of the destination was filtered   *)
(* exactly once, wherever the scheduler cut the image: with downsampling a *)
(* cut between two rows must not store their common row twice or never.    *)
StripesFilterEveryRow ==
  (pc = "done" /\ status = "OK") => \A r \in DstRows : count[r] = 1
=============================================================================
