------------------------------- MODULE Canny -------------------------------
(***************************************************************************)
(* Hysteresis of Canny edge detection (kleidicv/src/analysis/              *)
(* canny_neon.cpp): non-maxima suppression leaves weak and strong edge     *)
(* pixels and pushes the strong ones; weak pixels next to a strong one are *)
(* promoted and pushed in turn.  Pixels are addresses in a buffer that has *)
(* a margin of one zeroed pixel on every side: neighbours are found by     *)
(* adding to the address, never by looking at rows and columns.            *)
(***************************************************************************)
EXTENDS BlockStack

CONSTANTS Width, Height,    \* of the buffers: Width is the image's, rounded up to
                            \* whole vectors; columns past the image hold no edge
          Margin,           \* Margin{1} of HysteresisBuffer
          Edges             \* values non-maxima suppression leaves: 0, 1 or 255

ASSUME CannyAssumption ==
  /\ Width \in Nat \ {0} /\ Height \in Nat \ {0} /\ Margin \in Nat \ {0}
  /\ Edges \subseteq {0, 1, 255}

VARIABLES
  input,      \* the edges found by non-maxima suppression, by row and column
  pixels,     \* the hysteresis buffer
  strong_edge_pixels,
  strong_pixel,       \* the pixel popped last
  next,               \* the next pixel to suppress, or the next neighbour
  pc

vars == <<input, pixels, strong_edge_pixels, strong_pixel, next, pc>>

stride == Width + 2 * Margin

Coordinates == (0..Height - 1) \X (0..Width - 1)

Address(p) == (p[1] + Margin) * stride + p[2] + Margin

Buffer == 0..stride * (Height + 2 * Margin) - 1

\* The stack holds pointers to pixels.
ASSUME ValuesAssumption == Buffer \subseteq Values
-----------------------------------------------------------------------------
Init ==
  /\ input \in [Coordinates -> Edges]
  /\ pixels = [a \in Buffer |-> 0]    \* make_zero_border_border, for the margin
  /\ strong_edge_pixels = EmptyStack
  /\ strong_pixel = 0
  /\ next = 0
  /\ pc = "suppress"

\* non_maxima_suppression_and_high_thresholding: every pixel is stored, by rows
\* and from left to right, and the strong ones are pushed.
Suppress ==
  LET p == <<next \div Width, next % Width>>
  IN  /\ pc = "suppress"
      /\ pixels' = [pixels EXCEPT ![Address(p)] = input[p]]
      /\ strong_edge_pixels' = IF input[p] = 255
                                 THEN push_back(strong_edge_pixels, Address(p))
                                 ELSE strong_edge_pixels
      /\ next' = next + 1
      /\ pc' = IF next' = Width * Height THEN "hysteresis" ELSE "suppress"
      /\ UNCHANGED <<input, strong_pixel>>

\* while (!strong_edge_pixels.empty()) of perform_hysteresis.
PopPixel ==
  /\ pc = "hysteresis"
  /\ ~empty(strong_edge_pixels)
  /\ strong_pixel' = back(strong_edge_pixels)
  /\ strong_edge_pixels' = pop_back(strong_edge_pixels)
  /\ next' = 1
  /\ pc' = "neighbours"
  /\ UNCHANGED <<input, pixels>>

\* Mutant: the last row of neighbours ends one pixel early.
Neighbours_Seven(a) ==
  <<a - stride - 1, a - stride, a - stride + 1, a - 1, a + 1,
    a + stride - 1, a + stride>>

\* The eight neighbours of a pixel, in the order they are looked at.
Neighbours(a) ==
  <<a - stride - 1, a - stride, a - stride + 1, a - 1, a + 1,
    a + stride - 1, a + stride, a + stride + 1>>

\* handle_potentially_strong_pixel
Promotable(a) == pixels[a] = 1

LookAtNeighbour ==
  LET a == Neighbours(strong_pixel)[next]
  IN  /\ pc = "neighbours"
      /\ IF Promotable(a)
           THEN /\ pixels' = [pixels EXCEPT ![a] = 255]
                /\ strong_edge_pixels' = push_back(strong_edge_pixels, a)
           ELSE UNCHANGED <<pixels, strong_edge_pixels>>
      /\ next' = next + 1
      /\ pc' = IF next = Len(Neighbours(strong_pixel)) THEN "hysteresis" ELSE "neighbours"
      /\ UNCHANGED <<input, strong_pixel>>

Return ==
  /\ pc = "hysteresis"
  /\ empty(strong_edge_pixels)
  /\ pc' = "returned"
  /\ UNCHANGED <<input, pixels, strong_edge_pixels, strong_pixel, next>>

Next == Suppress \/ PopPixel \/ LookAtNeighbour \/ Return

Spec == Init /\ [][Next]_vars

\* A call runs in the caller's thread until it returns.
FairSpec == Spec /\ WF_vars(Next)

\* kleidicv_threshold_binary_u8 with threshold 0x80 makes the final image.
dst(p) == IF pixels[Address(p)] > 128 THEN 255 ELSE 0
-----------------------------------------------------------------------------
\* Every element of the stack is a strong pixel of the image.
TypeOK ==
  /\ pc \in {"suppress", "hysteresis", "neighbours", "returned"}
  /\ input \in [Coordinates -> Edges]
  /\ pixels \in [Buffer -> {0, 1, 255}]
  /\ strong_pixel \in Buffer
  /\ next \in 0..Width * Height + 8
  /\ \A i \in DOMAIN Contents(strong_edge_pixels) :
       \E p \in Coordinates : /\ Contents(strong_edge_pixels)[i] = Address(p)
                              /\ pixels[Address(p)] = 255

(***************************************************************************)
(* What hysteresis is: the pixels that a chain of neighbouring edge pixels *)
(* connects to a strong one.                                               *)
(***************************************************************************)
Adjacent(p, q) ==
  /\ p[1] - q[1] \in -1..1
  /\ p[2] - q[2] \in -1..1

Closed(S) ==
  \A p \in Coordinates : input[p] # 0 /\ (\E q \in S : Adjacent(p, q)) => p \in S

\* S is the smallest set that contains the strong pixels and is closed.
Connected(S) ==
  LET strong == {p \in Coordinates : input[p] = 255}
  IN  /\ strong \subseteq S
      /\ Closed(S)
      /\ \A T \in SUBSET S : strong \subseteq T /\ Closed(T) => T = S

(***************************************************************************)
(* perform_hysteresis promotes exactly the connected pixels, although it   *)
(* only adds offsets to addresses: a pixel at the side of the image is no  *)
(* neighbour of the other side of the next row, and the order in which the *)
(* stack returns pixels does not matter.                                   *)
(***************************************************************************)
EdgesConnected ==
  pc = "returned" => Connected({p \in Coordinates : dst(p) = 255})

(***************************************************************************)
(* The linked blocks are a stack: right after a block boundary is crossed, *)
(* in either direction, back() is the pixel pushed last, and no push into  *)
(* a block that is used again brings back or loses a pixel.                *)
(***************************************************************************)
BackIsTop ==
  ~empty(strong_edge_pixels) =>
    /\ strong_edge_pixels.back \in 1..kBlockCapacity
    /\ back(strong_edge_pixels) =
         Contents(strong_edge_pixels)[Len(Contents(strong_edge_pixels))]

\* Exactly what is connected to a strong pixel is an edge, with a stack whose
\* back() is always the pixel pushed last.
EdgesFound == TypeOK /\ BackIsTop /\ EdgesConnected

Lifo == INSTANCE LifoStack WITH items <- Contents(strong_edge_pixels)

ImplementsLifo == Lifo!Spec

(***************************************************************************)
(* Hysteresis ends: no pixel is pushed a second time.                      *)
(***************************************************************************)
HysteresisEnds == <>(pc = "returned")
=============================================================================
