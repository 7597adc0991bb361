----------------------------- MODULE CannyProof -----------------------------
(***************************************************************************)
(* Hysteresis, proved for images of every width and height, every edge map *)
(* non-maximum suppression can produce and every capacity of the stack's   *)
(* blocks.  Non-maxima suppression pushes the strong pixels, hysteresis    *)
(* pops them and pushes the weak pixels it promotes.  The argument is      *)
(* about which pixels are still to be visited: a found pixel that is       *)
(* neither on the stack nor being looked at has no weak neighbour left,    *)
(* and every set that holds the strong pixels and is closed under          *)
(* connection holds what was found so far.                                 *)
(***************************************************************************)
EXTENDS Canny, NumberLemmas, TLAPS

-----------------------------------------------------------------------------
(***************************************************************************)
(* The stack of blocks.  Only a stack without elements has none in its     *)
(* current block.                                                          *)
(***************************************************************************)
Blocks == Seq([1..kBlockCapacity -> Values \cup {Unset}])

StackOK(s) ==
  /\ s \in [blocks : Blocks, current : Nat, back : 0..kBlockCapacity]
  /\ s.current \in 1..Len(s.blocks)
  /\ s.back = 0 => s.current = 1

Size(s) == (s.current - 1) * kBlockCapacity + s.back

Cell(s, k) ==
  s.blocks[((k - 1) \div kBlockCapacity) + 1][((k - 1) % kBlockCapacity) + 1]

\* The elements of a stack are as many as its size says.
LEMMA ContentsAre ==
  ASSUME NEW s, StackOK(s)
  PROVE  /\ Size(s) \in Nat
         /\ Contents(s) = [k \in 1..Size(s) |-> Cell(s, k)]
         /\ Len(Contents(s)) = Size(s)
         /\ Contents(s) \in Seq(Values \cup {Unset})
<1>1. /\ kBlockCapacity \in Nat \ {0} /\ s.current \in Nat /\ s.current >= 1
      /\ s.back \in 0..kBlockCapacity /\ s.blocks \in Blocks
      /\ s.current <= Len(s.blocks)
  BY CapacityAssumption DEF StackOK, Blocks
<1>2. Size(s) \in Nat
  <2>1. s.current - 1 \in Nat
    BY <1>1
  <2>2. (s.current - 1) * kBlockCapacity \in Nat
    BY <1>1, <2>1
  <2> QED
    BY <1>1, <2>2 DEF Size
<1>3. Contents(s) = [k \in 1..Size(s) |-> Cell(s, k)]
  BY DEF Contents, Size, Cell
<1>4. ASSUME NEW k \in 1..Size(s) PROVE Cell(s, k) \in Values \cup {Unset}
  <2>1. PICK q \in Nat, r \in 0..kBlockCapacity - 1 :
          /\ (k - 1) \div kBlockCapacity = q /\ (k - 1) % kBlockCapacity = r
          /\ k - 1 = q * kBlockCapacity + r
    <3>1. k - 1 \in Nat
      BY <1>2
    <3> QED
      BY <1>1, <3>1, DivMod
  <2>2. q < s.current
    <3>1. SUFFICES ASSUME s.current <= q PROVE FALSE
      BY <1>1
    <3>2. (s.current - 1) * kBlockCapacity + kBlockCapacity <= q * kBlockCapacity
      BY <1>1, <3>1, Multiples
    <3>3. Size(s) <= (s.current - 1) * kBlockCapacity + kBlockCapacity
      BY <1>1 DEF Size
    <3>4. k <= Size(s) /\ k \in Int /\ Size(s) \in Int
      BY <1>2
    <3>5. /\ q * kBlockCapacity \in Int
          /\ (s.current - 1) * kBlockCapacity + kBlockCapacity \in Int
      BY <1>1, <2>1
    <3>6. q * kBlockCapacity <= k - 1
      BY <2>1, <3>4, <3>5
    <3> DEFINE m == q * kBlockCapacity
               l == (s.current - 1) * kBlockCapacity + kBlockCapacity
    <3>7. m \in Int /\ l \in Int /\ l <= m /\ Size(s) <= l /\ m <= k - 1
      BY <3>2, <3>3, <3>5, <3>6
    <3> HIDE DEF m, l
    <3> QED
      BY <3>4, <3>7
  <2>3. q + 1 \in 1..Len(s.blocks) /\ r + 1 \in 1..kBlockCapacity
    BY <1>1, <2>2 DEF Blocks
  <2>4. s.blocks[q + 1] \in [1..kBlockCapacity -> Values \cup {Unset}]
    BY <1>1, <2>3 DEF Blocks
  <2> QED
    BY <2>1, <2>3, <2>4 DEF Cell
<1>5. Contents(s) \in Seq(Values \cup {Unset}) /\ Len(Contents(s)) = Size(s)
  BY <1>2, <1>3, <1>4
<1> QED
  BY <1>2, <1>3, <1>5

\* A new stack is empty.
LEMMA EmptyIsEmpty == StackOK(EmptyStack) /\ Contents(EmptyStack) = << >>
<1>1. kBlockCapacity \in Nat \ {0}
  BY CapacityAssumption
<1>2. make_block \in [1..kBlockCapacity -> Values \cup {Unset}]
  BY DEF make_block
<1>3. <<make_block>> \in Blocks /\ Len(<<make_block>>) = 1
  BY <1>2 DEF Blocks
<1>4. EmptyStack.blocks = <<make_block>> /\ EmptyStack.current = 1 /\ EmptyStack.back = 0
  BY DEF EmptyStack
<1>5. StackOK(EmptyStack)
  BY <1>1, <1>3, <1>4 DEF StackOK, EmptyStack
<1>6. Size(EmptyStack) = 0
  BY <1>1, <1>4 DEF Size
<1>7. Contents(EmptyStack) = [k \in 1..0 |-> Cell(EmptyStack, k)]
  BY <1>5, <1>6, ContentsAre
<1> QED
  BY <1>5, <1>7

\* empty() and back() answer for the elements.
LEMMA TopOfStack ==
  ASSUME NEW s, StackOK(s)
  PROVE  /\ empty(s) <=> Size(s) = 0
         /\ ~empty(s) => /\ s.back \in 1..kBlockCapacity
                         /\ Size(s) \in Nat \ {0}
                         /\ back(s) = Contents(s)[Size(s)]
<1>1. /\ kBlockCapacity \in Nat \ {0} /\ s.current \in Nat /\ s.current >= 1
      /\ s.back \in 0..kBlockCapacity
      /\ s.back = 0 => s.current = 1
      /\ Size(s) \in Nat
  BY CapacityAssumption, ContentsAre DEF StackOK, Blocks
<1>2. CASE empty(s)
  BY <1>1, <1>2 DEF empty, Size
<1>3. CASE ~empty(s)
  <2>1. s.back \in 1..kBlockCapacity
    BY <1>1, <1>3 DEF empty
  <2>2. s.current - 1 \in Nat /\ (s.current - 1) * kBlockCapacity \in Nat
    BY <1>1
  <2>3. Size(s) \in Nat \ {0}
    BY <2>1, <2>2 DEF Size
  <2>4. PICK q \in Nat, r \in 0..kBlockCapacity - 1 : q = s.current - 1 /\ r = s.back - 1
    BY <1>1, <2>1, <2>2
  <2>5. Size(s) - 1 = q * kBlockCapacity + r
    BY <1>1, <2>2, <2>4 DEF Size
  <2>6. (Size(s) - 1) \div kBlockCapacity = q /\ (Size(s) - 1) % kBlockCapacity = r
    BY <1>1, <2>5, DivModOf
  <2>7. Cell(s, Size(s)) = s.blocks[s.current][s.back]
    BY <1>1, <2>1, <2>4, <2>6 DEF Cell
  <2>8. Contents(s)[Size(s)] = Cell(s, Size(s))
    BY <2>3, ContentsAre
  <2> QED
    BY <1>3, <2>1, <2>3, <2>7, <2>8 DEF back
<1> QED
  BY <1>2, <1>3

\* pop_back takes the last element away, also when it leaves a block.
LEMMA PopContents ==
  ASSUME NEW s, StackOK(s), ~empty(s)
  PROVE  /\ StackOK(pop_back(s))
         /\ Size(pop_back(s)) = Size(s) - 1
         /\ Contents(pop_back(s)) = SubSeq(Contents(s), 1, Len(Contents(s)) - 1)
<1>1. /\ kBlockCapacity \in Nat \ {0} /\ s.current \in Nat /\ s.current >= 1
      /\ s \in [blocks : Blocks, current : Nat, back : 0..kBlockCapacity]
      /\ s.current <= Len(s.blocks) /\ s.current \in 1..Len(s.blocks)
      /\ s.back \in 1..kBlockCapacity
      /\ Size(s) \in Nat \ {0}
  BY CapacityAssumption, TopOfStack, SMTT(30) DEF StackOK, Blocks
<1> DEFINE r == pop_back(s)
           t == [s EXCEPT !.back = @ - 1]
<1>2. /\ t.blocks = s.blocks /\ t.current = s.current /\ t.back = s.back - 1
      /\ t \in [blocks : Blocks, current : Nat, back : 0..kBlockCapacity]
  BY <1>1
<1>3. r = IF t.back = 0 /\ ~(t.current = 1 /\ t.back = 0)
          THEN [t EXCEPT !.current = @ - 1, !.back = kBlockCapacity] ELSE t
  BY DEF pop_back, prev_block, empty
<1> HIDE DEF r, t
<1>4. StackOK(r) /\ Size(r) = Size(s) - 1 /\ r.blocks = s.blocks
  <2>1. CASE t.back = 0 /\ t.current # 1
    <3>1. r = [t EXCEPT !.current = @ - 1, !.back = kBlockCapacity]
      BY <1>3, <2>1
    <3>2. r.blocks = s.blocks /\ r.current = s.current - 1 /\ r.back = kBlockCapacity
      BY <1>2, <3>1
    <3>3. r \in [blocks : Blocks, current : Nat, back : 0..kBlockCapacity]
      <4>1. t.current - 1 \in Nat /\ kBlockCapacity \in 0..kBlockCapacity
        BY <1>1, <1>2, <2>1
      <4> QED
        BY <1>2, <3>1, <4>1
    <3>4. StackOK(r)
      BY <1>1, <1>2, <2>1, <3>2, <3>3 DEF StackOK
    <3>5. Size(r) = Size(s) - 1
      BY <1>1, <1>2, <2>1, <3>2 DEF Size
    <3> QED
      BY <3>2, <3>4, <3>5
  <2>2. CASE ~(t.back = 0 /\ t.current # 1)
    <3>1. r = t
      BY <1>3, <2>2
    <3>2. StackOK(r)
      BY <1>1, <1>2, <2>2, <3>1 DEF StackOK
    <3>3. Size(r) = Size(s) - 1
      BY <1>1, <1>2, <3>1 DEF Size
    <3> QED
      BY <1>2, <3>1, <3>2, <3>3
  <2> QED
    BY <2>1, <2>2
<1>5. \A k : Cell(r, k) = Cell(s, k)
  BY <1>4 DEF Cell
<1>6. Contents(r) = [k \in 1..Size(s) - 1 |-> Cell(s, k)]
  BY <1>4, <1>5, ContentsAre
<1>7. /\ Contents(s) = [k \in 1..Size(s) |-> Cell(s, k)] /\ Len(Contents(s)) = Size(s)
      /\ Contents(s) \in Seq(Values \cup {Unset})
  BY ContentsAre
<1>8. Contents(r) = SubSeq(Contents(s), 1, Len(Contents(s)) - 1)
  BY <1>1, <1>6, <1>7
<1> QED
  BY <1>4, <1>8 DEF r

\* The block that a push stores to: it has a place left.
LEMMA PushBlock ==
  ASSUME NEW s, StackOK(s)
  PROVE  \E t \in [blocks : Blocks, current : Nat, back : 0..kBlockCapacity] :
           /\ t = IF s.back = kBlockCapacity THEN next_block(s) ELSE s
           /\ t.current \in 1..Len(t.blocks)
           /\ t.back \in 0..kBlockCapacity - 1
           /\ Size(t) = Size(s)
           /\ \A i \in 1..s.current : t.blocks[i] = s.blocks[i]
<1>1. /\ kBlockCapacity \in Nat \ {0} /\ s.current \in Nat /\ s.current >= 1
      /\ s \in [blocks : Blocks, current : Nat, back : 0..kBlockCapacity]
      /\ s.current \in 1..Len(s.blocks) /\ s.back \in 0..kBlockCapacity
      /\ s.blocks \in Blocks /\ Len(s.blocks) \in Nat
  BY CapacityAssumption DEF StackOK, Blocks
<1>2. 0 \in 0..kBlockCapacity - 1 /\ 0 \in 0..kBlockCapacity /\ s.current + 1 \in Nat
  BY <1>1
<1>3. CASE s.back # kBlockCapacity
  BY <1>1, <1>3
<1>4. CASE s.back = kBlockCapacity /\ s.current < Len(s.blocks)
  <2> DEFINE t == [s EXCEPT !.current = @ + 1, !.back = 0]
  <2>1. t.blocks = s.blocks /\ t.current = s.current + 1 /\ t.back = 0
    BY <1>1
  <2>2. t \in [blocks : Blocks, current : Nat, back : 0..kBlockCapacity]
    BY <1>1, <1>2
  <2>3. t = next_block(s)
    BY <1>4 DEF next_block
  <2> HIDE DEF t
  <2>4. Size(t) = Size(s)
    BY <1>1, <1>4, <2>1 DEF Size
  <2>5. t.current \in 1..Len(t.blocks)
    BY <1>1, <1>4, <2>1
  <2> QED
    BY <1>2, <1>4, <2>1, <2>2, <2>3, <2>4, <2>5
<1>5. CASE s.back = kBlockCapacity /\ ~(s.current < Len(s.blocks))
  <2> DEFINE t == [s EXCEPT !.blocks = Append(@, make_block), !.current = @ + 1, !.back = 0]
  <2>1. /\ t.blocks = Append(s.blocks, make_block)
        /\ t.current = s.current + 1 /\ t.back = 0
    BY <1>1
  <2>2. make_block \in [1..kBlockCapacity -> Values \cup {Unset}]
    BY DEF make_block
  <2>3. /\ Append(s.blocks, make_block) \in Blocks
        /\ Len(Append(s.blocks, make_block)) = Len(s.blocks) + 1
        /\ \A i \in 1..Len(s.blocks) : Append(s.blocks, make_block)[i] = s.blocks[i]
    BY <1>1, <2>2 DEF Blocks
  <2>4. t \in [blocks : Blocks, current : Nat, back : 0..kBlockCapacity]
    BY <1>1, <1>2, <2>3
  <2>5. t = next_block(s)
    BY <1>5 DEF next_block
  <2> HIDE DEF t
  <2>6. Size(t) = Size(s)
    BY <1>1, <1>5, <2>1 DEF Size
  <2>7. t.current \in 1..Len(t.blocks)
    BY <1>1, <1>5, <2>1, <2>3
  <2>8. \A i \in 1..s.current : t.blocks[i] = s.blocks[i]
    BY <1>1, <2>1, <2>3
  <2> QED
    BY <1>2, <1>5, <2>1, <2>4, <2>5, <2>6, <2>7, <2>8
<1> QED
  BY <1>3, <1>4, <1>5

\* push_back appends an element, whether it stays in the current block, uses a
\* block again that was kept or allocates one.
LEMMA PushContents ==
  ASSUME NEW s, StackOK(s), NEW v \in Values
  PROVE  StackOK(push_back(s, v)) /\ Contents(push_back(s, v)) = Append(Contents(s), v)
<1>1. PICK t \in [blocks : Blocks, current : Nat, back : 0..kBlockCapacity] :
        /\ t = IF s.back = kBlockCapacity THEN next_block(s) ELSE s
        /\ t.current \in 1..Len(t.blocks)
        /\ t.back \in 0..kBlockCapacity - 1
        /\ Size(t) = Size(s)
        /\ \A i \in 1..s.current : t.blocks[i] = s.blocks[i]
  BY PushBlock
<1>2. /\ kBlockCapacity \in Nat \ {0} /\ t.blocks \in Blocks
      /\ t.current \in Nat \ {0} /\ t.back + 1 \in 1..kBlockCapacity
      /\ t.blocks[t.current] \in [1..kBlockCapacity -> Values \cup {Unset}]
  BY <1>1, CapacityAssumption DEF Blocks
<1>3. /\ s.current \in Nat /\ s.current >= 1 /\ s.back \in 0..kBlockCapacity
      /\ Size(s) \in Nat
      /\ Contents(s) = [k \in 1..Size(s) |-> Cell(s, k)]
      /\ Len(Contents(s)) = Size(s)
      /\ Contents(s) \in Seq(Values \cup {Unset})
  BY ContentsAre, SMTT(30) DEF StackOK, Blocks
<1> DEFINE r == push_back(s, v)
           new == [t.blocks EXCEPT ![t.current] = [@ EXCEPT ![t.back + 1] = v]]
<1>4. r = [t EXCEPT !.blocks = new, !.back = @ + 1]
  BY <1>1 DEF push_back
<1>5. /\ new \in Blocks /\ Len(new) = Len(t.blocks)
      /\ new[t.current][t.back + 1] = v
      /\ \A i \in 1..Len(t.blocks) : \A j \in 1..kBlockCapacity :
           i # t.current \/ j # t.back + 1 => new[i][j] = t.blocks[i][j]
  BY <1>1, <1>2 DEF Blocks
<1> HIDE DEF new, r
<1>6. r.blocks = new /\ r.current = t.current /\ r.back = t.back + 1
  BY <1>1, <1>4
<1>7. StackOK(r)
  <2>1. r \in [blocks : Blocks, current : Nat, back : 0..kBlockCapacity]
    <3>1. t.back + 1 \in 0..kBlockCapacity
      BY <1>2
    <3> QED
      BY <1>1, <1>4, <1>5, <3>1
  <2> QED
    BY <1>1, <1>2, <1>5, <1>6, <2>1 DEF StackOK
<1>8. Size(r) = Size(s) + 1
  <2>1. (t.current - 1) * kBlockCapacity \in Int
    BY <1>2
  <2> QED
    BY <1>1, <1>6, <2>1 DEF Size
<1>9. ASSUME NEW k \in 1..Size(s) PROVE Cell(r, k) = Cell(s, k)
  <2>1. k - 1 \in Nat
    BY <1>3
  <2>2. PICK q \in Nat, j \in 0..kBlockCapacity - 1 :
          /\ (k - 1) \div kBlockCapacity = q /\ (k - 1) % kBlockCapacity = j
          /\ k - 1 = q * kBlockCapacity + j
    <3>1. kBlockCapacity \in Nat \ {0}
      BY <1>2
    <3> QED
      BY <2>1, <3>1, DivMod
  <2>3. q < s.current
    <3>1. SUFFICES ASSUME s.current <= q PROVE FALSE
      BY <1>3
    <3>2. (s.current - 1) * kBlockCapacity + kBlockCapacity <= q * kBlockCapacity
      BY <1>2, <1>3, <3>1, Multiples
    <3>3. Size(s) <= (s.current - 1) * kBlockCapacity + kBlockCapacity
      BY <1>2, <1>3 DEF Size
    <3>4. k <= Size(s) /\ k \in Int /\ Size(s) \in Int
      BY <1>3
    <3>5. q * kBlockCapacity <= k - 1
      BY <1>2, <2>2
    <3>6. (s.current - 1) * kBlockCapacity \in Int /\ q * kBlockCapacity \in Int
      BY <1>2, <1>3
    <3> QED
      BY <1>2, <3>2, <3>3, <3>4, <3>5, <3>6
  <2>4. ~(q + 1 = t.current /\ j + 1 = t.back + 1)
    <3>0. q \in Int /\ j \in Int /\ t.current \in Int /\ t.back \in Int
      BY <1>1, <1>2, <2>2
    <3>1. SUFFICES ASSUME q = t.current - 1, j = t.back PROVE FALSE
      BY <3>0
    <3>2. k - 1 = Size(t)
      BY <2>2, <3>1 DEF Size
    <3>3. k <= Size(s) /\ k \in Int
      BY <1>3
    <3> QED
      BY <1>1, <3>2, <3>3
  <2>5. q + 1 \in 1..s.current /\ q + 1 \in 1..Len(t.blocks) /\ j + 1 \in 1..kBlockCapacity
    <3>1. s.current <= t.current
      BY <1>1, <1>2, <1>3 DEF next_block
    <3> QED
      BY <1>1, <1>2, <1>3, <2>3, <3>1, SMTT(30) DEF Blocks
  <2>6. new[q + 1][j + 1] = s.blocks[q + 1][j + 1]
    BY <1>1, <1>5, <2>4, <2>5, SMTT(30)
  <2> QED
    BY <1>6, <2>2, <2>6 DEF Cell
<1>10. Cell(r, Size(s) + 1) = v
  <2>1. PICK q \in Nat, j \in 0..kBlockCapacity - 1 : q = t.current - 1 /\ j = t.back
    <3>1. t.current - 1 \in Nat
      BY <1>2
    <3> QED
      BY <1>1, <3>1
  <2>2. Size(s) = q * kBlockCapacity + j
    BY <1>1, <2>1 DEF Size
  <2>3. Size(s) \div kBlockCapacity = q /\ Size(s) % kBlockCapacity = j
    BY <1>2, <2>2, DivModOf
  <2>4. (Size(s) + 1) - 1 = Size(s)
    BY <1>3
  <2>5. q + 1 = t.current /\ j + 1 = t.back + 1
    BY <1>2, <2>1
  <2> QED
    BY <1>5, <1>6, <2>3, <2>4, <2>5 DEF Cell
<1>11. Contents(r) = [k \in 1..Size(s) + 1 |-> Cell(r, k)]
  BY <1>7, <1>8, ContentsAre
<1>12. Contents(r) = Append(Contents(s), v)
  BY <1>3, <1>9, <1>10, <1>11
<1> QED
  BY <1>7, <1>12 DEF r
-----------------------------------------------------------------------------
(***************************************************************************)
(* The inductive invariant of hysteresis.                                  *)
(*                                                                         *)
(* MarginIsZero: only pixels of the image are ever edges.                  *)
(*                                                                         *)
(* Suppressed: while non-maxima suppression runs, the pixels up to next    *)
(* have been stored and the strong ones among them pushed.                 *)
(*                                                                         *)
(* Promoted: afterwards a pixel is what it was, or was weak and is strong  *)
(* now; a strong pixel is on the stack, or none of its neighbours is weak, *)
(* except for those of the pixel popped last that are still to come.       *)
(*                                                                         *)
(* NothingElse: every set that contains the strong pixels and is closed    *)
(* contains what has been found so far.                                    *)
(***************************************************************************)
Elements == Contents(strong_edge_pixels)

OnStack(a) == \E i \in 1..Len(Elements) : Elements[i] = a

Position(p) == p[1] * Width + p[2]

Strong == {p \in Coordinates : input[p] = 255}

Found == {p \in Coordinates : pixels[Address(p)] = 255}

IsFound(a) == \E p \in Found : a = Address(p)

CannyTypes ==
  /\ pc \in {"suppress", "hysteresis", "neighbours", "returned"}
  /\ input \in [Coordinates -> Edges]
  /\ pixels \in [Buffer -> {0, 1, 255}]
  /\ strong_pixel \in Buffer
  /\ next \in 0..Width * Height + 8
  /\ pc = "suppress" => next < Width * Height
  /\ pc = "neighbours" => next \in 1..8 /\ IsFound(strong_pixel)
  /\ pc = "returned" => empty(strong_edge_pixels)

StackHoldsFound ==
  /\ StackOK(strong_edge_pixels)
  /\ \A i \in 1..Len(Elements) : IsFound(Elements[i])

MarginIsZero ==
  \A a \in Buffer : pixels[a] # 0 => \E p \in Coordinates : a = Address(p)

Suppressed ==
  pc = "suppress" =>
    \A p \in Coordinates :
      /\ pixels[Address(p)] = IF Position(p) < next THEN input[p] ELSE 0
      /\ p \in Found => OnStack(Address(p))

Spread(p) ==
  \A k \in 1..8 : \/ pixels[Neighbours(Address(p))[k]] # 1
                  \/ pc = "neighbours" /\ strong_pixel = Address(p) /\ k >= next

Promoted ==
  pc # "suppress" =>
    \A p \in Coordinates :
      /\ input[p] # 1 => pixels[Address(p)] = input[p]
      /\ input[p] = 1 => pixels[Address(p)] \in {1, 255}
      /\ p \in Found => OnStack(Address(p)) \/ Spread(p)

NothingElse ==
  \A T \in SUBSET Coordinates : Strong \subseteq T /\ Closed(T) => Found \subseteq T

CannyInv ==
  CannyTypes /\ StackHoldsFound /\ MarginIsZero /\ Suppressed /\ Promoted /\ NothingElse
-----------------------------------------------------------------------------
(***************************************************************************)
(* Addresses.  The margin has room for the neighbours of every pixel, and  *)
(* two places of the buffer, its margin included, have different addresses.*)
(***************************************************************************)
Place(i, j) == (i + Margin) * stride + (j + Margin)

\* The image, its margin and a row of the buffer are not empty.
LEMMA Sizes ==
  /\ Width \in Nat \ {0} /\ Height \in Nat \ {0} /\ Margin \in Nat \ {0}
  /\ stride \in Nat \ {0} /\ stride = Width + 2 * Margin
  /\ Width * Height \in Nat \ {0}
<1>1. /\ Width \in Nat \ {0} /\ Height \in Nat \ {0} /\ Margin \in Nat \ {0}
  BY CannyAssumption
<1>2. stride \in Nat \ {0} /\ stride = Width + 2 * Margin
  BY <1>1 DEF stride
<1>3. Width * Height \in Nat \ {0}
  BY <1>1
<1> QED
  BY <1>1, <1>2, <1>3

\* The margin is part of the buffer.
LEMMA PlacesInBuffer ==
  ASSUME NEW i \in -1..Height, NEW j \in -1..Width
  PROVE  Place(i, j) \in Buffer
<1>1. PICK q \in Nat, r \in 0..stride - 1 : q = i + Margin /\ r = j + Margin
  BY Sizes
<1>2. PICK h \in Nat : h = Height + 2 * Margin /\ q < h
  BY <1>1, Sizes
<1>3. q * stride + stride <= h * stride
  BY <1>2, Multiples, Sizes
<1>4. PICK m \in Nat, n \in Nat : m = q * stride /\ n = h * stride
  BY Sizes
<1>5. stride * h = h * stride
  BY Sizes
<1>6. m + r \in 0..n - 1
  BY <1>1, <1>3, <1>4, Sizes
<1> QED
  BY <1>1, <1>2, <1>4, <1>5, <1>6 DEF Place, Buffer

\* No two places have the same address.
LEMMA PlacesDiffer ==
  ASSUME NEW i \in -1..Height, NEW j \in -1..Width,
         NEW k \in -1..Height, NEW l \in -1..Width, Place(i, j) = Place(k, l)
  PROVE  i = k /\ j = l
<1>1. PICK q \in Int, r \in 0..stride - 1 : q = i + Margin /\ r = j + Margin
  BY Sizes
<1>2. PICK u \in Int, v \in 0..stride - 1 : u = k + Margin /\ v = l + Margin
  BY Sizes
<1>3. q = u /\ r = v
  BY <1>1, <1>2, Euclid, Sizes DEF Place
<1> QED
  BY <1>1, <1>2, <1>3, Sizes

\* Rows and columns of a pixel.
LEMMA PixelPlace ==
  ASSUME NEW p \in Coordinates
  PROVE  /\ p[1] \in 0..Height - 1 /\ p[2] \in 0..Width - 1
         /\ p = <<p[1], p[2]>> /\ Address(p) = Place(p[1], p[2])
         /\ Address(p) \in Buffer
<1>1. /\ p[1] \in 0..Height - 1 /\ p[2] \in 0..Width - 1 /\ p = <<p[1], p[2]>>
  BY DEF Coordinates
<1>2. Address(p) = Place(p[1], p[2])
  <2>1. (p[1] + Margin) * stride \in Int
    BY <1>1, Sizes
  <2> QED
    BY <1>1, <2>1, Sizes DEF Address, Place
<1>3. p[1] \in -1..Height /\ p[2] \in -1..Width
  BY <1>1, Sizes
<1> QED
  BY <1>1, <1>2, <1>3, PlacesInBuffer

\* Two pixels of the image never share a place of the buffer.
LEMMA AddressesDiffer ==
  ASSUME NEW p \in Coordinates, NEW q \in Coordinates, Address(p) = Address(q)
  PROVE  p = q
<1>1. /\ p[1] \in -1..Height /\ p[2] \in -1..Width
      /\ q[1] \in -1..Height /\ q[2] \in -1..Width
  BY PixelPlace, Sizes
<1>2. p[1] = q[1] /\ p[2] = q[2]
  BY <1>1, PixelPlace, PlacesDiffer
<1> QED
  BY <1>2, PixelPlace

\* Adding to the address of a pixel leads to the places around it.
LEMMA NeighbourPlaces ==
  ASSUME NEW i \in 0..Height - 1, NEW j \in 0..Width - 1
  PROVE  LET n == Neighbours(Place(i, j))
         IN  /\ Len(n) = 8
             /\ n[1] = Place(i - 1, j - 1) /\ n[2] = Place(i - 1, j)
             /\ n[3] = Place(i - 1, j + 1) /\ n[4] = Place(i, j - 1)
             /\ n[5] = Place(i, j + 1) /\ n[6] = Place(i + 1, j - 1)
             /\ n[7] = Place(i + 1, j) /\ n[8] = Place(i + 1, j + 1)
<1>1. PICK m \in Int : m = (i + Margin) * stride
  BY Sizes
<1>2. (i - 1 + Margin) * stride = m - stride /\ (i + 1 + Margin) * stride = m + stride
  BY <1>1, Sizes
<1>3. PICK c \in Int : c = j + Margin /\ j - 1 + Margin = c - 1 /\ j + 1 + Margin = c + 1
  BY Sizes
<1>4. Place(i, j) = m + c
  BY <1>1, <1>3 DEF Place
<1>5. /\ Place(i - 1, j - 1) = m - stride + (c - 1)
      /\ Place(i - 1, j) = m - stride + c
      /\ Place(i - 1, j + 1) = m - stride + (c + 1)
      /\ Place(i, j - 1) = m + (c - 1)
      /\ Place(i, j + 1) = m + (c + 1)
      /\ Place(i + 1, j - 1) = m + stride + (c - 1)
      /\ Place(i + 1, j) = m + stride + c
      /\ Place(i + 1, j + 1) = m + stride + (c + 1)
  BY <1>1, <1>2, <1>3 DEF Place
<1>6. /\ (m + c) - stride - 1 = m - stride + (c - 1)
      /\ (m + c) - stride = m - stride + c
      /\ (m + c) - stride + 1 = m - stride + (c + 1)
      /\ (m + c) - 1 = m + (c - 1)
      /\ (m + c) + 1 = m + (c + 1)
      /\ (m + c) + stride - 1 = m + stride + (c - 1)
      /\ (m + c) + stride = m + stride + c
      /\ (m + c) + stride + 1 = m + stride + (c + 1)
  BY <1>1, <1>3, Sizes
<1>7. Neighbours(Place(i, j)) =
        <<(m + c) - stride - 1, (m + c) - stride, (m + c) - stride + 1, (m + c) - 1, (m + c) + 1,
          (m + c) + stride - 1, (m + c) + stride, (m + c) + stride + 1>>
  BY <1>4 DEF Neighbours
<1> QED
  BY <1>5, <1>6, <1>7

\* The neighbours of a pixel are the adjacent ones, and pixels of the margin.
LEMMA NeighboursAround ==
  ASSUME NEW p \in Coordinates
  PROVE  /\ Len(Neighbours(Address(p))) = 8
         /\ \A k \in 1..8 : Neighbours(Address(p))[k] \in Buffer
         /\ \A k \in 1..8 : \A q \in Coordinates :
              Neighbours(Address(p))[k] = Address(q) => Adjacent(q, p)
         /\ \A q \in Coordinates :
              Adjacent(q, p) /\ q # p => \E k \in 1..8 : Neighbours(Address(p))[k] = Address(q)
<1>1. PICK i \in 0..Height - 1, j \in 0..Width - 1 :
        p = <<i, j>> /\ Address(p) = Place(i, j) /\ p[1] = i /\ p[2] = j
  BY PixelPlace
<1> DEFINE n == Neighbours(Address(p))
<1>2. /\ Len(n) = 8
      /\ n[1] = Place(i - 1, j - 1) /\ n[2] = Place(i - 1, j)
      /\ n[3] = Place(i - 1, j + 1) /\ n[4] = Place(i, j - 1)
      /\ n[5] = Place(i, j + 1) /\ n[6] = Place(i + 1, j - 1)
      /\ n[7] = Place(i + 1, j) /\ n[8] = Place(i + 1, j + 1)
  BY <1>1, NeighbourPlaces
<1> HIDE DEF n
<1>3. /\ i \in -1..Height /\ i - 1 \in -1..Height /\ i + 1 \in -1..Height
      /\ j \in -1..Width /\ j - 1 \in -1..Width /\ j + 1 \in -1..Width
  BY Sizes
<1>4. \A k \in 1..8 : \E a \in {i - 1, i, i + 1}, b \in {j - 1, j, j + 1} : n[k] = Place(a, b)
  <2>1. ASSUME NEW k \in 1..8
        PROVE  k = 1 \/ k = 2 \/ k = 3 \/ k = 4 \/ k = 5 \/ k = 6 \/ k = 7 \/ k = 8
    OBVIOUS
  <2> QED
    BY <1>2, <2>1
<1>5. ASSUME NEW k \in 1..8 PROVE n[k] \in Buffer
  BY <1>3, <1>4, PlacesInBuffer
<1>6. ASSUME NEW k \in 1..8, NEW q \in Coordinates, n[k] = Address(q) PROVE Adjacent(q, p)
  <2>1. PICK a \in {i - 1, i, i + 1}, b \in {j - 1, j, j + 1} : n[k] = Place(a, b)
    BY <1>4
  <2>2. a \in -1..Height /\ b \in -1..Width
    BY <1>3, <2>1
  <2>3. q[1] \in -1..Height /\ q[2] \in -1..Width /\ Address(q) = Place(q[1], q[2])
    BY PixelPlace, Sizes
  <2>4. q[1] = a /\ q[2] = b
    <3>1. Place(q[1], q[2]) = Place(a, b)
      BY <1>6, <2>1, <2>3
    <3> QED
      BY <2>2, <2>3, <3>1, PlacesDiffer
  <2> QED
    BY <1>1, <2>1, <2>4 DEF Adjacent
<1>7. ASSUME NEW q \in Coordinates, Adjacent(q, p), q # p
      PROVE  \E k \in 1..8 : n[k] = Address(q)
  <2>1. PICK a \in 0..Height - 1, b \in 0..Width - 1 :
          q = <<a, b>> /\ Address(q) = Place(a, b) /\ q[1] = a /\ q[2] = b
    BY PixelPlace
  <2>2. a - i \in -1..1 /\ b - j \in -1..1
    BY <1>1, <1>7, <2>1 DEF Adjacent
  <2>3. a \in {i - 1, i, i + 1} /\ b \in {j - 1, j, j + 1}
    BY <2>2
  <2>4. ~(a = i /\ b = j)
    BY <1>1, <1>7, <2>1
  <2> QED
    BY <1>2, <2>1, <2>3, <2>4
<1> QED
  BY <1>2, <1>5, <1>6, <1>7 DEF n

\* Non-maxima suppression goes through the pixels one by one.
LEMMA ScanOrder ==
  ASSUME NEW n \in Nat, n < Width * Height
  PROVE  /\ <<n \div Width, n % Width>> \in Coordinates
         /\ Position(<<n \div Width, n % Width>>) = n
         /\ \A q \in Coordinates : Position(q) = n => q = <<n \div Width, n % Width>>
<1>1. PICK i \in Nat, j \in 0..Width - 1 :
        i = n \div Width /\ j = n % Width /\ n = i * Width + j
  BY DivMod, Sizes
<1>2. i < Height
  <2>1. SUFFICES ASSUME Height <= i PROVE FALSE
    BY Sizes
  <2>2. (Height - 1) * Width + Width <= i * Width
    BY <2>1, Multiples, Sizes
  <2>3. (Height - 1) * Width + Width = Width * Height
    BY Sizes
  <2>4. i * Width \in Nat /\ Width * Height \in Nat
    BY Sizes
  <2> QED
    BY <1>1, <2>2, <2>3, <2>4
<1>3. <<i, j>> \in Coordinates /\ Position(<<i, j>>) = n
  BY <1>1, <1>2, Sizes DEF Coordinates, Position
<1>4. ASSUME NEW q \in Coordinates
      PROVE  Position(q) = n => q = <<i, j>>
  <2>1. PICK a \in 0..Height - 1, b \in 0..Width - 1 : q = <<a, b>>
    BY DEF Coordinates
  <2>2. Position(q) = a * Width + b
    BY <2>1 DEF Position
  <2>3. a \in Nat /\ a * Width \in Nat
    BY Sizes
  <2>4. Position(q) = n => a = i /\ b = j
    BY <1>1, <2>2, <2>3, Euclid, Sizes
  <2> QED
    BY <2>1, <2>4
<1> QED
  BY <1>1, <1>3, <1>4

\* The last pixel has the last position.
LEMMA ScanRange ==
  ASSUME NEW q \in Coordinates
  PROVE  Position(q) \in Nat /\ Position(q) < Width * Height
<1>1. PICK a \in 0..Height - 1, b \in 0..Width - 1 : q = <<a, b>>
  BY DEF Coordinates
<1>2. a * Width + Width <= Height * Width
  BY Multiples, Sizes
<1>3. a * Width \in Nat /\ Height * Width = Width * Height /\ Width * Height \in Nat
  BY Sizes
<1> QED
  BY <1>1, <1>2, <1>3, Sizes DEF Position
-----------------------------------------------------------------------------
\* Nothing is found before the first pixel is suppressed.
LEMMA CannyInit == Init => CannyInv
<1> SUFFICES ASSUME Init PROVE CannyInv
  OBVIOUS
<1>1. 0 \in Buffer
  <2>1. Height + 2 * Margin \in Nat \ {0}
    BY Sizes
  <2>2. stride * (Height + 2 * Margin) \in Nat \ {0}
    BY <2>1, Sizes
  <2> QED
    BY <2>2 DEF Buffer
<1>2. \A p \in Coordinates : pixels[Address(p)] = 0
  BY PixelPlace DEF Init
<1>3. Found = {}
  BY <1>2 DEF Found
<1>4. CannyTypes
  BY <1>1, Sizes DEF Init, CannyTypes
<1>5. StackHoldsFound
  BY EmptyIsEmpty DEF Init, StackHoldsFound, Elements
<1>6. MarginIsZero
  BY DEF Init, MarginIsZero
<1>7. Suppressed
  <2>1. \A p \in Coordinates : ~(Position(p) < 0)
    <3>1. \A p \in Coordinates : Position(p) \in Nat
      BY ScanRange
    <3> QED
      BY <3>1
  <2> QED
    BY <1>2, <1>3, <2>1 DEF Init, Suppressed
<1>8. Promoted /\ NothingElse
  BY <1>3 DEF Init, Promoted, NothingElse
<1> QED
  BY <1>4, <1>5, <1>6, <1>7, <1>8 DEF CannyInv

\* Storing a pixel of the image.
Stored(p, v) == pixels' = [pixels EXCEPT ![Address(p)] = v]

\* A store changes one pixel, and never the margin.
LEMMA StorePixel ==
  ASSUME CannyInv, NEW p \in Coordinates, NEW v \in {0, 1, 255}, Stored(p, v)
  PROVE  /\ pixels' \in [Buffer -> {0, 1, 255}]
         /\ MarginIsZero'
         /\ pixels'[Address(p)] = v
         /\ \A q \in Coordinates : q # p => pixels'[Address(q)] = pixels[Address(q)]
         /\ \A a \in Buffer : a # Address(p) => pixels'[a] = pixels[a]
<1>1. pixels \in [Buffer -> {0, 1, 255}] /\ Address(p) \in Buffer
  BY PixelPlace DEF CannyInv, CannyTypes
<1>2. /\ pixels' \in [Buffer -> {0, 1, 255}]
      /\ pixels'[Address(p)] = v
      /\ \A a \in Buffer : a # Address(p) => pixels'[a] = pixels[a]
  BY <1>1 DEF Stored
<1>3. \A q \in Coordinates : q # p => pixels'[Address(q)] = pixels[Address(q)]
  BY <1>2, AddressesDiffer, PixelPlace
<1>4. MarginIsZero'
  BY <1>2 DEF CannyInv, MarginIsZero
<1> QED
  BY <1>2, <1>3, <1>4

\* A pixel that becomes strong is pushed.
LEMMA PushFound ==
  ASSUME CannyInv, NEW p \in Coordinates, Stored(p, 255),
         strong_edge_pixels' = push_back(strong_edge_pixels, Address(p))
  PROVE  /\ Found' = Found \cup {p}
         /\ StackHoldsFound'
         /\ \A a : OnStack(a)' <=> OnStack(a) \/ a = Address(p)
<1>1. Found' = Found \cup {p}
  <2>1. /\ pixels'[Address(p)] = 255
        /\ \A q \in Coordinates : q # p => pixels'[Address(q)] = pixels[Address(q)]
    BY StorePixel
  <2>2. Found' = {q \in Coordinates : pixels'[Address(q)] = 255}
    BY DEF Found, Coordinates, Address, stride
  <2> QED
    BY <2>1, <2>2 DEF Found
<1>2. /\ StackOK(strong_edge_pixels')
      /\ Elements' = Append(Elements, Address(p))
      /\ Elements \in Seq(Values \cup {Unset})
      /\ Address(p) \in Values
  <2>1. Address(p) \in Values /\ StackOK(strong_edge_pixels)
    BY PixelPlace, ValuesAssumption DEF CannyInv, StackHoldsFound
  <2> QED
    BY <2>1, PushContents, ContentsAre DEF Elements
<1>3. PICK n \in Nat : n = Len(Elements)
  BY <1>2
<1>4. /\ Len(Elements') = n + 1 /\ Elements'[n + 1] = Address(p)
      /\ \A i \in 1..n : Elements'[i] = Elements[i]
  BY <1>2, <1>3
<1>5. \A i \in 1..n + 1 : i \in 1..n \/ i = n + 1
  BY <1>3
<1>6. 1..n \subseteq 1..n + 1 /\ n + 1 \in 1..n + 1
  BY <1>3
<1>7. \A a : OnStack(a)' <=> OnStack(a) \/ a = Address(p)
  BY <1>3, <1>4, <1>5, <1>6 DEF OnStack
<1>8. StackHoldsFound'
  <2>1. \A i \in 1..n : IsFound(Elements[i])
    BY <1>3 DEF CannyInv, StackHoldsFound
  <2>2. \A i \in 1..n + 1 : \E q \in Found' : Elements'[i] = Address(q)
    BY <1>1, <1>4, <1>5, <2>1 DEF IsFound
  <2> QED
    BY <1>2, <1>4, <2>2 DEF StackHoldsFound, IsFound
<1> QED
  BY <1>1, <1>7, <1>8

\* What is found after one more pixel was suppressed.
LEMMA SuppressKeeps == CannyInv /\ Suppress => CannyInv'
<1> SUFFICES ASSUME CannyInv, Suppress PROVE CannyInv'
  OBVIOUS
<1>1. next \in Nat /\ next < Width * Height /\ pc = "suppress"
  BY Sizes DEF Suppress, CannyInv, CannyTypes
<1>2. PICK p \in Coordinates : /\ p = <<next \div Width, next % Width>> /\ Position(p) = next
                               /\ \A q \in Coordinates : Position(q) = next => q = p
  BY <1>1, ScanOrder
<1>p. p \in Coordinates
  BY <1>2
<1>3. /\ pixels' = [pixels EXCEPT ![Address(p)] = input[p]]
      /\ strong_edge_pixels' = IF input[p] = 255
                                 THEN push_back(strong_edge_pixels, Address(p))
                                 ELSE strong_edge_pixels
      /\ next' = next + 1
      /\ pc' = IF next' = Width * Height THEN "hysteresis" ELSE "suppress"
      /\ UNCHANGED <<input, strong_pixel>>
  BY <1>2 DEF Suppress
<1>4. input[p] \in {0, 1, 255} /\ \A q \in Coordinates : input[q] \in {0, 1, 255}
  <2>1. input \in [Coordinates -> Edges] /\ Edges \subseteq {0, 1, 255}
    BY CannyAssumption DEF CannyInv, CannyTypes
  <2>2. \A x \in Edges : x \in {0, 1, 255}
    BY <2>1
  <2>3. \A q \in Coordinates : input[q] \in Edges
    BY <2>1
  <2>4. \A q \in Coordinates : input[q] \in {0, 1, 255}
    BY <2>2, <2>3
  <2> QED
    BY <1>p, <2>4
<1>5. \A q \in Coordinates : pixels[Address(q)] = IF Position(q) < next THEN input[q] ELSE 0
  BY <1>1 DEF CannyInv, Suppressed
<1>6. pixels[Address(p)] = 0
  BY <1>1, <1>2, <1>5
<1>7. /\ pixels' \in [Buffer -> {0, 1, 255}]
      /\ MarginIsZero'
      /\ pixels'[Address(p)] = input[p]
      /\ \A q \in Coordinates : q # p => pixels'[Address(q)] = pixels[Address(q)]
  <2>1. PICK v \in {0, 1, 255} : v = input[p]
    BY <1>4
  <2>2. Stored(p, v)
    BY <1>3, <2>1 DEF Stored
  <2>3. v \in {0, 1, 255}
    BY <2>1
  <2>4. /\ pixels' \in [Buffer -> {0, 1, 255}]
        /\ MarginIsZero'
        /\ pixels'[Address(p)] = v
        /\ \A q \in Coordinates : q # p => pixels'[Address(q)] = pixels[Address(q)]
    BY <1>p, <2>2, <2>3, StorePixel
  <2> QED
    BY <2>1, <2>4
<1>8. ASSUME NEW q \in Coordinates
      PROVE  pixels'[Address(q)] = IF Position(q) < next' THEN input[q] ELSE 0
  <2>1. Position(q) \in Nat
    BY ScanRange
  <2>2. CASE q = p
    BY <1>1, <1>2, <1>3, <1>7, <2>2
  <2>3. CASE q # p
    <3>1. Position(q) # next
      BY <1>2, <2>3
    <3>2. Position(q) < next' <=> Position(q) < next
      BY <1>1, <1>3, <2>1, <3>1
    <3> QED
      BY <1>5, <1>7, <2>3, <3>2
  <2> QED
    BY <2>2, <2>3
<1>9. \A q \in Coordinates : q \in Found => OnStack(Address(q))
  BY <1>1 DEF CannyInv, Suppressed
<1>10. /\ StackHoldsFound'
       /\ \A q \in Coordinates : q \in Found' => OnStack(Address(q))'
       /\ Found' \subseteq Found \cup Strong
  <2>1. CASE input[p] = 255
    <3>1. /\ Found' = Found \cup {p} /\ StackHoldsFound'
          /\ \A a : OnStack(a)' <=> OnStack(a) \/ a = Address(p)
      BY <1>p, <1>3, <2>1, PushFound DEF Stored
    <3> QED
      BY <1>9, <2>1, <3>1 DEF Strong
  <2>2. CASE input[p] # 255
    <3>1. Found' = Found
      <4>1. Found' = {q \in Coordinates : pixels'[Address(q)] = 255}
        BY DEF Found, Coordinates, Address, stride
      <4>2. \A q \in Coordinates : pixels'[Address(q)] = 255 <=> pixels[Address(q)] = 255
        BY <1>6, <1>7, <2>2
      <4> QED
        BY <4>1, <4>2 DEF Found
    <3>2. Elements' = Elements /\ StackOK(strong_edge_pixels')
      BY <1>3, <2>2 DEF Elements, CannyInv, StackHoldsFound
    <3>3. StackHoldsFound'
      BY <3>1, <3>2 DEF CannyInv, StackHoldsFound, IsFound
    <3> QED
      BY <1>9, <3>1, <3>2, <3>3 DEF OnStack
  <2> QED
    BY <2>1, <2>2
<1>11. CannyTypes'
  <2>1. next' \in 0..Width * Height + 8 /\ (next' # Width * Height => next' < Width * Height)
    BY <1>1, <1>3, Sizes
  <2> QED
    BY <1>3, <1>7, <2>1 DEF CannyInv, CannyTypes
<1>12. Suppressed'
  <2>1. \A q \in Coordinates : pixels'[Address(q)] = IF Position(q) < next' THEN input'[q] ELSE 0
    BY <1>3, <1>8
  <2> QED
    BY <1>10, <2>1 DEF Suppressed
<1>13. Promoted'
  <2>1. SUFFICES ASSUME pc' # "suppress" PROVE Promoted'
    BY DEF Promoted
  <2>2. next' = Width * Height
    BY <1>3, <2>1
  <2>3. \A q \in Coordinates : pixels'[Address(q)] = input'[q]
    BY <1>3, <1>8, <2>2, ScanRange
  <2> QED
    BY <1>10, <2>3 DEF Promoted
<1>14. NothingElse'
  <2>1. Strong' = Strong /\ \A T : Closed(T)' <=> Closed(T)
    BY <1>3 DEF Strong, Closed
  <2> QED
    BY <1>10, <2>1 DEF CannyInv, NothingElse
<1> QED
  BY <1>7, <1>10, <1>11, <1>12, <1>13, <1>14 DEF CannyInv

\* A pixel that was popped is left with all its neighbours to look at.
LEMMA PopKeeps == CannyInv /\ PopPixel => CannyInv'
<1> SUFFICES ASSUME CannyInv, PopPixel PROVE CannyInv'
  OBVIOUS
<1>1. /\ pc = "hysteresis" /\ ~empty(strong_edge_pixels)
      /\ strong_pixel' = back(strong_edge_pixels)
      /\ strong_edge_pixels' = pop_back(strong_edge_pixels)
      /\ next' = 1 /\ pc' = "neighbours"
      /\ input' = input /\ pixels' = pixels
  BY DEF PopPixel
<1>2. PICK n \in Nat \ {0} : /\ n = Len(Elements) /\ n = Size(strong_edge_pixels)
                             /\ back(strong_edge_pixels) = Elements[n]
                             /\ Elements \in Seq(Values \cup {Unset})
  BY <1>1, TopOfStack, ContentsAre DEF Elements, CannyInv, StackHoldsFound
<1>3. /\ StackOK(strong_edge_pixels')
      /\ Elements' = SubSeq(Elements, 1, n - 1)
  BY <1>1, <1>2, PopContents DEF Elements, CannyInv, StackHoldsFound
<1>4. n - 1 \in Nat /\ Len(Elements') = n - 1 /\ \A i \in 1..n - 1 : Elements'[i] = Elements[i]
  BY <1>2, <1>3
<1>5. \A i \in 1..n : i \in 1..n - 1 \/ i = n
  BY <1>2
<1>6. 1..n - 1 \subseteq 1..n /\ n \in 1..n
  BY <1>2
<1>7. Found' = Found /\ Strong' = Strong /\ \A T : Closed(T)' <=> Closed(T)
  BY <1>1 DEF Found, Strong, Closed
<1>8. \A i \in 1..n : IsFound(Elements[i])
  BY <1>2 DEF CannyInv, StackHoldsFound
<1>9. StackHoldsFound'
  BY <1>3, <1>4, <1>6, <1>7, <1>8 DEF StackHoldsFound, IsFound
<1>10. IsFound(strong_pixel)' /\ strong_pixel' \in Buffer
  <2>1. PICK p \in Found : strong_pixel' = Address(p)
    BY <1>1, <1>2, <1>6, <1>8 DEF IsFound
  <2> QED
    BY <1>7, <2>1, PixelPlace DEF IsFound, Found
<1>11. CannyTypes'
  <2>1. 1 \in 0..Width * Height + 8
    BY Sizes
  <2> QED
    BY <1>1, <1>10, <2>1 DEF CannyInv, CannyTypes
<1>12. MarginIsZero' /\ Suppressed' /\ NothingElse'
  BY <1>1, <1>7 DEF CannyInv, MarginIsZero, Suppressed, NothingElse
<1>13. \A a : OnStack(a) => OnStack(a)' \/ a = strong_pixel'
  BY <1>1, <1>2, <1>4, <1>5 DEF OnStack
<1>14. ASSUME NEW p \in Found PROVE OnStack(Address(p))' \/ Spread(p)'
  <2>1. OnStack(Address(p)) \/ Spread(p)
    BY <1>1, <1>14 DEF CannyInv, Promoted, Found
  <2>2. CASE Spread(p)
    BY <1>1, <2>2 DEF Spread
  <2>3. CASE Address(p) = strong_pixel'
    <3>1. \A k \in 1..8 : k >= next'
      BY <1>1
    <3> QED
      BY <1>1, <2>3, <3>1 DEF Spread
  <2> QED
    BY <1>13, <2>1, <2>2, <2>3
<1>15. Promoted'
  BY <1>1, <1>7, <1>14 DEF CannyInv, Promoted
<1> QED
  BY <1>9, <1>11, <1>12, <1>15 DEF CannyInv

\* A weak neighbour of a strong pixel is promoted: every closed set that has the
\* one has the other.
LEMMA LookKeeps == CannyInv /\ LookAtNeighbour => CannyInv'
<1> SUFFICES ASSUME CannyInv, LookAtNeighbour PROVE CannyInv'
  OBVIOUS
<1>1. PICK p \in Coordinates : p \in Found /\ strong_pixel = Address(p)
  BY DEF LookAtNeighbour, CannyInv, CannyTypes, IsFound, Found
<1>2. PICK k \in 1..8 : k = next
  BY DEF LookAtNeighbour, CannyInv, CannyTypes
<1>3. PICK a \in Buffer : a = Neighbours(Address(p))[k]
  BY <1>1, <1>2, NeighboursAround
<1>4. /\ pc = "neighbours"
      /\ IF pixels[a] = 1
           THEN /\ pixels' = [pixels EXCEPT ![a] = 255]
                /\ strong_edge_pixels' = push_back(strong_edge_pixels, a)
           ELSE UNCHANGED <<pixels, strong_edge_pixels>>
      /\ next' = k + 1
      /\ pc' = IF k = 8 THEN "hysteresis" ELSE "neighbours"
      /\ UNCHANGED <<input, strong_pixel>>
  <2>1. Len(Neighbours(strong_pixel)) = 8 /\ Neighbours(strong_pixel)[next] = a
    BY <1>1, <1>2, <1>3, NeighboursAround
  <2> QED
    BY <1>2, <2>1 DEF LookAtNeighbour, Promotable
<1>5. Strong' = Strong /\ \A T : Closed(T)' <=> Closed(T)
  BY <1>4 DEF Strong, Closed
<1>6. /\ pixels' \in [Buffer -> {0, 1, 255}] /\ MarginIsZero' /\ StackHoldsFound'
      /\ \A b \in Buffer : b # a => pixels'[b] = pixels[b]
      /\ pixels'[a] # 1
      /\ \A b : OnStack(b) => OnStack(b)'
      /\ Found \subseteq Found'
      /\ \A q \in Found' : q \in Found \/ (OnStack(Address(q))' /\ Adjacent(q, p) /\ input[q] # 0)
      /\ \A q \in Coordinates : pixels'[Address(q)] # pixels[Address(q)] =>
           input[q] = 1 /\ pixels'[Address(q)] = 255
  <2>1. CASE pixels[a] = 1
    <3>1. PICK q \in Coordinates : a = Address(q)
      BY <2>1 DEF CannyInv, MarginIsZero
    <3>2. q \in Coordinates /\ a = Address(q) /\ pixels[Address(q)] = 1
      BY <2>1, <3>1
    <3>3. Stored(q, 255) /\ strong_edge_pixels' = push_back(strong_edge_pixels, Address(q))
      BY <1>4, <2>1, <3>2 DEF Stored
    <3>4. /\ pixels' \in [Buffer -> {0, 1, 255}] /\ MarginIsZero'
          /\ pixels'[Address(q)] = 255
          /\ \A r \in Coordinates : r # q => pixels'[Address(r)] = pixels[Address(r)]
          /\ \A b \in Buffer : b # Address(q) => pixels'[b] = pixels[b]
      BY <3>2, <3>3, StorePixel
    <3>5. /\ Found' = Found \cup {q} /\ StackHoldsFound'
          /\ \A b : OnStack(b)' <=> OnStack(b) \/ b = Address(q)
      BY <3>2, <3>3, PushFound
    <3>6. input[q] = 1
      <4>1. input[q] # 1 => pixels[Address(q)] = input[q]
        BY <1>4, <3>2 DEF CannyInv, Promoted
      <4> QED
        BY <3>2, <4>1
    <3>7. Adjacent(q, p)
      BY <1>1, <1>3, <3>2, NeighboursAround
    <3> QED
      BY <3>2, <3>4, <3>5, <3>6, <3>7
  <2>2. CASE pixels[a] # 1
    <3>1. pixels' = pixels /\ strong_edge_pixels' = strong_edge_pixels
      BY <1>4, <2>2
    <3>2. Found' = Found /\ Elements' = Elements
      BY <3>1 DEF Found, Elements
    <3>3. StackHoldsFound' /\ MarginIsZero'
      BY <3>1, <3>2 DEF CannyInv, StackHoldsFound, IsFound, MarginIsZero
    <3> QED
      BY <1>3, <2>2, <3>1, <3>2, <3>3 DEF CannyInv, CannyTypes, OnStack
  <2> QED
    BY <2>1, <2>2
<1>7. CannyTypes'
  <2>1. next' \in 0..Width * Height + 8 /\ (k # 8 => next' \in 1..8)
    BY <1>2, <1>4, Sizes
  <2>2. IsFound(strong_pixel)'
    BY <1>1, <1>4, <1>6 DEF IsFound
  <2> QED
    BY <1>4, <1>6, <2>1, <2>2 DEF CannyInv, CannyTypes
<1>8. ASSUME NEW q \in Found PROVE OnStack(Address(q))' \/ Spread(q)'
  <2>1. q \in Coordinates
    BY <1>8 DEF Found
  <2>2. OnStack(Address(q)) \/ Spread(q)
    BY <1>4, <1>8, <2>1 DEF CannyInv, Promoted
  <2>3. SUFFICES ASSUME Spread(q), NEW j \in 1..8
                 PROVE  \/ pixels'[Neighbours(Address(q))[j]] # 1
                        \/ pc' = "neighbours" /\ strong_pixel' = Address(q) /\ j >= next'
    BY <1>6, <2>2 DEF Spread
  <2>4. PICK b \in Buffer : b = Neighbours(Address(q))[j]
    BY <2>1, NeighboursAround
  <2>5. CASE pixels[b] # 1
    BY <1>6, <2>4, <2>5
  <2>6. CASE strong_pixel = Address(q) /\ j >= k
    <3>1. q = p
      BY <1>1, <2>1, <2>6, AddressesDiffer
    <3>2. CASE j = k
      BY <1>3, <1>6, <3>1, <3>2
    <3>3. CASE j # k
      <4>1. k # 8 /\ j >= k + 1
        BY <2>6, <3>3
      <4> QED
        BY <1>4, <2>6, <4>1
    <3> QED
      BY <3>2, <3>3
  <2> QED
    BY <1>2, <2>3, <2>4, <2>5, <2>6 DEF Spread
<1>9. Promoted'
  <2>1. ASSUME NEW q \in Coordinates
        PROVE  /\ input[q] # 1 => pixels'[Address(q)] = input[q]
               /\ input[q] = 1 => pixels'[Address(q)] \in {1, 255}
               /\ q \in Found' => OnStack(Address(q))' \/ Spread(q)'
    <3>1. /\ input[q] # 1 => pixels[Address(q)] = input[q]
          /\ input[q] = 1 => pixels[Address(q)] \in {1, 255}
      BY <1>4 DEF CannyInv, Promoted
    <3>2. q \in Found' => OnStack(Address(q))' \/ Spread(q)'
      BY <1>6, <1>8
    <3> QED
      BY <1>6, <3>1, <3>2
  <2> QED
    BY <1>4, <2>1 DEF Promoted
<1>10. NothingElse'
  <2>1. SUFFICES ASSUME NEW T \in SUBSET Coordinates, Strong \subseteq T, Closed(T)
                 PROVE  Found' \subseteq T
    BY <1>5 DEF NothingElse
  <2>2. Found \subseteq T
    BY <2>1 DEF CannyInv, NothingElse
  <2>3. p \in T
    BY <1>1, <2>2
  <2>4. \A q \in Found' : q \in Coordinates
    BY DEF Found
  <2>5. \A q \in Coordinates : Adjacent(q, p) /\ input[q] # 0 => q \in T
    BY <2>1, <2>3 DEF Closed
  <2> QED
    BY <1>6, <2>2, <2>4, <2>5
<1>11. Suppressed'
  BY <1>4 DEF Suppressed
<1> QED
  BY <1>6, <1>7, <1>9, <1>10, <1>11 DEF CannyInv

\* Returning and stuttering change nothing that was found.
LEMMA RestKeeps == CannyInv /\ (Return \/ UNCHANGED vars) => CannyInv'
<1> SUFFICES ASSUME CannyInv, Return \/ UNCHANGED vars PROVE CannyInv'
  OBVIOUS
<1>1. UNCHANGED <<input, pixels, strong_edge_pixels, strong_pixel, next>>
  BY DEF Return, vars
<1>2. \/ pc' = pc
      \/ pc = "hysteresis" /\ pc' = "returned" /\ empty(strong_edge_pixels)
  BY DEF Return, vars
<1>3. /\ Found' = Found /\ Elements' = Elements /\ Strong' = Strong
      /\ \A T : Closed(T)' <=> Closed(T)
  BY <1>1 DEF Found, Elements, Strong, Closed
<1>4. CannyTypes'
  BY <1>1, <1>2, <1>3 DEF CannyInv, CannyTypes, IsFound
<1>5. StackHoldsFound' /\ MarginIsZero' /\ NothingElse'
  BY <1>1, <1>3 DEF CannyInv, StackHoldsFound, IsFound, MarginIsZero, NothingElse
<1>6. Suppressed'
  BY <1>1, <1>2, <1>3 DEF CannyInv, Suppressed, OnStack
<1>7. Promoted'
  <2>1. \A p : OnStack(Address(p))' <=> OnStack(Address(p))
    BY <1>3 DEF OnStack
  <2>2. \A p : Spread(p) => Spread(p)'
    BY <1>1, <1>2 DEF Spread
  <2> QED
    BY <1>1, <1>2, <1>3, <2>1, <2>2 DEF CannyInv, Promoted
<1> QED
  BY <1>4, <1>5, <1>6, <1>7 DEF CannyInv

\* Every step keeps the invariant.
LEMMA CannyStep == CannyInv /\ [Next]_vars => CannyInv'
BY SuppressKeeps, PopKeeps, LookKeeps, RestKeeps DEF Next

\* When the stack is empty what was found is closed, and it is the smallest.
LEMMA InvFound == CannyInv => EdgesFound
<1> SUFFICES ASSUME CannyInv PROVE EdgesFound
  OBVIOUS
<1>1. /\ StackOK(strong_edge_pixels)
      /\ Elements = Contents(strong_edge_pixels)
      /\ Len(Elements) = Size(strong_edge_pixels)
      /\ Elements \in Seq(Values \cup {Unset})
  BY ContentsAre DEF CannyInv, StackHoldsFound, Elements
<1>2. TypeOK
  <2>1. ASSUME NEW i \in DOMAIN Elements
        PROVE  \E p \in Coordinates : Elements[i] = Address(p) /\ pixels[Address(p)] = 255
    <3>1. i \in 1..Len(Elements)
      BY <1>1
    <3> QED
      BY <3>1 DEF CannyInv, StackHoldsFound, IsFound, Found
  <2> QED
    BY <1>1, <2>1 DEF CannyInv, CannyTypes, TypeOK
<1>3. BackIsTop
  <2>1. ~empty(strong_edge_pixels) =>
          /\ strong_edge_pixels.back \in 1..kBlockCapacity
          /\ back(strong_edge_pixels) = Elements[Size(strong_edge_pixels)]
    BY <1>1, TopOfStack
  <2> QED
    BY <1>1, <2>1 DEF BackIsTop
<1>4. EdgesConnected
  <2>1. SUFFICES ASSUME pc = "returned" PROVE Connected({p \in Coordinates : dst(p) = 255})
    BY DEF EdgesConnected
  <2>2. \A a : ~OnStack(a)
    <3>1. Len(Elements) = 0
      BY <1>1, <2>1, TopOfStack DEF CannyInv, CannyTypes
    <3> QED
      BY <3>1 DEF OnStack
  <2>3. {p \in Coordinates : dst(p) = 255} = Found
    <3>1. \A p \in Coordinates : pixels[Address(p)] \in {0, 1, 255}
      BY PixelPlace DEF CannyInv, CannyTypes
    <3>2. \A p \in Coordinates : dst(p) = 255 <=> pixels[Address(p)] = 255
      BY <3>1 DEF dst
    <3> QED
      BY <3>2 DEF Found
  <2>4. Strong \subseteq Found
    BY <2>1 DEF CannyInv, Promoted, Strong, Found
  <2>5. ASSUME NEW p \in Coordinates, input[p] # 0, NEW q \in Found, Adjacent(p, q)
        PROVE  p \in Found
    <3>1. q \in Coordinates /\ Spread(q)
      BY <2>1, <2>2, <2>5 DEF CannyInv, Promoted, Found
    <3>2. CASE p # q
      <4>1. PICK k \in 1..8 : Neighbours(Address(q))[k] = Address(p)
        BY <2>5, <3>1, <3>2, NeighboursAround
      <4>2. pixels[Address(p)] # 1
        BY <2>1, <3>1, <4>1 DEF Spread
      <4>3. input[p] = 1 => pixels[Address(p)] = 255
        BY <2>1, <4>2 DEF CannyInv, Promoted
      <4>4. input[p] # 1 => input[p] = 255 /\ pixels[Address(p)] = 255
        <5>1. input[p] # 1 => pixels[Address(p)] = input[p]
          BY <2>1 DEF CannyInv, Promoted
        <5>2. pixels[Address(p)] \in {0, 1, 255}
          BY PixelPlace DEF CannyInv, CannyTypes
        <5> QED
          BY <2>5, <5>1, <5>2
      <4> QED
        BY <4>3, <4>4 DEF Found
    <3> QED
      BY <2>5, <3>2
  <2>6. Closed(Found)
    BY <2>5 DEF Closed
  <2>7. \A T \in SUBSET Found : Strong \subseteq T /\ Closed(T) => T = Found
    <3>1. \A T \in SUBSET Found : T \in SUBSET Coordinates
      BY DEF Found
    <3> QED
      BY <3>1 DEF CannyInv, NothingElse
  <2>8. Connected(Found)
    BY <2>4, <2>6, <2>7 DEF Connected, Strong
  <2> QED
    BY <2>3, <2>8
<1> QED
  BY <1>2, <1>3, <1>4 DEF EdgesFound

(***************************************************************************)
(* Hysteresis is exact for every image and every size of block: it returns *)
(* the pixels that a chain of edge pixels connects to a strong one, and no *)
(* other; the stack gives back the pixel pushed last across its blocks.    *)
(***************************************************************************)
THEOREM HysteresisExact == Spec => []EdgesFound
<1>1. Init => CannyInv
  BY CannyInit
<1>2. CannyInv /\ [Next]_vars => CannyInv'
  BY CannyStep
<1>3. CannyInv => EdgesFound
  BY InvFound
<1> QED
  BY <1>1, <1>2, <1>3, PTL DEF Spec

\* A step of hysteresis is a push, a pop or none for the stack.
LEMMA StackStep ==
  ASSUME CannyInv, [Next]_vars
  PROVE  [Lifo!Next]_Elements
<1>1. StackOK(strong_edge_pixels)
  BY DEF CannyInv, StackHoldsFound
<1>2. ASSUME NEW a \in Values, strong_edge_pixels' = push_back(strong_edge_pixels, a)
      PROVE  Lifo!Push(a)
  <2>1. Elements' = Append(Elements, a)
    BY <1>1, <1>2, PushContents DEF Elements
  <2> QED
    BY <2>1 DEF Lifo!Push, Elements
<1>3. strong_edge_pixels' = strong_edge_pixels => Elements' = Elements
  BY DEF Elements
<1>4. CASE Suppress
  <2>0. next \in Nat /\ next < Width * Height
    BY <1>4, Sizes DEF Suppress, CannyInv, CannyTypes
  <2>1. PICK p \in Coordinates : p = <<next \div Width, next % Width>>
    BY <2>0, ScanOrder
  <2>2. PICK a \in Values : a = Address(p)
    BY <2>1, PixelPlace, ValuesAssumption
  <2>3. \/ strong_edge_pixels' = push_back(strong_edge_pixels, a)
        \/ strong_edge_pixels' = strong_edge_pixels
    BY <1>4, <2>1, <2>2 DEF Suppress
  <2> QED
    BY <1>2, <1>3, <2>2, <2>3 DEF Lifo!Next
<1>5. CASE PopPixel
  <2>1. Elements' = SubSeq(Elements, 1, Len(Elements) - 1)
    BY <1>1, <1>5, PopContents DEF PopPixel, Elements
  <2>2. Elements # << >>
    <3>1. Len(Elements) \in Nat \ {0}
      BY <1>1, <1>5, TopOfStack, ContentsAre DEF PopPixel, Elements
    <3> QED
      BY <3>1
  <2> QED
    BY <2>1, <2>2 DEF Lifo!Next, Lifo!Pop, Elements
<1>6. CASE LookAtNeighbour
  <2>1. PICK p \in Coordinates : strong_pixel = Address(p)
    BY <1>6 DEF LookAtNeighbour, CannyInv, CannyTypes, IsFound, Found
  <2>2. PICK a \in Buffer : a = Neighbours(strong_pixel)[next]
    BY <1>6, <2>1, NeighboursAround DEF LookAtNeighbour, CannyInv, CannyTypes
  <2>3. \/ strong_edge_pixels' = push_back(strong_edge_pixels, a)
        \/ strong_edge_pixels' = strong_edge_pixels
    BY <1>6, <2>2 DEF LookAtNeighbour
  <2>4. a \in Values
    BY <2>2, ValuesAssumption
  <2> QED
    BY <1>2, <1>3, <2>3, <2>4 DEF Lifo!Next
<1>7. CASE Return \/ UNCHANGED vars
  <2>1. strong_edge_pixels' = strong_edge_pixels
    BY <1>7 DEF Return, vars
  <2> QED
    BY <1>3, <2>1
<1> QED
  BY <1>4, <1>5, <1>6, <1>7 DEF Next

(***************************************************************************)
(* The blocks implement a stack: what hysteresis does to them is a push, a *)
(* pop or nothing, however many blocks it takes and gives back.            *)
(***************************************************************************)
THEOREM BlocksAreStack == Spec => ImplementsLifo
<1>1. Init => CannyInv
  BY CannyInit
<1>2. CannyInv /\ [Next]_vars => CannyInv'
  BY CannyStep
<1>3. Init => Lifo!Init
  BY EmptyIsEmpty DEF Init, Lifo!Init
<1>4. CannyInv /\ [Next]_vars => [Lifo!Next]_(Contents(strong_edge_pixels))
  BY StackStep DEF Elements
<1> QED
  BY <1>1, <1>2, <1>3, <1>4, PTL DEF Spec, ImplementsLifo, Lifo!Spec
=============================================================================
