--------------------------- MODULE GeometryProof ---------------------------
(***************************************************************************)
(* Flip and padding.  For every size of image and number of threads: no    *)
(* two threads of a flip ever touch the same pixel, and when all work      *)
(* items are done every pixel is where the flip mode puts it; and every    *)
(* place of a padded image shows the source pixel that its border type     *)
(* gives it, however the rows were shared out.                             *)
(***************************************************************************)
EXTENDS Flip, Padding, NumberLemmas, SequenceTheorems, TLAPS

(***************************************************************************)
(* The inductive invariant: a work item that was handed out belongs to one *)
(* thread, and is one of the flip_work_item_count that the image has.      *)
(***************************************************************************)
Busy(t) == at[t] # "idle"

InputTypes ==
  /\ width \in Nat
  /\ height \in Nat
  /\ in_place \in BOOLEAN
  /\ flip_mode \in {"HORIZONTAL", "VERTICAL", "BOTH", "OTHER"}

ItemsOwned ==
  /\ InputTypes
  /\ DOMAIN at = Threads
  /\ DOMAIN item = Threads
  /\ work_items \subseteq 0..flip_work_item_count - 1
  /\ error = "none" => work_items = {} /\ \A t \in Threads : ~Busy(t)
  /\ \A t \in Threads : Busy(t) => /\ item[t] \in 0..flip_work_item_count - 1
                                   /\ item[t] \notin work_items
  /\ \A t, u \in Threads : t # u /\ Busy(t) /\ Busy(u) => item[t] # item[u]

\* Distinct work items have no row in common: the pixels of a block lie in the
\* row of the work item, their targets in the mirrored row.
LEMMA RowsDisjoint ==
  ASSUME InputTypes,
         NEW i \in 0..flip_work_item_count - 1,
         NEW j \in 0..flip_work_item_count - 1,
         i # j
  PROVE  /\ Mirrored(i) # Mirrored(j)
         /\ in_place => i # Mirrored(j)
BY DEF InputTypes, flip_work_item_count, Mirrored

\* The rows in which the current block of a thread and its targets lie.
LEMMA BlockRows ==
  ASSUME NEW t \in Threads
  PROVE  /\ \A p \in Block(t) : p[1] = item[t] /\ Target(p)[1] = Mirrored(item[t])
         /\ \A q \in Exchanged(t) : q[1] \in {item[t], Mirrored(item[t])}
BY DEF Block, Exchanged, Target

\* In the initial state no work item has been handed out.
LEMMA OwnedInit == Init => ItemsOwned
<1> SUFFICES ASSUME Init PROVE ItemsOwned
  OBVIOUS
<1>1. InputTypes
  BY FlipAssumption DEF Init, InputTypes
<1> QED
  BY <1>1 DEF Init, ItemsOwned, Busy

\* Every step keeps the work items of the threads apart.
LEMMA OwnedStep == ItemsOwned /\ [Next]_vars => ItemsOwned'
<1> SUFFICES ASSUME ItemsOwned, [Next]_vars PROVE ItemsOwned'
  OBVIOUS
<1> USE DEF ItemsOwned, Busy
<1>i. UNCHANGED inputs => InputTypes' /\ flip_work_item_count' = flip_work_item_count
  BY DEF inputs, InputTypes, flip_work_item_count
<1>1. CASE Call
  <2>1. UNCHANGED <<inputs, at, item>>
    BY <1>1 DEF Call, locals
  <2>2. work_items' \subseteq 0..flip_work_item_count - 1
    BY <1>1 DEF Call
  <2>3. error' # "none"
    BY <1>1 DEF Call, flip_validate
  <2> QED
    BY <1>1, <1>i, <2>1, <2>2, <2>3 DEF Call
<1>2. ASSUME NEW t \in Threads, Take(t) PROVE ItemsOwned'
  <2>1. PICK i \in work_items : /\ item' = [item EXCEPT ![t] = i]
                                /\ work_items' = work_items \ {i}
    BY <1>2 DEF Take
  <2>2. /\ UNCHANGED <<inputs, error>>
        /\ at' = [at EXCEPT ![t] = "load"]
        /\ ~Busy(t)
    BY <1>2 DEF Take
  <2>3. \A u \in Threads : u # t => item'[u] = item[u] /\ at'[u] = at[u]
    BY <2>1, <2>2
  <2>4. item'[t] = i /\ at'[t] = "load"
    BY <2>1, <2>2
  <2>5. \A u, v \in Threads :
          u # v /\ at'[u] # "idle" /\ at'[v] # "idle" => item'[u] # item'[v]
    BY <2>1, <2>3, <2>4
  <2>6. \A u \in Threads : at'[u] # "idle" =>
          item'[u] \in 0..flip_work_item_count - 1 /\ item'[u] \notin work_items'
    BY <2>1, <2>3, <2>4
  <2> QED
    BY <1>i, <2>1, <2>2, <2>5, <2>6
<1>3. ASSUME NEW t \in Threads, Load(t) \/ Store(t) \/ ItemDone(t) PROVE ItemsOwned'
  <2>1. UNCHANGED <<inputs, error, work_items, item>>
    BY <1>3 DEF Load, Store, ItemDone
  <2>2. /\ Busy(t)
        /\ DOMAIN at' = Threads
        /\ \A u \in Threads : u # t => at'[u] = at[u]
    BY <1>3 DEF Load, Store, ItemDone
  <2>3. \A u \in Threads : at'[u] # "idle" => Busy(u)
    BY <2>2
  <2> QED
    BY <1>i, <2>1, <2>2, <2>3
<1>4. CASE UNCHANGED vars
  BY <1>4, <1>i DEF vars, inputs, locals
<1> QED
  BY <1>1, <1>2, <1>3, <1>4 DEF Next

\* Threads that own different work items touch different pixels.
LEMMA OwnedIndependent == ItemsOwned => ItemsIndependent
<1> SUFFICES ASSUME ItemsOwned,
                    NEW t \in Threads, NEW u \in Threads,
                    t # u, at[t] = "store", at[u] = "store"
             PROVE  IF in_place THEN Exchanged(t) \cap Exchanged(u) = {}
                    ELSE {Target(p) : p \in Block(t)} \cap {Target(p) : p \in Block(u)} = {}
  BY DEF ItemsIndependent
<1>1. /\ item[t] \in 0..flip_work_item_count - 1
      /\ item[u] \in 0..flip_work_item_count - 1
      /\ item[t] # item[u]
      /\ InputTypes
  BY DEF ItemsOwned, Busy
<1>2. /\ Mirrored(item[t]) # Mirrored(item[u])
      /\ in_place => item[t] # Mirrored(item[u]) /\ item[u] # Mirrored(item[t])
  BY <1>1, RowsDisjoint
<1>3. CASE in_place
  <2>1. Exchanged(t) \cap Exchanged(u) = {}
    BY <1>1, <1>2, <1>3, BlockRows
  <2> QED
    BY <1>3, <2>1
<1>4. CASE ~in_place
  <2>1. {Target(p) : p \in Block(t)} \cap {Target(p) : p \in Block(u)} = {}
    BY <1>2, BlockRows
  <2> QED
    BY <1>4, <2>1
<1> QED
  BY <1>3, <1>4

(***************************************************************************)
(* Threads of a flip work on independent pixels, in place or not: the work *)
(* items of flip_work_item_count never share a row.                        *)
(***************************************************************************)
THEOREM WorkItemsIndependent == Spec => []ItemsIndependent
<1>1. Init => ItemsOwned
  BY OwnedInit
<1>2. ItemsOwned /\ [Next]_vars => ItemsOwned'
  BY OwnedStep
<1>3. ItemsOwned => ItemsIndependent
  BY OwnedIndependent
<1> QED
  BY <1>1, <1>2, <1>3, PTL DEF Spec
-----------------------------------------------------------------------------
(***************************************************************************)
(* Where every pixel is at any time.  A pixel that a work item owns starts *)
(* an exchange, in place, or is copied; it is done once its work item has  *)
(* been taken and the thread that has it is past its column.  The image    *)
(* follows from which of these pixels are done, and what a thread has in   *)
(* its registers is as yet unmoved.                                        *)
(***************************************************************************)
Starts(p) == p[1] < flip_work_item_count /\ p[2] < PixelCount(p[1])

PixelDone(p) ==
  /\ error = "OK" /\ Starts(p)
  /\ p[1] \notin work_items
  /\ \A t \in Threads : Busy(t) /\ item[t] = p[1] => p[2] < column[t]

Moved(q) == PixelDone(Target(q)) \/ (in_place /\ PixelDone(q))

ImageFollows ==
  image = [q \in Places |-> IF Moved(q) THEN Target(q) ELSE IF in_place THEN q ELSE Unset]

Touched(t) == IF in_place THEN Exchanged(t) ELSE Block(t)

ThreadInItem(t) ==
  /\ at[t] \in {"idle", "load", "store"}
  /\ Busy(t) => column[t] \in 0..PixelCount(item[t])
  /\ at[t] = "store" => /\ column[t] < PixelCount(item[t])
                        /\ DOMAIN registers[t] = Touched(t)
                        /\ \A p \in Touched(t) : registers[t][p] = p

ThreadsInItems ==
  /\ DOMAIN column = Threads /\ DOMAIN registers = Threads
  /\ error \in {"none", "OK", "RANGE", "NOT_IMPLEMENTED"}
  /\ error = "OK" => flip_mode # "OTHER"
  /\ error # "OK" => work_items = {} /\ \A t \in Threads : ~Busy(t)
  /\ \A t \in Threads : ThreadInItem(t)

FlipInv == ItemsOwned /\ ThreadsInItems /\ ImageFollows
-----------------------------------------------------------------------------
\* A place goes back to itself when the image is flipped twice.
LEMMA TargetInvolution ==
  ASSUME InputTypes, NEW p \in Places
  PROVE  Target(p) \in Places /\ Target(Target(p)) = p
<1>1. PICK i \in 0..height - 1, j \in 0..width - 1 : p = <<i, j>>
  BY DEF Places
<1>2. \A a, b : Target(<<a, b>>) = <<Mirrored(a), IF flip_mode = "VERTICAL" THEN b
                                                  ELSE width - b - 1>>
  BY DEF Target
<1>3. Mirrored(i) \in 0..height - 1 /\ Mirrored(Mirrored(i)) = i
  BY DEF InputTypes, Mirrored
<1> DEFINE k == IF flip_mode = "VERTICAL" THEN j ELSE width - j - 1
<1>4. k \in 0..width - 1 /\ (IF flip_mode = "VERTICAL" THEN k ELSE width - k - 1) = j
  BY DEF InputTypes
<1>5. Target(p) = <<Mirrored(i), k>>
  BY <1>1, <1>2
<1> HIDE DEF k
<1>6. Target(p) \in Places
  BY <1>3, <1>4, <1>5 DEF Places
<1>7. Target(Target(p)) = <<Mirrored(Mirrored(i)), IF flip_mode = "VERTICAL" THEN k ELSE width - k - 1>>
  BY <1>2, <1>5
<1> QED
  BY <1>1, <1>3, <1>4, <1>6, <1>7

\* The pixels of a work item lie in its row.
LEMMA PixelCounts ==
  ASSUME InputTypes
  PROVE  /\ flip_work_item_count \in 0..height
         /\ \A i : PixelCount(i) \in 0..width
BY DEF InputTypes, flip_work_item_count, PixelCount

\* In place, of two places that are exchanged one starts the exchange, unless
\* they are one.
LEMMA OneStarts ==
  ASSUME InputTypes, in_place, flip_mode # "OTHER", NEW p \in Places
  PROVE  /\ ~(Starts(p) /\ Starts(Target(p)))
         /\ ~Starts(p) /\ ~Starts(Target(p)) => Target(p) = p
<1>1. PICK i \in 0..height - 1, j \in 0..width - 1 : p = <<i, j>>
  BY DEF Places
<1> DEFINE k == IF flip_mode = "VERTICAL" THEN j ELSE width - j - 1
           m == Mirrored(i)
<1>2. Target(p) = <<m, k>> /\ p[1] = i /\ p[2] = j /\ Target(p)[1] = m /\ Target(p)[2] = k
  BY <1>1 DEF Target
<1>3. CASE flip_mode = "HORIZONTAL"
  <2>1. m = i /\ flip_work_item_count = height /\ PixelCount(i) = width \div 2
        /\ k = width - j - 1
    BY <1>3 DEF Mirrored, flip_work_item_count, PixelCount
  <2>2. ~(j < width \div 2 /\ k < width \div 2)
        /\ (~(j < width \div 2) /\ ~(k < width \div 2) => k = j)
    BY <2>1 DEF InputTypes
  <2> QED
    BY <1>1, <1>2, <2>1, <2>2 DEF Starts, InputTypes
<1>4. CASE flip_mode = "VERTICAL"
  <2>1. /\ m = height - i - 1 /\ flip_work_item_count = height \div 2 /\ k = j
        /\ PixelCount(i) = width /\ PixelCount(m) = width
    BY <1>4 DEF Mirrored, flip_work_item_count, PixelCount
  <2>2. ~(i < height \div 2 /\ m < height \div 2)
        /\ (~(i < height \div 2) /\ ~(m < height \div 2) => m = i)
    BY <2>1 DEF InputTypes
  <2> QED
    BY <1>1, <1>2, <2>1, <2>2 DEF Starts, InputTypes
<1>5. CASE flip_mode = "BOTH"
  <2>1. /\ m = height - i - 1 /\ flip_work_item_count = (height + 1) \div 2 /\ k = width - j - 1
        /\ PixelCount(i) = (IF m = i THEN width \div 2 ELSE width)
        /\ PixelCount(m) = (IF m = i THEN width \div 2 ELSE width)
    BY <1>5 DEF Mirrored, flip_work_item_count, PixelCount, InputTypes
  <2>2. CASE m = i
    <3>1. ~(j < width \div 2 /\ k < width \div 2)
          /\ (~(j < width \div 2) /\ ~(k < width \div 2) => k = j)
      BY <2>1 DEF InputTypes
    <3>2. i < (height + 1) \div 2
      BY <2>1, <2>2 DEF InputTypes
    <3> QED
      BY <1>1, <1>2, <2>1, <2>2, <3>1, <3>2 DEF Starts
  <2>3. CASE m # i
    <3>1. ~(i < (height + 1) \div 2 /\ m < (height + 1) \div 2)
          /\ (i < (height + 1) \div 2 \/ m < (height + 1) \div 2)
      BY <2>1, <2>3 DEF InputTypes
    <3> QED
      BY <1>2, <2>1, <2>3, <3>1 DEF Starts, InputTypes
  <2> QED
    BY <2>2, <2>3
<1> QED
  BY <1>3, <1>4, <1>5 DEF InputTypes

\* Out of place every pixel is copied by a work item of its own row.
LEMMA AllStart ==
  ASSUME InputTypes, ~in_place, NEW p \in Places
  PROVE  Starts(p)
BY DEF InputTypes, Places, Starts, flip_work_item_count, PixelCount

\* The blocks of a work item end with it.
LEMMA BlockBounds ==
  ASSUME NEW left \in Nat \ {0}
  PROVE  BlockSize(left) \in 1..left
BY FlipAssumption DEF BlockSize

\* The current block of a thread: the pixels from its column on.
LEMMA BlockPixels ==
  ASSUME FlipInv, NEW t \in Threads, Busy(t), column[t] < PixelCount(item[t])
  PROVE  /\ BlockSize(PixelCount(item[t]) - column[t]) \in Nat
         /\ column[t] + BlockSize(PixelCount(item[t]) - column[t]) \in 0..PixelCount(item[t])
         /\ Block(t) \subseteq Places
         /\ \A p \in Block(t) : Starts(p)
         /\ \A p \in Places : p \in Block(t) <=>
              /\ p[1] = item[t] /\ column[t] <= p[2]
              /\ p[2] < column[t] + BlockSize(PixelCount(item[t]) - column[t])
<1>1. /\ item[t] \in 0..flip_work_item_count - 1 /\ InputTypes
      /\ column[t] \in 0..PixelCount(item[t])
  BY DEF FlipInv, ItemsOwned, ThreadsInItems, ThreadInItem
<1> DEFINE n == PixelCount(item[t])
           c == column[t]
           size == BlockSize(n - c)
           i == item[t]
<1>2. /\ n \in Nat /\ n <= width /\ c \in Nat /\ i \in 0..height - 1 /\ width \in Nat
      /\ i < flip_work_item_count /\ c < n
  BY <1>1, PixelCounts DEF InputTypes
<1>3. n - c \in Nat \ {0}
  BY <1>2
<1> HIDE DEF n, c
<1>4. size \in 1..n - c
  BY <1>3, BlockBounds
<1> HIDE DEF size
<1>5. size \in Nat /\ c + size \in 0..n
  BY <1>2, <1>4
<1>6. Block(t) = {<<i, x>> : x \in c..c + size - 1}
  BY DEF Block, n, c, size
<1>7. \A x \in c..c + size - 1 : x \in 0..width - 1 /\ x < n
  BY <1>2, <1>5
<1> HIDE DEF i
<1>8. Block(t) \subseteq Places
  BY <1>2, <1>6, <1>7 DEF Places
<1>9. \A p \in Block(t) : p[1] = i /\ p[2] < n
  BY <1>6, <1>7
<1>10. \A p \in Block(t) : Starts(p)
  BY <1>2, <1>9 DEF Starts, n, i
<1>11. ASSUME NEW p \in Places
       PROVE  p \in Block(t) <=> p[1] = i /\ c <= p[2] /\ p[2] < c + size
  <2>1. PICK a \in 0..height - 1, b \in 0..width - 1 : p = <<a, b>>
    BY DEF Places
  <2>2. b \in Int /\ p[1] = a /\ p[2] = b
    BY <2>1
  <2>3. c <= b /\ b < c + size <=> b \in c..c + size - 1
    BY <1>2, <1>5, <2>2
  <2> QED
    BY <1>6, <2>1, <2>2, <2>3
<1> QED
  BY <1>5, <1>8, <1>10, <1>11 DEF n, c, size, i

\* The first values: no pixel is done and the image is as it was passed.
LEMMA FlipInit == Init => FlipInv
<1> SUFFICES ASSUME Init PROVE FlipInv
  OBVIOUS
<1>1. ItemsOwned
  BY OwnedInit
<1>2. ThreadsInItems
  BY DEF Init, ThreadsInItems, ThreadInItem, Busy
<1>3. \A p : ~PixelDone(p)
  BY DEF Init, PixelDone
<1>4. ImageFollows
  BY <1>3 DEF Init, ImageFollows, Moved
<1> QED
  BY <1>1, <1>2, <1>4 DEF FlipInv

\* What depends on the parameters of the call only.
LEMMA SameInputs ==
  ASSUME UNCHANGED inputs
  PROVE  /\ Places' = Places
         /\ in_place' = in_place
         /\ flip_mode' = flip_mode
         /\ \A p : Target(p)' = Target(p)
         /\ \A p : Starts(p)' <=> Starts(p)
         /\ \A i : PixelCount(i)' = PixelCount(i)
BY DEF inputs, Places, Target, Mirrored, Starts, PixelCount, flip_work_item_count

\* The block of a thread whose place in its work item has not changed.
LEMMA SameBlock ==
  ASSUME UNCHANGED inputs, NEW t \in Threads, item'[t] = item[t], column'[t] = column[t]
  PROVE  Touched(t)' = Touched(t)
<1>1. /\ in_place' = in_place
      /\ \A p : Target(p)' = Target(p)
      /\ \A i : PixelCount(i)' = PixelCount(i)
  BY SameInputs
<1>2. Block(t)' = Block(t)
  BY <1>1 DEF Block, BlockSize
<1>3. Exchanged(t)' = Exchanged(t)
  BY <1>1, <1>2 DEF Exchanged
<1> QED
  BY <1>1, <1>2, <1>3 DEF Touched

\* A thread that takes no step.
LEMMA SameThread ==
  ASSUME UNCHANGED inputs, NEW t \in Threads, ThreadInItem(t),
         at'[t] = at[t], item'[t] = item[t], column'[t] = column[t],
         registers'[t] = registers[t]
  PROVE  ThreadInItem(t)'
<1>1. Touched(t)' = Touched(t)
  BY SameBlock
<1>2. PixelCount(item[t])' = PixelCount(item[t])
  BY SameInputs
<1> QED
  BY <1>1, <1>2 DEF ThreadInItem, Busy

\* A step that moves no pixel and finishes none.
LEMMA UnmovedFollows ==
  ASSUME FlipInv, UNCHANGED <<inputs, image>>,
         \A p \in Places : PixelDone(p)' <=> PixelDone(p)
  PROVE  ImageFollows'
<1>1. UNCHANGED inputs /\ image' = image
  OBVIOUS
<1>2. /\ Places' = Places
      /\ in_place' = in_place
      /\ \A p : Target(p)' = Target(p)
  BY <1>1, SameInputs
<1>3. \A q \in Places : Target(q) \in Places
  BY TargetInvolution DEF FlipInv, ItemsOwned
<1>4. \A q \in Places : Moved(q)' <=> Moved(q)
  BY <1>2, <1>3 DEF Moved
<1> QED
  BY <1>1, <1>2, <1>4 DEF FlipInv, ImageFollows

\* The call hands out the work items, and no pixel is done yet.
LEMMA CallFlips == FlipInv /\ Call => ThreadsInItems' /\ ImageFollows'
<1> SUFFICES ASSUME FlipInv, Call PROVE ThreadsInItems' /\ ImageFollows'
  OBVIOUS
<1>1. /\ UNCHANGED <<inputs, image, at, item, column, registers>>
      /\ error = "none" /\ error' = flip_validate
      /\ work_items' = IF error' # "OK" \/ width = 0 THEN {} ELSE 0..flip_work_item_count - 1
  BY DEF Call, locals
<1>2. UNCHANGED inputs
  BY <1>1
<1>3. \A t \in Threads : ~Busy(t) /\ ~Busy(t)'
  BY <1>1 DEF FlipInv, ItemsOwned, Busy
<1>4. ThreadsInItems'
  <2>1. error' \in {"OK", "RANGE", "NOT_IMPLEMENTED"} /\ (error' = "OK" => flip_mode' # "OTHER")
    BY <1>1, <1>2 DEF flip_validate, inputs
  <2>2. \A t \in Threads : at'[t] = "idle"
    BY <1>3 DEF Busy
  <2> QED
    BY <1>1, <1>3, <2>1, <2>2 DEF ThreadsInItems, ThreadInItem, FlipInv, Busy
<1>5. \A p \in Places : ~PixelDone(p)
  BY <1>1 DEF PixelDone
<1>6. ASSUME NEW p \in Places, PixelDone(p)' PROVE FALSE
  <2>1. PICK i \in 0..height - 1, j \in 0..width - 1 : p = <<i, j>>
    BY DEF Places
  <2>2. error' = "OK" /\ Starts(p) /\ p[1] \notin work_items'
    BY <1>2, <1>6, SameInputs DEF PixelDone
  <2>3. i \in 0..flip_work_item_count - 1
    BY <2>1, <2>2, PixelCounts DEF Starts, FlipInv, ItemsOwned
  <2>4. width # 0
    BY <2>1 DEF FlipInv, ItemsOwned, InputTypes
  <2> QED
    BY <1>1, <2>1, <2>2, <2>3, <2>4
<1>7. ImageFollows'
  BY <1>1, <1>5, <1>6, UnmovedFollows
<1> QED
  BY <1>4, <1>7

\* The pixels of a work item that is taken were not done and are not.
LEMMA TakeFlips ==
  ASSUME NEW t \in Threads, FlipInv, Take(t)
  PROVE  ThreadsInItems' /\ ImageFollows'
<1>1. PICK i \in work_items : /\ item' = [item EXCEPT ![t] = i]
                              /\ work_items' = work_items \ {i}
  BY DEF Take
<1>2. /\ UNCHANGED <<inputs, error, image, registers>>
      /\ at[t] = "idle"
      /\ at' = [at EXCEPT ![t] = "load"]
      /\ column' = [column EXCEPT ![t] = 0]
  BY DEF Take
<1>3. /\ DOMAIN at = Threads /\ DOMAIN item = Threads /\ DOMAIN column = Threads
      /\ DOMAIN registers = Threads
      /\ i \in 0..flip_work_item_count - 1 /\ InputTypes
  BY <1>1 DEF FlipInv, ItemsOwned, ThreadsInItems
<1>4. /\ at'[t] = "load" /\ item'[t] = i /\ column'[t] = 0
      /\ \A u \in Threads : u # t => /\ at'[u] = at[u] /\ item'[u] = item[u]
                                     /\ column'[u] = column[u]
  BY <1>1, <1>2, <1>3
<1>5. UNCHANGED inputs
  BY <1>2
<1>6. error = "OK"
  BY <1>1 DEF FlipInv, ThreadsInItems
<1>7. ThreadsInItems'
  <2>1. \A u \in Threads : u # t => ThreadInItem(u)'
    BY <1>2, <1>4, <1>5, SameThread DEF FlipInv, ThreadsInItems
  <2>2. PixelCount(i)' \in 0..width
    BY <1>3, <1>5, PixelCounts, SameInputs
  <2>3. ThreadInItem(t)'
    BY <1>3, <1>4, <2>2 DEF ThreadInItem, Busy, InputTypes
  <2> QED
    BY <1>2, <1>3, <1>5, <1>6, <2>1, <2>3, SameInputs DEF ThreadsInItems, FlipInv
<1>8. ASSUME NEW p \in Places PROVE PixelDone(p)' <=> PixelDone(p)
  <2>1. Starts(p)' <=> Starts(p)
    BY <1>5, SameInputs
  <2>2. p[2] \in Nat
    BY DEF Places
  <2>3. CASE p[1] = i
    <3>1. ~PixelDone(p)
      BY <2>3 DEF PixelDone
    <3>2. ~PixelDone(p)'
      BY <1>4, <2>2, <2>3 DEF PixelDone, Busy
    <3> QED
      BY <3>1, <3>2
  <2>4. CASE p[1] # i
    BY <1>1, <1>2, <1>4, <2>1, <2>4 DEF PixelDone, Busy
  <2> QED
    BY <2>3, <2>4
<1>9. ImageFollows'
  BY <1>2, <1>8, UnmovedFollows
<1> QED
  BY <1>7, <1>9

\* In place a block is loaded as it was passed: neither a pixel that a thread is
\* about to exchange nor the one it is exchanged with is done.
LEMMA LoadFlips ==
  ASSUME NEW t \in Threads, FlipInv, Load(t)
  PROVE  ThreadsInItems' /\ ImageFollows'
<1>1. /\ UNCHANGED <<inputs, error, work_items, image, item, column>>
      /\ at[t] = "load" /\ column[t] < PixelCount(item[t])
      /\ at' = [at EXCEPT ![t] = "store"]
      /\ registers' = [registers EXCEPT ![t] =
                         [p \in Touched(t) |-> IF in_place THEN image[p] ELSE p]]
  BY DEF Load, Touched
<1>2. /\ DOMAIN at = Threads /\ DOMAIN registers = Threads /\ InputTypes
      /\ Busy(t) /\ UNCHANGED inputs
  BY <1>1 DEF FlipInv, ItemsOwned, ThreadsInItems, Busy
<1>3. /\ at'[t] = "store"
      /\ registers'[t] = [p \in Touched(t) |-> IF in_place THEN image[p] ELSE p]
      /\ \A u \in Threads : u # t => at'[u] = at[u] /\ registers'[u] = registers[u]
  BY <1>1, <1>2
<1>4. error = "OK" /\ flip_mode # "OTHER"
  BY <1>2 DEF FlipInv, ThreadsInItems
<1>5. ASSUME NEW p \in Block(t) PROVE p \in Places /\ Starts(p) /\ ~PixelDone(p)
  <2>1. p \in Places /\ Starts(p) /\ p[1] = item[t] /\ column[t] <= p[2]
    BY <1>1, <1>2, BlockPixels
  <2>2. p[2] \in Int /\ column[t] \in Int
    BY <1>2, <2>1 DEF Places, FlipInv, ThreadsInItems, ThreadInItem
  <2> QED
    BY <1>2, <2>1, <2>2 DEF PixelDone
<1>6. ASSUME in_place, NEW p \in Block(t)
      PROVE  /\ Target(p) \in Places /\ Target(Target(p)) = p
             /\ ~PixelDone(p) /\ ~PixelDone(Target(p))
  BY <1>2, <1>4, <1>5, <1>6, TargetInvolution, OneStarts DEF PixelDone
<1>7. ASSUME in_place, NEW p \in Touched(t) PROVE image[p] = p
  <2>1. p \in Places /\ ~PixelDone(p) /\ ~PixelDone(Target(p))
    BY <1>5, <1>6, <1>7 DEF Touched, Exchanged
  <2> QED
    BY <1>7, <2>1 DEF FlipInv, ImageFollows, Moved
<1>8. ThreadsInItems'
  <2>1. \A u \in Threads : u # t => ThreadInItem(u)'
    BY <1>1, <1>2, <1>3, SameThread DEF FlipInv, ThreadsInItems
  <2>2. Touched(t)' = Touched(t) /\ PixelCount(item[t])' = PixelCount(item[t])
    BY <1>1, <1>2, SameBlock, SameInputs
  <2>3. \A p \in Touched(t) : registers'[t][p] = p
    BY <1>2, <1>3, <1>7 DEF InputTypes
  <2>4. ThreadInItem(t)'
    BY <1>1, <1>2, <1>3, <2>2, <2>3 DEF ThreadInItem, FlipInv, ThreadsInItems, Busy
  <2> QED
    BY <1>1, <1>2, <1>4, <2>1, <2>4, SameInputs DEF ThreadsInItems, FlipInv
<1>9. \A p \in Places : PixelDone(p)' <=> PixelDone(p)
  <2>1. \A u \in Threads : Busy(u)' <=> Busy(u)
    BY <1>2, <1>3 DEF Busy
  <2>2. \A p : Starts(p)' <=> Starts(p)
    BY <1>2, SameInputs
  <2> QED
    BY <1>1, <2>1, <2>2 DEF PixelDone
<1>10. ImageFollows'
  BY <1>1, <1>9, UnmovedFollows
<1> QED
  BY <1>8, <1>10

\* The pixels of a work item are done when its thread has passed the last one.
LEMMA ItemDoneFlips ==
  ASSUME NEW t \in Threads, FlipInv, ItemDone(t)
  PROVE  ThreadsInItems' /\ ImageFollows'
<1>1. /\ UNCHANGED <<inputs, error, work_items, image, item, column, registers>>
      /\ at[t] = "load" /\ column[t] = PixelCount(item[t])
      /\ at' = [at EXCEPT ![t] = "idle"]
  BY DEF ItemDone
<1>2. /\ DOMAIN at = Threads /\ Busy(t) /\ UNCHANGED inputs
  BY <1>1 DEF FlipInv, ItemsOwned, Busy
<1>3. at'[t] = "idle" /\ \A u \in Threads : u # t => at'[u] = at[u]
  BY <1>1, <1>2
<1>4. error = "OK"
  BY <1>2 DEF FlipInv, ThreadsInItems
<1>5. ThreadsInItems'
  <2>1. \A u \in Threads : u # t => ThreadInItem(u)'
    BY <1>1, <1>2, <1>3, SameThread DEF FlipInv, ThreadsInItems
  <2>2. ThreadInItem(t)'
    BY <1>3 DEF ThreadInItem, Busy
  <2> QED
    BY <1>1, <1>2, <1>4, <2>1, <2>2, SameInputs DEF ThreadsInItems, FlipInv
<1>6. ASSUME NEW p \in Places PROVE PixelDone(p)' <=> PixelDone(p)
  <2>1. Starts(p)' <=> Starts(p)
    BY <1>2, SameInputs
  <2>2. Starts(p) /\ item[t] = p[1] => p[2] < column[t]
    BY <1>1 DEF Starts
  <2> QED
    BY <1>1, <1>2, <1>3, <2>1, <2>2 DEF PixelDone, Busy
<1>7. ImageFollows'
  BY <1>1, <1>6, UnmovedFollows
<1> QED
  BY <1>5, <1>7

\* Storing a block finishes the pixels of the block and no other one.
LEMMA StoreDone ==
  ASSUME NEW t \in Threads, FlipInv, Store(t), NEW p \in Places
  PROVE  PixelDone(p)' <=> PixelDone(p) \/ p \in Block(t)
<1> DEFINE size == BlockSize(PixelCount(item[t]) - column[t])
<1>1. /\ UNCHANGED <<inputs, error, work_items, item>>
      /\ at[t] = "store"
      /\ at' = [at EXCEPT ![t] = "load"]
      /\ column' = [column EXCEPT ![t] = @ + size]
  BY DEF Store
<1>2. /\ DOMAIN at = Threads /\ DOMAIN column = Threads
      /\ Busy(t) /\ UNCHANGED inputs
      /\ column[t] < PixelCount(item[t]) /\ column[t] \in 0..PixelCount(item[t])
      /\ InputTypes /\ item[t] \notin work_items
  BY <1>1 DEF FlipInv, ItemsOwned, ThreadsInItems, ThreadInItem, Busy
<1>3. column[t] \in Nat
  BY <1>2
<1>4. size \in Nat /\ (p \in Block(t) <=> p[1] = item[t] /\ column[t] <= p[2] /\ p[2] < column[t] + size)
      /\ (p \in Block(t) => Starts(p))
  BY <1>2, BlockPixels
<1> HIDE DEF size
<1>5. /\ column'[t] = column[t] + size /\ at'[t] = "load"
      /\ \A u \in Threads : u # t => at'[u] = at[u] /\ column'[u] = column[u]
  BY <1>1, <1>2
<1>6. Starts(p)' <=> Starts(p)
  BY <1>2, SameInputs
<1>7. error = "OK"
  BY <1>2 DEF FlipInv, ThreadsInItems
<1>8. CASE p[1] # item[t]
  BY <1>1, <1>4, <1>5, <1>6, <1>8 DEF PixelDone, Busy
<1>9. CASE p[1] = item[t]
  <2>1. \A u \in Threads : Busy(u) /\ item[u] = p[1] => u = t
    BY <1>2, <1>9 DEF FlipInv, ItemsOwned
  <2>2. \A u \in Threads : Busy(u)' /\ item'[u] = p[1] => u = t
    BY <1>1, <1>5, <2>1 DEF Busy
  <2>3. PixelDone(p) <=> Starts(p) /\ p[2] < column[t]
    BY <1>2, <1>7, <1>9, <2>1 DEF PixelDone
  <2>4. Busy(t)'
    BY <1>5 DEF Busy
  <2>5. PixelDone(p)' <=> Starts(p) /\ p[2] < column[t] + size
    BY <1>1, <1>2, <1>5, <1>6, <1>7, <1>9, <2>2, <2>4 DEF PixelDone
  <2>6. p[2] \in Int
    BY DEF Places
  <2> QED
    BY <1>3, <1>4, <1>9, <2>3, <2>5, <2>6
<1> QED
  BY <1>8, <1>9

\* The pixels of a block come to their targets and, in place, the pixels of
\* their targets to the block.
LEMMA StoreFlips ==
  ASSUME NEW t \in Threads, FlipInv, Store(t)
  PROVE  ThreadsInItems' /\ ImageFollows'
<1> DEFINE size == BlockSize(PixelCount(item[t]) - column[t])
<1>1. /\ UNCHANGED <<inputs, error, work_items, item, registers>>
      /\ at[t] = "store"
      /\ at' = [at EXCEPT ![t] = "load"]
      /\ column' = [column EXCEPT ![t] = @ + size]
      /\ image' = [q \in Places |->
                     IF Target(q) \in DOMAIN registers[t] THEN registers[t][Target(q)]
                                                          ELSE image[q]]
  BY DEF Store
<1>2. /\ DOMAIN at = Threads /\ DOMAIN column = Threads
      /\ Busy(t) /\ UNCHANGED inputs /\ InputTypes
      /\ column[t] < PixelCount(item[t])
      /\ DOMAIN registers[t] = Touched(t)
      /\ \A p \in Touched(t) : registers[t][p] = p
  BY <1>1 DEF FlipInv, ItemsOwned, ThreadsInItems, ThreadInItem, Busy
<1>3. column[t] + size \in 0..PixelCount(item[t]) /\ Block(t) \subseteq Places
  BY <1>2, BlockPixels
<1> HIDE DEF size
<1>4. /\ column'[t] = column[t] + size /\ at'[t] = "load"
      /\ \A u \in Threads : u # t => at'[u] = at[u] /\ column'[u] = column[u]
  BY <1>1, <1>2
<1>5. error = "OK"
  BY <1>2 DEF FlipInv, ThreadsInItems
<1>6. ThreadsInItems'
  <2>1. \A u \in Threads : u # t => ThreadInItem(u)'
    BY <1>1, <1>2, <1>4, SameThread DEF FlipInv, ThreadsInItems
  <2>2. PixelCount(item[t])' = PixelCount(item[t])
    BY <1>1, <1>2, SameInputs
  <2>3. ThreadInItem(t)'
    BY <1>3, <1>4, <2>2 DEF ThreadInItem, Busy
  <2> QED
    BY <1>1, <1>2, <1>5, <2>1, <2>3, SameInputs DEF ThreadsInItems, FlipInv
<1>7. \A q \in Places : Target(q) \in Places /\ Target(Target(q)) = q
  BY <1>2, TargetInvolution
<1>8. ASSUME NEW q \in Places
      PROVE  Target(q) \in Touched(t) <=> Target(q) \in Block(t) \/ (in_place /\ q \in Block(t))
  <2>1. CASE in_place
    <3>1. Target(q) \in {Target(p) : p \in Block(t)} <=> q \in Block(t)
      BY <1>3, <1>7
    <3> QED
      BY <2>1, <3>1 DEF Touched, Exchanged
  <2>2. CASE ~in_place
    BY <2>2 DEF Touched
  <2> QED
    BY <2>1, <2>2
<1>9. \A q \in Places : Moved(q)' <=> Moved(q) \/ Target(q) \in Touched(t)
  <2>1. \A q \in Places : PixelDone(q)' <=> PixelDone(q) \/ q \in Block(t)
    BY StoreDone
  <2>2. in_place' = in_place /\ \A q : Target(q)' = Target(q)
    BY <1>2, SameInputs
  <2> QED
    BY <1>7, <1>8, <2>1, <2>2 DEF Moved
<1>10. ImageFollows'
  <2>1. image' = [q \in Places |-> IF Target(q) \in Touched(t) THEN Target(q) ELSE image[q]]
    BY <1>1, <1>2
  <2>2. \A q \in Places : image[q] = IF Moved(q) THEN Target(q)
                                     ELSE IF in_place THEN q ELSE Unset
    BY DEF FlipInv, ImageFollows
  <2>3. /\ Places' = Places /\ in_place' = in_place
        /\ \A q : Target(q)' = Target(q)
    BY <1>2, SameInputs
  <2>4. image' = [q \in Places |-> IF Moved(q) \/ Target(q) \in Touched(t) THEN Target(q)
                                   ELSE IF in_place THEN q ELSE Unset]
    BY <2>1, <2>2
  <2> QED
    BY <1>9, <2>3, <2>4 DEF ImageFollows
<1> QED
  BY <1>6, <1>10

\* Every step keeps the image as the pixels that are done say.
LEMMA FlipStep == FlipInv /\ [Next]_vars => FlipInv'
<1> SUFFICES ASSUME FlipInv, [Next]_vars PROVE FlipInv'
  OBVIOUS
<1>1. ItemsOwned'
  BY OwnedStep DEF FlipInv
<1>2. ASSUME Call PROVE ThreadsInItems' /\ ImageFollows'
  BY <1>2, CallFlips
<1>3. ASSUME NEW t \in Threads, Take(t) PROVE ThreadsInItems' /\ ImageFollows'
  BY <1>3, TakeFlips
<1>4. ASSUME NEW t \in Threads, Load(t) PROVE ThreadsInItems' /\ ImageFollows'
  BY <1>4, LoadFlips
<1>5. ASSUME NEW t \in Threads, Store(t) PROVE ThreadsInItems' /\ ImageFollows'
  BY <1>5, StoreFlips
<1>6. ASSUME NEW t \in Threads, ItemDone(t) PROVE ThreadsInItems' /\ ImageFollows'
  BY <1>6, ItemDoneFlips
<1>7. ASSUME UNCHANGED vars PROVE ThreadsInItems' /\ ImageFollows'
  <2>1. UNCHANGED <<inputs, error, work_items, image, at, item, column, registers>>
    BY <1>7 DEF vars, locals
  <2>2. UNCHANGED inputs
    BY <2>1
  <2>3. \A t \in Threads : ThreadInItem(t)'
    BY <2>1, <2>2, SameThread DEF FlipInv, ThreadsInItems
  <2>4. ThreadsInItems'
    BY <2>1, <2>2, <2>3, SameInputs DEF FlipInv, ThreadsInItems, Busy
  <2>5. \A p \in Places : PixelDone(p)' <=> PixelDone(p)
    BY <2>1, <2>2, SameInputs DEF PixelDone, Busy
  <2> QED
    BY <2>1, <2>4, <2>5, UnmovedFollows
<1>8. ThreadsInItems' /\ ImageFollows'
  BY <1>2, <1>3, <1>4, <1>5, <1>6, <1>7 DEF Next
<1> QED
  BY <1>1, <1>8 DEF FlipInv

\* When all work items are done every pixel that starts a move is done: out of
\* place these are all pixels, in place one of every two that are exchanged.
LEMMA InvFlipped == FlipInv => Flipped
<1> SUFFICES ASSUME FlipInv, Finished, NEW p \in Places
             PROVE  image[Target(p)] = IF error = "OK" THEN p
                                       ELSE IF in_place THEN Target(p) ELSE Unset
  BY DEF Flipped
<1>1. /\ InputTypes /\ Target(p) \in Places /\ Target(Target(p)) = p
      /\ error = "OK" => flip_mode # "OTHER"
      /\ in_place \in BOOLEAN
  BY TargetInvolution DEF FlipInv, ItemsOwned, ThreadsInItems, InputTypes
<1>2. image[Target(p)] = IF Moved(Target(p)) THEN p
                         ELSE IF in_place THEN Target(p) ELSE Unset
  BY <1>1 DEF FlipInv, ImageFollows
<1>3. CASE error # "OK"
  <2>1. ~Moved(Target(p))
    BY <1>3 DEF Moved, PixelDone
  <2> QED
    BY <1>2, <1>3, <2>1
<1>4. CASE error = "OK"
  <2>1. \A q : PixelDone(q) <=> Starts(q)
    BY <1>4 DEF PixelDone, Finished, Busy
  <2>2. Moved(Target(p)) <=> Starts(p) \/ (in_place /\ Starts(Target(p)))
    BY <1>1, <2>1 DEF Moved
  <2>3. CASE ~in_place
    BY <1>1, <1>2, <1>4, <2>2, <2>3, AllStart
  <2>4. CASE in_place
    <3>1. Moved(Target(p)) \/ Target(p) = p
      BY <1>1, <1>4, <2>2, <2>4, OneStarts
    <3> QED
      BY <1>2, <1>4, <2>4, <3>1
  <2> QED
    BY <2>3, <2>4
<1> QED
  BY <1>3, <1>4

(***************************************************************************)
(* The threaded flip is right for every size of image, number of threads   *)
(* and width of vector, in whatever order threads take, load and store:    *)
(* when it returns every pixel is where the flip mode puts it, and a call  *)
(* that was refused has not touched the destination.                       *)
(***************************************************************************)
THEOREM EveryPixelFlipped == Spec => []Flipped
<1>1. Init => FlipInv
  BY FlipInit
<1>2. FlipInv /\ [Next]_vars => FlipInv'
  BY FlipStep
<1>3. FlipInv => Flipped
  BY InvFlipped
<1> QED
  BY <1>1, <1>2, <1>3, PTL DEF Spec

-----------------------------------------------------------------------------
(***************************************************************************)
(* Padding.  What a border type means, in one step: the place that a       *)
(* position stands for is that of the position nearer to the image that it *)
(* mirrors, and the index functions compute it.                            *)
(***************************************************************************)
PlaceOf(border, n, p) ==
  IF border = "replicate" THEN IF p < 0 THEN 0 ELSE IF p < n THEN p ELSE n - 1
  ELSE MapIndex(border, p, n)

Mirroring == {"wrap", "reflect", "reverse"}

\* Every integer has a quotient and a remainder.
LEMMA IntDivMod ==
  ASSUME NEW B \in Nat \ {0}, NEW x \in Int
  PROVE  /\ x \div B \in Int /\ x % B \in 0..B - 1
         /\ x = (x \div B) * B + (x % B)
OBVIOUS

\* The remainder is the only number below B that differs by a multiple of B.
LEMMA ModOf ==
  ASSUME NEW B \in Nat \ {0}, NEW x \in Int, NEW q \in Int, NEW r \in 0..B - 1,
         x = q * B + r
  PROVE  x % B = r
BY IntDivMod, Euclid

\* A remainder is not changed by adding the divisor.
LEMMA ModShift ==
  ASSUME NEW B \in Nat \ {0}, NEW x \in Int
  PROVE  (x + B) % B = x % B /\ (x - B) % B = x % B
<1>1. PICK q \in Int, r \in 0..B - 1 : x = q * B + r /\ x % B = r
  BY IntDivMod
<1>2. /\ x + B = (q + 1) * B + r
      /\ x - B = (q - 1) * B + r
  BY <1>1
<1>3. x + B \in Int /\ x - B \in Int /\ q + 1 \in Int /\ q - 1 \in Int
  OBVIOUS
<1>4. (x + B) % B = r
  BY <1>2, <1>3, ModOf
<1>5. (x - B) % B = r
  BY <1>2, <1>3, ModOf
<1> QED
  BY <1>1, <1>4, <1>5

\* The remainder of a number mirrored in a multiple of the divisor, less e.
LEMMA ModMirror ==
  ASSUME NEW B \in Nat \ {0}, NEW x \in Int
  PROVE  /\ (-1 - x) % B = B - 1 - (x % B)
         /\ (-x) % B = IF x % B = 0 THEN 0 ELSE B - (x % B)
<1>1. PICK q \in Int, r \in 0..B - 1 : x = q * B + r /\ x % B = r
  BY IntDivMod
<1>2. -1 - x = (-q - 1) * B + (B - 1 - r)
  BY <1>1
<1>3. -x = (-q) * B + (-r)
  BY <1>1
<1>4. -x = (-q - 1) * B + (B - r)
  BY <1>1
<1>5. /\ -1 - x \in Int /\ -x \in Int /\ -q - 1 \in Int /\ -q \in Int
      /\ B - 1 - r \in 0..B - 1
      /\ r = 0 => -r \in 0..B - 1 /\ -r = 0
      /\ r # 0 => B - r \in 0..B - 1
  BY <1>1
<1>6. (-1 - x) % B = B - 1 - r
  BY <1>2, <1>5, ModOf
<1>7. r = 0 => (-x) % B = 0
  BY <1>3, <1>5, ModOf
<1>8. r # 0 => (-x) % B = B - r
  BY <1>4, <1>5, ModOf
<1> QED
  BY <1>1, <1>6, <1>7, <1>8

\* A number below the divisor is its own remainder.
LEMMA ModSmall ==
  ASSUME NEW B \in Nat \ {0}, NEW x \in 0..B - 1
  PROVE  x % B = x
<1>1. x = 0 * B + x
  OBVIOUS
<1> QED
  BY <1>1, ModOf

\* Inside the image a position stands for itself.
LEMMA PlaceInside ==
  ASSUME NEW border \in Mirroring \cup {"replicate"},
         NEW n \in Nat \ {0}, NEW p \in 0..n - 1
  PROVE  PlaceOf(border, n, p) = p
<1>1. p % n = p
  BY ModSmall
<1>2. 2 * n \in Nat \ {0} /\ p \in 0..2 * n - 1
  OBVIOUS
<1>3. p % (2 * n) = p
  BY <1>2, ModSmall
<1>4. n # 1 => p % (2 * (n - 1)) = p
  <2> HAVE n # 1
  <2>1. 2 * (n - 1) \in Nat \ {0}
    OBVIOUS
  <2>2. CASE p < 2 * (n - 1)
    BY <2>1, <2>2, ModSmall
  <2>3. CASE p >= 2 * (n - 1)
    BY <2>3
  <2> QED
    BY <2>2, <2>3
<1> QED
  BY <1>1, <1>3, <1>4
  DEF PlaceOf, Mirroring, MapIndex, wrap_index, reflect_index, reverse_index

\* Outside the image a position stands for the one that it mirrors.
LEMMA PlaceTowards ==
  ASSUME NEW border \in Mirroring, NEW n \in Nat \ {0}, NEW p \in Int,
         p \notin 0..n - 1, ~(border = "reverse" /\ n = 1)
  PROVE  PlaceOf(border, n, p) = PlaceOf(border, n, Towards(border, n, p))
<1>1. CASE border = "wrap"
  <2>1. (p + n) % n = p % n /\ (p - n) % n = p % n
    BY ModShift
  <2> QED
    BY <1>1, <2>1 DEF PlaceOf, MapIndex, wrap_index, Towards
<1>2. CASE border = "reflect"
  <2>1. PICK P \in Nat \ {0} : P = 2 * n
    OBVIOUS
  <2>2. PICK r \in 0..P - 1 : p % P = r
    BY IntDivMod
  <2>3. (-1 - p) % P = P - 1 - r
    BY <2>2, ModMirror
  <2>4. (P - 1 - p) % P = P - 1 - r
    <3>1. -1 - p \in Int /\ P - 1 - p = (-1 - p) + P
      OBVIOUS
    <3> QED
      BY <3>1, <2>3, ModShift
  <2> QED
    BY <1>2, <2>1, <2>2, <2>3, <2>4 DEF PlaceOf, MapIndex, reflect_index, Towards
<1>3. CASE border = "reverse"
  <2>1. PICK P \in Nat \ {0} : P = 2 * (n - 1)
    BY <1>3
  <2>2. PICK r \in 0..P - 1 : p % P = r
    BY IntDivMod
  <2>3. (-p) % P = IF r = 0 THEN 0 ELSE P - r
    BY <2>2, ModMirror
  <2>4. (P - p) % P = IF r = 0 THEN 0 ELSE P - r
    <3>1. -p \in Int /\ P - p = (-p) + P
      OBVIOUS
    <3> QED
      BY <3>1, <2>3, ModShift
  <2>5. n # 1 /\ 2 * n - 2 - p = P - p
    BY <1>3, <2>1
  <2> QED
    BY <1>3, <2>1, <2>2, <2>3, <2>4, <2>5 DEF PlaceOf, MapIndex, reverse_index, Towards
<1> QED
  BY <1>1, <1>2, <1>3 DEF Mirroring

\* The place is one of the image.
LEMMA PlaceType ==
  ASSUME NEW border \in Mirroring \cup {"replicate"},
         NEW n \in Nat \ {0}, NEW p \in Int
  PROVE  PlaceOf(border, n, p) \in 0..n - 1
<1>1. p % n \in 0..n - 1
  BY IntDivMod
<1>2. p % (2 * n) \in 0..2 * n - 1
  <2>1. 2 * n \in Nat \ {0}
    OBVIOUS
  <2> QED
    BY <2>1, IntDivMod
<1>3. n # 1 => p % (2 * (n - 1)) \in 0..2 * (n - 1) - 1
  <2> HAVE n # 1
  <2>1. 2 * (n - 1) \in Nat \ {0}
    OBVIOUS
  <2> QED
    BY <2>1, IntDivMod
<1>4. CASE border = "replicate"
  BY <1>4 DEF PlaceOf
<1>5. CASE border = "wrap"
  BY <1>1, <1>5 DEF PlaceOf, MapIndex, wrap_index
<1>6. CASE border = "reflect"
  BY <1>2, <1>6 DEF PlaceOf, MapIndex, reflect_index
<1>7. CASE border = "reverse"
  BY <1>3, <1>7 DEF PlaceOf, MapIndex, reverse_index
<1> QED
  BY <1>4, <1>5, <1>6, <1>7 DEF Mirroring

\* Twice the distance from the middle of the image.
Distance(n, p) == IF 2 * p < n - 1 THEN n - 1 - 2 * p ELSE 2 * p - (n - 1)

\* The position mirrored is nearer to the image.
LEMMA TowardsNearer ==
  ASSUME NEW border \in Mirroring, NEW n \in Nat \ {0}, NEW reach \in Nat,
         NEW p \in -reach..reach,
         n <= reach, p \notin 0..n - 1, ~(border = "reverse" /\ n = 1)
  PROVE  /\ Towards(border, n, p) \in -reach..reach
         /\ Distance(n, Towards(border, n, p)) < Distance(n, p)
<1>1. CASE border = "wrap"
  BY <1>1 DEF Towards, Distance
<1>2. CASE border = "reflect"
  BY <1>2 DEF Towards, Distance
<1>3. CASE border = "reverse"
  BY <1>3 DEF Towards, Distance
<1> QED
  BY <1>1, <1>2, <1>3 DEF Mirroring

\* Mirroring again and again ends where the index functions lead at once.
LEMMA BounceIs ==
  ASSUME NEW border \in Mirroring \cup {"replicate"},
         NEW n \in Nat \ {0}, NEW reach \in Nat, n <= reach,
         NEW p \in -reach..reach
  PROVE  Bounce(border, n, reach)[p] = PlaceOf(border, n, p)
<1> DEFINE Step(g, q) ==
             IF q \in 0..n - 1 THEN q
             ELSE IF border = "replicate" THEN IF q < 0 THEN 0 ELSE n - 1
             ELSE IF border = "reverse" /\ n = 1 THEN 0
             ELSE g[Towards(border, n, q)]
           D == -reach..reach
           G == [q \in D |-> PlaceOf(border, n, q)]
           B == Bounce(border, n, reach)
<1>1. ASSUME NEW q \in D PROVE G[q] = Step(G, q)
  <2>1. CASE q \in 0..n - 1
    BY <2>1, PlaceInside
  <2>2. CASE q \notin 0..n - 1 /\ border = "replicate"
    BY <2>2 DEF PlaceOf
  <2>3. CASE q \notin 0..n - 1 /\ border = "reverse" /\ n = 1
    BY <2>3 DEF PlaceOf, MapIndex, reverse_index
  <2>4. CASE q \notin 0..n - 1 /\ border # "replicate" /\ ~(border = "reverse" /\ n = 1)
    <3>1. border \in Mirroring /\ q \in Int
      BY <2>4
    <3>2. PlaceOf(border, n, q) = PlaceOf(border, n, Towards(border, n, q))
      BY <2>4, <3>1, PlaceTowards
    <3>3. Towards(border, n, q) \in D
      BY <2>4, <3>1, TowardsNearer
    <3> QED
      BY <2>4, <3>2, <3>3
  <2> QED
    BY <2>1, <2>2, <2>3, <2>4
<1>2. G = [q \in D |-> Step(G, q)]
  BY <1>1
<1>3. B = CHOOSE g : g = [q \in D |-> Step(g, q)]
  BY DEF Bounce
<1>4. B = [q \in D |-> Step(B, q)]
  BY <1>2, <1>3
<1> HIDE DEF B, G
<1> DEFINE Bad == {q \in D : B[q] # PlaceOf(border, n, q)}
           Measures == {Distance(n, q) : q \in Bad}
<1>5. ASSUME NEW q \in Bad PROVE FALSE
  <2>1. Measures \subseteq Nat /\ Measures # {}
    BY <1>5 DEF Distance
  <2>2. PICK m \in Measures : \A k \in Measures : m <= k
    BY <2>1, Least
  <2>3. PICK u \in Bad : m = Distance(n, u)
    BY <2>2
  <2>4. B[u] = Step(B, u) /\ G[u] = Step(G, u) /\ G[u] = PlaceOf(border, n, u)
    BY <1>1, <1>4, <2>3 DEF G
  <2>5. /\ u \notin 0..n - 1 /\ border # "replicate" /\ ~(border = "reverse" /\ n = 1)
        /\ B[Towards(border, n, u)] # G[Towards(border, n, u)]
    BY <2>3, <2>4
  <2>6. border \in Mirroring /\ u \in D
    BY <2>3, <2>5
  <2>7. /\ Towards(border, n, u) \in D
        /\ Distance(n, Towards(border, n, u)) < Distance(n, u)
    BY <2>5, <2>6, TowardsNearer
  <2>8. Towards(border, n, u) \in Bad
    BY <2>5, <2>7 DEF G
  <2>9. Distance(n, Towards(border, n, u)) \in Measures
    BY <2>8
  <2>10. m \in Int /\ Distance(n, Towards(border, n, u)) \in Int
    BY <2>1, <2>2, <2>9
  <2> QED
    BY <2>2, <2>3, <2>7, <2>9, <2>10
<1> QED
  BY <1>5 DEF B

(***************************************************************************)
(* One row.  It is three pieces: the left border, the pixels of the image  *)
(* and the right border.                                                   *)
(***************************************************************************)
LEMMA Join ==
  ASSUME NEW l \in Nat, NEW m \in Nat, NEW a \in [1..l -> Int], NEW b \in [1..m -> Int]
  PROVE  /\ a \o b \in [1..l + m -> Int]
         /\ \A x \in 1..l : (a \o b)[x] = a[x]
         /\ \A x \in l + 1..l + m : (a \o b)[x] = b[x - l]
<1>1. a \in Seq(Int) /\ Len(a) = l /\ b \in Seq(Int) /\ Len(b) = m
  OBVIOUS
<1>2. PICK c : c = a \o b
  OBVIOUS
<1>3. /\ c \in Seq(Int) /\ Len(c) = l + m
      /\ \A x \in 1..l + m : c[x] = IF x <= l THEN a[x] ELSE b[x - l]
  BY <1>1, <1>2, ConcatProperties, ZenonT(40)
<1>4. c \in [1..l + m -> Int]
  BY <1>3
<1>5. \A x \in 1..l : c[x] = a[x]
  BY <1>3
<1>6. \A x \in l + 1..l + m : c[x] = b[x - l]
  BY <1>3
<1> QED
  BY <1>2, <1>4, <1>5, <1>6

LEMMA Pieces ==
  ASSUME NEW a \in Seq(Int), NEW b \in Seq(Int), NEW c \in Seq(Int),
         NEW x \in 1..Len(a) + Len(b) + Len(c)
  PROVE  (a \o b \o c)[x] = IF x <= Len(a) THEN a[x]
                            ELSE IF x <= Len(a) + Len(b) THEN b[x - Len(a)]
                            ELSE c[x - (Len(a) + Len(b))]
<1> DEFINE d == a \o b
<1>1. /\ d \in Seq(Int) /\ Len(d) = Len(a) + Len(b)
      /\ \A i \in 1..Len(a) + Len(b) : d[i] = IF i <= Len(a) THEN a[i] ELSE b[i - Len(a)]
  BY ConcatProperties
<1> HIDE DEF d
<1>2. \A i \in 1..Len(d) + Len(c) : (d \o c)[i] = IF i <= Len(d) THEN d[i] ELSE c[i - Len(d)]
  BY <1>1, ConcatProperties, SMTT(30)
<1>3. x \in 1..Len(d) + Len(c) /\ Len(a) \in Nat /\ Len(b) \in Nat /\ Len(c) \in Nat
  BY <1>1
<1>4. (d \o c)[x] = IF x <= Len(d) THEN d[x] ELSE c[x - Len(d)]
  BY <1>2, <1>3
<1>5. CASE x <= Len(a) + Len(b)
  <2>1. x \in 1..Len(a) + Len(b) /\ x <= Len(d)
    BY <1>1, <1>3, <1>5
  <2>2. d[x] = IF x <= Len(a) THEN a[x] ELSE b[x - Len(a)]
    BY <1>1, <2>1
  <2> QED
    BY <1>4, <1>5, <2>1, <2>2 DEF d
<1>6. CASE ~(x <= Len(a) + Len(b))
  <2>1. ~(x <= Len(a)) /\ ~(x <= Len(d))
    BY <1>1, <1>3, <1>6
  <2> QED
    BY <1>1, <1>4, <1>6, <2>1 DEF d
<1> QED
  BY <1>5, <1>6

\* The n places from `last` backwards.
Backwards(last, n) == [i \in 1..n |-> last - i + 1]

\* A vector loaded forwards and reversed.
LEMMA ReversedVector ==
  ASSUME NEW last \in Int, NEW k \in Int, NEW m \in Nat
  PROVE  rev(Vector(last, k, m)) = Backwards(last - k + m, m)
<1>1. PICK v : v = Vector(last, k, m)
  OBVIOUS
<1>2. v \in Seq(Int) /\ Len(v) = m /\ \A i \in 1..m : v[i] = last + 1 - k + i - 1
  BY <1>1 DEF Vector, copy_contiguous_bytes
<1>3. \A i \in 1..m : m + 1 - i \in 1..m /\ v[m + 1 - i] = last - k + m - i + 1
  BY <1>2
<1>4. rev(v) = [i \in 1..m |-> v[m + 1 - i]]
  BY <1>2 DEF rev
<1> QED
  BY <1>1, <1>3, <1>4 DEF Backwards

\* Two runs of places, the second continuing the first.
LEMMA BackwardsJoin ==
  ASSUME NEW last \in Int, NEW n \in Nat, NEW m \in Nat
  PROVE  Backwards(last, n) \o Backwards(last - n, m) = Backwards(last, n + m)
<1> DEFINE a == Backwards(last, n)
           b == Backwards(last - n, m)
<1>1. /\ a \in [1..n -> Int] /\ b \in [1..m -> Int]
      /\ \A i \in 1..n : a[i] = last - i + 1
      /\ \A i \in 1..m : b[i] = last - n - i + 1
  BY DEF Backwards
<1> HIDE DEF a, b
<1>2. PICK c \in [1..n + m -> Int] :
        /\ c = a \o b
        /\ \A x \in 1..n : c[x] = a[x]
        /\ \A x \in n + 1..n + m : c[x] = b[x - n]
  BY <1>1, Join
<1>3. ASSUME NEW x \in 1..n + m PROVE c[x] = last - x + 1
  <2>1. CASE x <= n
    BY <1>1, <1>2, <2>1
  <2>2. CASE x > n
    <3>1. x - n \in 1..m /\ c[x] = b[x - n]
      BY <1>2, <2>2
    <3> QED
      BY <1>1, <3>1
  <2> QED
    BY <2>1, <2>2
<1>4. c = [x \in 1..n + m |-> last - x + 1]
  BY <1>2, <1>3
<1> QED
  BY <1>2, <1>4 DEF a, b, Backwards

BackendType == backend \in [lanes : Nat \ {0}, sme : BOOLEAN]

\* The loop over pairs of vectors stores the places before `last` in order.
LEMMA PairsBackwards ==
  ASSUME BackendType, NEW last \in Int, NEW n \in Nat,
         NEW P \in Nat \ {0}, P = 2 * backend.lanes
  PROVE  ReversedPairs(last, n) = Backwards(last, P * (n \div P))
<1> DEFINE L == backend.lanes
           D == 0..n \div P
           Step(g, i) ==
             IF i = 0 THEN <<>>
             ELSE LET index == 2 * L * (i - 1)
                  IN  g[i - 1] \o rev(Vector(last, index + L, L))
                               \o rev(Vector(last, index + 2 * L, L))
           G == [i \in D |-> Backwards(last, P * i)]
           F == CHOOSE g : g = [i \in D |-> Step(g, i)]
<1>1. L \in Nat \ {0} /\ n \div P \in Nat
  BY DivMod DEF BackendType
<1>2. ReversedPairs(last, n) = F[n \div P]
  BY DEF ReversedPairs
<1> HIDE DEF L
<1>3. ASSUME NEW g, NEW i \in D, i # 0, g[i - 1] = Backwards(last, P * (i - 1))
      PROVE  Step(g, i) = Backwards(last, P * i)
  <2>1. PICK I \in Nat : I = P * (i - 1) /\ P * i = I + P
    <3>1. P * (i - 1) \in Nat /\ P * i = P * (i - 1) + P
      BY <1>1, <1>3
    <3> QED
      BY <3>1
  <2>2. 2 * L * (i - 1) = I
    BY <2>1 DEF L
  <2>3. I + L + L = P * i
    BY <1>1, <2>1 DEF L
  <2>4. /\ rev(Vector(last, I + L, L)) = Backwards(last - I, L)
        /\ rev(Vector(last, I + 2 * L, L)) = Backwards(last - (I + L), L)
    <3>1. I + L \in Int /\ I + 2 * L \in Int /\ L \in Nat
      BY <1>1, <2>1
    <3>2. last - (I + L) + L = last - I /\ last - (I + 2 * L) + L = last - (I + L)
      BY <1>1, <2>1
    <3>3. rev(Vector(last, I + L, L)) = Backwards(last - (I + L) + L, L)
      BY <3>1, ReversedVector
    <3>4. rev(Vector(last, I + 2 * L, L)) = Backwards(last - (I + 2 * L) + L, L)
      BY <3>1, ReversedVector
    <3> QED
      BY <3>2, <3>3, <3>4
  <2>5. Backwards(last, I) \o Backwards(last - I, L) = Backwards(last, I + L)
    BY <1>1, <2>1, BackwardsJoin, ZenonT(40)
  <2>6. Backwards(last, I + L) \o Backwards(last - (I + L), L) = Backwards(last, I + L + L)
    <3>1. I + L \in Nat /\ L \in Nat
      BY <1>1, <2>1
    <3> QED
      BY <3>1, BackwardsJoin
  <2>7. Step(g, i) = g[i - 1] \o rev(Vector(last, I + L, L))
                              \o rev(Vector(last, I + 2 * L, L))
    BY <1>3, <2>2
  <2>8. g[i - 1] = Backwards(last, I)
    BY <1>3, <2>1
  <2> HIDE DEF Step
  <2>9. Step(g, i) = Backwards(last, I + L + L)
    BY <2>4, <2>5, <2>6, <2>7, <2>8, Zenon
  <2> QED
    BY <2>3, <2>9, Zenon
<1>4. Backwards(last, P * 0) = <<>>
  <2>1. P * 0 = 0 /\ 1..0 = {}
    OBVIOUS
  <2> QED
    BY <2>1 DEF Backwards
<1>5. ASSUME NEW i \in D PROVE G[i] = Step(G, i)
  <2>1. CASE i = 0
    BY <1>4, <2>1
  <2>2. CASE i # 0
    <3>1. i - 1 \in D /\ G[i - 1] = Backwards(last, P * (i - 1))
      BY <1>1, <2>2
    <3> HIDE DEF G, Step
    <3>2. Step(G, i) = Backwards(last, P * i)
      BY <1>3, <2>2, <3>1
    <3> QED
      BY <3>2 DEF G
  <2> QED
    BY <2>1, <2>2
<1>6. G = [i \in D |-> Step(G, i)]
  BY <1>5, Zenon
<1>7. F = [i \in D |-> Step(F, i)]
  BY <1>6, Zenon
<1> HIDE DEF F, G, Step
<1> DEFINE Bad == {i \in D : F[i] # Backwards(last, P * i)}
<1>8. ASSUME Bad # {} PROVE FALSE
  <2>1. Bad \subseteq Nat
    BY <1>1
  <2>2. PICK i \in Bad : \A j \in Bad : i <= j
    BY <1>8, <2>1, Least
  <2>3. F[i] = Step(F, i) /\ F[i] # Backwards(last, P * i) /\ i \in D
    BY <1>7, <2>2
  <2>4. i # 0
    BY <1>4, <2>3 DEF Step
  <2>5. i - 1 \in D /\ i - 1 \notin Bad
    BY <1>1, <2>2, <2>3, <2>4
  <2>6. F[i - 1] = Backwards(last, P * (i - 1))
    BY <2>5
  <2> QED
    BY <1>3, <2>3, <2>4, <2>6
<1>9. n \div P \in D
  BY <1>1
<1> QED
  BY <1>2, <1>8, <1>9

\* Both kernels copy the n pixels up to `last` backwards, whatever the length of
\* a vector leaves over.
LEMMA CopyReversed ==
  ASSUME BackendType, NEW last \in Int, NEW n \in Nat
  PROVE  copy_reversed_pixels(last, n) = Backwards(last, n)
<1> DEFINE L == backend.lanes
<1>1. L \in Nat \ {0} /\ backend.sme \in BOOLEAN
  BY DEF BackendType
<1>2. PICK P \in Nat \ {0} : P = 2 * L
  BY <1>1
<1>3. PICK q \in Nat, r \in 0..P - 1 : n \div P = q /\ n % P = r /\ n = q * P + r
  BY DivMod
<1>4. PICK k \in Nat : k = P * q /\ n = k + r
  <2>1. P * q \in Nat /\ n = P * q + r
    BY <1>3
  <2> QED
    BY <2>1
<1>l. L \in Nat /\ L > 0 /\ P = 2 * L /\ n = k + r /\ r \in Nat /\ r < P /\ k \in Nat
  <2>1. r \in Nat /\ r < P
    <3>1. r \in 0..P - 1 /\ P \in Nat
      BY <1>3
    <3> QED
      BY <3>1
  <2> QED
    BY <1>1, <1>2, <1>4, <2>1
<1>5. ReversedPairs(last, n) = Backwards(last, k)
  BY <1>2, <1>3, <1>4, PairsBackwards, ZenonT(40)
<1>6. n - (n % (2 * L)) = k
  BY <1>2, <1>3, <1>4
<1>7. CASE ~backend.sme
  <2>1. copy_reversed_pixels(last, n) = Backwards(last, k) \o Backwards(last - k, r)
    <3>1. n - k = r
      BY <1>4
    <3>2. [i \in 1..n - k |-> last - k - i + 1] = Backwards(last - k, r)
      BY <3>1 DEF Backwards
    <3> QED
      BY <1>5, <1>6, <1>7, <3>2 DEF copy_reversed_pixels, copy_reversed_neon
  <2>2. Backwards(last, k) \o Backwards(last - k, r) = Backwards(last, k + r)
    BY <1>l, BackwardsJoin
  <2> QED
    BY <1>l, <2>1, <2>2
<1>8. CASE backend.sme
  <2> HIDE DEF L
  <2> DEFINE ones == n - (n % L)
             rest == n - ones
             table == Vector(last, n, rest)
             places == [i \in 1..rest |-> rest - i]
  <2>1. copy_reversed_pixels(last, n) =
          Backwards(last, k)
          \o (IF ones > k THEN rev(Vector(last, ones, L)) ELSE <<>>)
          \o (IF n = ones THEN <<>> ELSE tbl(table, places))
    BY <1>5, <1>6, <1>8 DEF copy_reversed_pixels, copy_reversed_sc, L
  <2>2. /\ ones = IF r < L THEN k ELSE k + L
        /\ rest = IF r < L THEN r ELSE r - L
    <3>1. CASE r < L
      <4>1. n = (2 * q) * L + r
        BY <1>1, <1>2, <1>3
      <4>2. 2 * q \in Int /\ r \in 0..L - 1
        BY <1>l, <3>1
      <4>3. n % L = r
        BY <1>1, <4>1, <4>2, ModOf
      <4> QED
        BY <1>l, <3>1, <4>3
    <3>2. CASE r >= L
      <4>1. PICK t \in 0..L - 1, odd \in Int : t = r - L /\ odd = 2 * q + 1
        BY <1>l, <3>2
      <4>2. n = odd * L + t
        BY <1>1, <1>2, <1>3, <4>1
      <4>3. odd \in Int /\ t \in 0..L - 1 /\ L \in Nat \ {0} /\ n \in Int
        BY <1>1, <4>1
      <4>4. n % L = t
        BY <4>2, <4>3, ModOf
      <4> QED
        BY <1>l, <3>2, <4>1, <4>4
    <3> QED
      BY <1>l, <3>1, <3>2
  <2>3. ones \in Nat /\ rest \in Nat /\ ones + rest = n /\ (n = ones <=> rest = 0)
    BY <1>l, <2>2
  <2> HIDE DEF ones, rest
  <2>4. Backwards(last, k) \o (IF ones > k THEN rev(Vector(last, ones, L)) ELSE <<>>)
          = Backwards(last, ones)
    <3>1. CASE r < L
      <4>1. Backwards(last, k) \in Seq(Int)
        BY DEF Backwards
      <4>2. Backwards(last, k) \o <<>> = Backwards(last, k)
        BY <4>1, ConcatEmptySeq
      <4>3. ones = k /\ ~(ones > k)
        BY <1>l, <2>2, <3>1
      <4> QED
        BY <4>2, <4>3
    <3>2. CASE r >= L
      <4>1. ones = k + L /\ ones > k /\ last - ones + L = last - k /\ ones \in Int
        BY <1>l, <2>2, <3>2
      <4>2. rev(Vector(last, ones, L)) = Backwards(last - ones + L, L)
        BY <1>l, <4>1, ReversedVector
      <4>3. Backwards(last, k) \o Backwards(last - k, L) = Backwards(last, k + L)
        BY <1>l, BackwardsJoin
      <4> QED
        BY <4>1, <4>2, <4>3
    <3> QED
      BY <1>l, <3>1, <3>2
  <2>5. tbl(table, places) = Backwards(last - ones, rest)
    <3>1. /\ table \in Seq(Int) /\ Len(table) = rest
          /\ \A i \in 1..rest : table[i] = last + 1 - n + i - 1
      BY <2>3 DEF Vector, copy_contiguous_bytes
    <3>2. places \in Seq(Int) /\ Len(places) = rest /\ \A i \in 1..rest : places[i] = rest - i
      BY <2>3
    <3> HIDE DEF table, places
    <3>3. ASSUME NEW i \in 1..rest
          PROVE  /\ places[i] < rest /\ places[i] + 1 \in 1..rest
                 /\ table[places[i] + 1] = last - ones - i + 1
      <4>1. places[i] = rest - i
        BY <3>2
      <4>2. PICK j \in 1..rest : j = rest - i + 1 /\ j = (rest - i) + 1 /\ rest - i < rest
        BY <2>3
      <4>3. table[j] = last + 1 - n + j - 1
        BY <3>1
      <4>4. last + 1 - n + j - 1 = last - ones - i + 1
        BY <2>3, <4>2
      <4> QED
        BY <4>1, <4>2, <4>3, <4>4
    <3>4. tbl(table, places) = [i \in 1..rest |-> last - ones - i + 1]
      BY <3>1, <3>2, <3>3 DEF tbl
    <3> QED
      BY <3>4 DEF Backwards
  <2>6. CASE rest = 0
    <3>1. Backwards(last, ones) \in Seq(Int)
      BY <2>3 DEF Backwards
    <3>2. Backwards(last, ones) \o <<>> = Backwards(last, ones)
      BY <3>1, ConcatEmptySeq
    <3> QED
      BY <2>1, <2>3, <2>4, <2>6, <3>2
  <2>7. CASE rest # 0
    <3>1. copy_reversed_pixels(last, n) =
            Backwards(last, ones) \o Backwards(last - ones, rest)
      BY <2>1, <2>3, <2>4, <2>5, <2>7
    <3> QED
      BY <2>3, <3>1, BackwardsJoin
  <2> QED
    BY <2>6, <2>7
<1> QED
  BY <1>1, <1>7, <1>8

\* One mirroring that ends inside the image gives the place.
LEMMA OneMirroring ==
  ASSUME NEW border \in Mirroring, NEW n \in Nat \ {0}, NEW p \in Int,
         p \notin 0..n - 1, ~(border = "reverse" /\ n = 1),
         NEW t \in 0..n - 1, t = Towards(border, n, p)
  PROVE  PlaceOf(border, n, p) = t
BY PlaceTowards, PlaceInside

\* The state of a call that was accepted.
Accepted ==
  /\ args \in CallType
  /\ BackendType
  /\ add_padding_by_copy_checks = "ok"
  /\ operation = Operation

\* What the checks establish.
LEMMA AcceptedSizes ==
  ASSUME Accepted
  PROVE  /\ args.border # "constant" => args.src_width > 0 /\ args.src_height > 0
         /\ dst_width * dst_height <= MaxPixels
         /\ args.border \in Mirroring \cup {"replicate", "constant"}
         /\ args.left \in Nat /\ args.right \in Nat /\ args.src_width \in Nat
         /\ args.top \in Nat /\ args.bottom \in Nat /\ args.src_height \in Nat
         /\ dst_width = args.left + args.src_width + args.right
         /\ dst_height = args.top + args.src_height + args.bottom
<1>1. /\ args.border \in Mirroring \cup {"replicate", "constant"}
      /\ args.left \in Nat /\ args.right \in Nat /\ args.src_width \in Nat
      /\ args.top \in Nat /\ args.bottom \in Nat /\ args.src_height \in Nat
  BY DEF Accepted, CallType, Mirroring
<1>2. /\ dst_width = args.left + args.src_width + args.right
      /\ dst_height = args.top + args.src_height + args.bottom
  BY <1>1 DEF dst_width, dst_height
<1>3. CHECK_IMAGE_SIZE(dst_width, dst_height)
  BY DEF Accepted, add_padding_by_copy_checks
<1>4. args.border # "constant" => args.src_width # 0 /\ args.src_height # 0
  BY DEF Accepted, add_padding_by_copy_checks
<1> QED
  BY <1>1, <1>2, <1>3, <1>4 DEF CHECK_IMAGE_SIZE

\* The source column wanted at column x, -1 for the border value.
ColumnOf(x) ==
  LET p == x - 1 - args.left
  IN  IF args.border = "constant"
      THEN IF p \in 0..args.src_width - 1 THEN p ELSE -1
      ELSE PlaceOf(args.border, args.src_width, p)

\* Between the borders every strategy copies; the borders are left to show.
LEMMA ColumnInside ==
  ASSUME Accepted, NEW x \in Int, args.left < x, x <= args.left + args.src_width
  PROVE  ColumnOf(x) = x - 1 - args.left
<1>1. x - 1 - args.left \in 0..args.src_width - 1 /\ args.src_width \in Nat \ {0}
  BY AcceptedSizes
<1>2. args.border # "constant" => args.border \in Mirroring \cup {"replicate"}
  BY AcceptedSizes
<1> QED
  BY <1>1, <1>2, PlaceInside DEF ColumnOf

\* A row is right when its borders are.
LEMMA RowFromBorders ==
  ASSUME Accepted, NEW x \in 1..dst_width, NEW a \in Seq(Int), NEW c \in Seq(Int),
         Len(a) = args.left, Len(c) = args.right,
         \A i \in 1..args.left : a[i] = ColumnOf(i),
         \A i \in 1..args.right : c[i] = ColumnOf(args.left + args.src_width + i)
  PROVE  (a \o inner \o c)[x] = ColumnOf(x)
<1>1. PICK b \in Seq(Int) : /\ b = inner /\ Len(b) = args.src_width
                            /\ \A i \in 1..args.src_width : b[i] = i - 1
  <2>1. /\ inner \in Seq(Int) /\ Len(inner) = args.src_width
        /\ \A i \in 1..args.src_width : inner[i] = i - 1
    <3>1. PICK w \in Nat : w = args.src_width
      BY AcceptedSizes
    <3>2. PICK b : b = [i \in 1..w |-> 0 + i - 1]
      OBVIOUS
    <3>3. b \in Seq(Int) /\ Len(b) = w /\ \A i \in 1..w : b[i] = i - 1
      BY <3>2
    <3>4. inner = b
      BY <3>1, <3>2 DEF inner, copy_contiguous_bytes
    <3> QED
      BY <3>1, <3>3, <3>4
  <2> QED
    BY <2>1
<1>2. /\ x \in 1..Len(a) + Len(b) + Len(c)
      /\ Len(a) \in Nat /\ Len(b) \in Nat /\ Len(c) \in Nat
  BY <1>1, AcceptedSizes
<1>3. (a \o b \o c)[x] = IF x <= Len(a) THEN a[x]
                         ELSE IF x <= Len(a) + Len(b) THEN b[x - Len(a)]
                         ELSE c[x - (Len(a) + Len(b))]
  BY <1>2, Pieces
<1>4. CASE x <= Len(a)
  <2>1. x \in 1..args.left
    BY <1>2, <1>4
  <2> QED
    BY <1>1, <1>3, <1>4, <2>1
<1>5. CASE x > Len(a) /\ x <= Len(a) + Len(b)
  <2>1. /\ x - Len(a) \in 1..args.src_width /\ x \in Int /\ ~(x <= Len(a))
        /\ args.left < x /\ x <= args.left + args.src_width
        /\ x - Len(a) - 1 = x - 1 - args.left
    BY <1>1, <1>2, <1>5
  <2>2. ColumnOf(x) = x - 1 - args.left
    BY <2>1, ColumnInside
  <2>3. b[x - Len(a)] = x - 1 - args.left
    BY <1>1, <2>1
  <2> QED
    BY <1>1, <1>3, <1>5, <2>1, <2>2, <2>3
<1>6. CASE x > Len(a) + Len(b)
  <2> DEFINE i == x - (Len(a) + Len(b))
  <2>1. /\ i \in 1..args.right /\ args.left + args.src_width + i = x
        /\ ~(x <= Len(a)) /\ ~(x <= Len(a) + Len(b))
    BY <1>1, <1>2, <1>6
  <2> HIDE DEF i
  <2>2. c[i] = ColumnOf(x)
    BY <2>1
  <2> QED
    BY <1>1, <1>3, <2>1, <2>2 DEF i
<1>7. \/ x <= Len(a) \/ x > Len(a) + Len(b)
      \/ x > Len(a) /\ x <= Len(a) + Len(b)
  BY <1>2
<1> QED
  BY <1>4, <1>5, <1>6, <1>7, Zenon

\* The strategy that was resolved, and the maps of the operation.
LEMMA OperationIs ==
  ASSUME Accepted
  PROVE  /\ operation.strategy = resolve_border_strategy
         /\ args.border \in Mirroring =>
              /\ operation.top = build_coordinate_sequence(args.border, args.top,
                                                           -args.top, args.src_height)
              /\ operation.bottom = build_coordinate_sequence(args.border, args.bottom,
                                                     args.src_height, args.src_height)
              /\ operation.strategy = "indexed" =>
                   operation.borders =
                     build_coordinate_sequence(args.border, args.left,
                                               -args.left, args.src_width)
                     \o build_coordinate_sequence(args.border, args.right,
                                                  args.src_width, args.src_width)
         /\ args.border \in Mirroring => operation.strategy \in {args.border, "indexed"}
         /\ args.border \notin Mirroring => operation.strategy = args.border
<1>1. operation = Operation /\ args.border \in Mirroring \cup {"constant", "replicate"}
  BY AcceptedSizes DEF Accepted
<1>2. CASE args.border \in Mirroring
  <2>1. resolve_border_strategy \in {args.border, "indexed"}
    BY <1>2 DEF resolve_border_strategy, Mirroring
  <2>2. resolve_border_strategy \notin {"constant", "replicate"}
    BY <1>2, <2>1 DEF Mirroring
  <2> QED
    BY <1>1, <1>2, <2>1, <2>2 DEF Operation
<1>3. CASE args.border \notin Mirroring
  <2>1. resolve_border_strategy = args.border /\ args.border \in {"constant", "replicate"}
    BY <1>1, <1>3 DEF resolve_border_strategy
  <2> QED
    BY <1>1, <1>3, <2>1 DEF Operation
<1> QED
  BY <1>2, <1>3

\* What Backwards is made of, and what the other pieces are.
LEMMA PieceTypes ==
  ASSUME NEW n \in Nat, NEW k \in Int
  PROVE  /\ Backwards(k, n) \in Seq(Int) /\ Len(Backwards(k, n)) = n
         /\ copy_contiguous_bytes(k, n) \in Seq(Int) /\ Len(copy_contiguous_bytes(k, n)) = n
         /\ fill_repeated_pixel(k, n) \in Seq(Int) /\ Len(fill_repeated_pixel(k, n)) = n
         /\ \A i \in 1..n : /\ Backwards(k, n)[i] = k - i + 1
                            /\ copy_contiguous_bytes(k, n)[i] = k + i - 1
                            /\ fill_repeated_pixel(k, n)[i] = k
BY DEF Backwards, copy_contiguous_bytes, fill_repeated_pixel

\* Constant and replicate: the border is one value.
LEMMA RowRepeated ==
  ASSUME Accepted, args.border \in {"constant", "replicate"}, NEW x \in 1..dst_width
  PROVE  fill_row(args.border)[x] = ColumnOf(x)
<1> DEFINE k == IF args.border = "constant" THEN -1 ELSE 0
           m == IF args.border = "constant" THEN -1 ELSE args.src_width - 1
           a == fill_repeated_pixel(k, args.left)
           c == fill_repeated_pixel(m, args.right)
<1>1. k \in Int /\ m \in Int /\ args.left \in Nat /\ args.right \in Nat
      /\ args.src_width \in Nat
  BY AcceptedSizes
<1>2. fill_row(args.border) = a \o inner \o c
  BY DEF fill_row, AddPaddingByCopyConstant, AddPaddingByCopyReplicate
<1>3. \A i \in 1..args.left : ColumnOf(i) = k
  BY <1>1 DEF ColumnOf, PlaceOf
<1>4. \A i \in 1..args.right : ColumnOf(args.left + args.src_width + i) = m
  BY <1>1 DEF ColumnOf, PlaceOf
<1> HIDE DEF k, m
<1>5. /\ a \in Seq(Int) /\ Len(a) = args.left /\ \A i \in 1..args.left : a[i] = k
      /\ c \in Seq(Int) /\ Len(c) = args.right /\ \A i \in 1..args.right : c[i] = m
  BY <1>1, PieceTypes, ZenonT(40)
<1> HIDE DEF a, c
<1>6. /\ \A i \in 1..args.left : a[i] = ColumnOf(i)
      /\ \A i \in 1..args.right : c[i] = ColumnOf(args.left + args.src_width + i)
  BY <1>3, <1>4, <1>5
<1>7. (a \o inner \o c)[x] = ColumnOf(x)
  BY <1>5, <1>6, RowFromBorders
<1> QED
  BY <1>2, <1>7

\* The borders of a row that is reflected, reversed or wrapped by copying.
LEMMA RowCopied ==
  ASSUME Accepted, args.border \in Mirroring,
         can_use_fast_path(args.border, args.src_width, args.left, args.right),
         NEW x \in 1..dst_width
  PROVE  fill_row(args.border)[x] = ColumnOf(x)
<1> DEFINE l == args.left
           w == args.src_width
           r == args.right
           k == IF args.border = "wrap" THEN w - l
                ELSE IF args.border = "reflect" THEN l - 1 ELSE l
           m == IF args.border = "wrap" THEN 0
                ELSE IF args.border = "reflect" THEN w - 1 ELSE w - 2
           a == IF args.border = "wrap" THEN copy_contiguous_bytes(k, l) ELSE Backwards(k, l)
           c == IF args.border = "wrap" THEN copy_contiguous_bytes(m, r) ELSE Backwards(m, r)
<1>1. k \in Int /\ m \in Int /\ l \in Nat /\ r \in Nat /\ w \in Nat \ {0}
  BY AcceptedSizes DEF Mirroring
<1>2. /\ l <= w /\ r <= w
      /\ args.border = "reflect" => w > 1
      /\ args.border = "reverse" => l < w /\ r < w /\ w > 1
  <2>1. CASE args.border = "wrap"
    BY <2>1 DEF can_use_fast_path
  <2>2. CASE args.border = "reflect"
    BY <2>2 DEF can_use_fast_path
  <2>3. CASE args.border = "reverse"
    BY <1>1, <2>3 DEF can_use_fast_path
  <2> QED
    BY <2>1, <2>2, <2>3 DEF Mirroring
<1>3. fill_row(args.border) = a \o inner \o c
  <2>1. BackendType
    BY DEF Accepted
  <2>2. CASE args.border = "wrap"
    BY <2>2 DEF fill_row, AddPaddingByCopyWrap
  <2>3. CASE args.border = "reflect"
    <3>1. /\ copy_reversed_pixels(l - 1, l) = Backwards(l - 1, l)
          /\ copy_reversed_pixels(w - 1, r) = Backwards(w - 1, r)
      BY <1>1, <2>1, CopyReversed
    <3> QED
      BY <2>3, <3>1 DEF fill_row, AddPaddingByCopyReflect
  <2>4. CASE args.border = "reverse"
    <3>1. /\ copy_reversed_pixels(l, l) = Backwards(l, l)
          /\ copy_reversed_pixels(w - 2, r) = Backwards(w - 2, r)
      BY <1>1, <2>1, CopyReversed
    <3> QED
      BY <2>4, <3>1 DEF fill_row, AddPaddingByCopyReverse
  <2> QED
    BY <2>2, <2>3, <2>4 DEF Mirroring
<1>4. ASSUME NEW i \in 1..l
      PROVE  ColumnOf(i) = IF args.border = "wrap" THEN k + i - 1 ELSE k - i + 1
  <2> DEFINE p == i - 1 - l
             t == IF args.border = "wrap" THEN k + i - 1 ELSE k - i + 1
  <2>1. p \in Int /\ p < 0 /\ p \notin 0..w - 1
    BY <1>1
  <2>2. t \in 0..w - 1 /\ t = Towards(args.border, w, p)
    BY <1>1, <1>2 DEF Towards, Mirroring
  <2> HIDE DEF t, p, w
  <2>3. PlaceOf(args.border, w, p) = t
    BY <1>1, <1>2, <2>1, <2>2, OneMirroring
  <2> QED
    BY <2>3 DEF ColumnOf, t, p, w, Mirroring
<1>5. ASSUME NEW i \in 1..r
      PROVE  ColumnOf(l + w + i) = IF args.border = "wrap" THEN m + i - 1 ELSE m - i + 1
  <2> DEFINE p == w + i - 1
             t == IF args.border = "wrap" THEN m + i - 1 ELSE m - i + 1
  <2>1. p \in Int /\ ~(p < 0) /\ p \notin 0..w - 1 /\ (l + w + i) - 1 - l = p
    BY <1>1
  <2>2. t \in 0..w - 1 /\ t = Towards(args.border, w, p)
    BY <1>1, <1>2 DEF Towards, Mirroring
  <2> HIDE DEF t, p, w
  <2>3. PlaceOf(args.border, w, p) = t
    BY <1>1, <1>2, <2>1, <2>2, OneMirroring
  <2> QED
    BY <2>1, <2>3 DEF ColumnOf, t, w, Mirroring
<1> HIDE DEF k, m
<1>6. /\ a \in Seq(Int) /\ Len(a) = l
      /\ \A i \in 1..l : a[i] = IF args.border = "wrap" THEN k + i - 1 ELSE k - i + 1
  BY <1>1, PieceTypes, ZenonT(40)
<1>7. /\ c \in Seq(Int) /\ Len(c) = r
      /\ \A i \in 1..r : c[i] = IF args.border = "wrap" THEN m + i - 1 ELSE m - i + 1
  BY <1>1, PieceTypes, ZenonT(40)
<1> HIDE DEF a, c
<1>8. /\ \A i \in 1..l : a[i] = ColumnOf(i)
      /\ \A i \in 1..r : c[i] = ColumnOf(l + w + i)
  BY <1>4, <1>5, <1>6, <1>7
<1>9. /\ a \in Seq(Int) /\ Len(a) = args.left
      /\ c \in Seq(Int) /\ Len(c) = args.right
  BY <1>6, <1>7
<1>10. (a \o inner \o c)[x] = ColumnOf(x)
  BY <1>8, <1>9, RowFromBorders
<1> QED
  BY <1>3, <1>10

\* A map built for the positions start, start + 1, ...
LEMMA MapIs ==
  ASSUME NEW border \in Mirroring, NEW count \in Nat, NEW start \in Int, NEW n \in Nat \ {0}
  PROVE  LET m == build_coordinate_sequence(border, count, start, n)
         IN  /\ m \in Seq(Int) /\ Len(m) = count /\ DOMAIN m = 1..count
             /\ \A i \in 1..count : /\ m[i] = PlaceOf(border, n, start + i - 1)
                                    /\ m[i] \in 0..n - 1
<1> DEFINE m == build_coordinate_sequence(border, count, start, n)
<1>1. \A i \in 1..count : start + i - 1 \in Int
  OBVIOUS
<1>2. \A p \in Int : PlaceOf(border, n, p) \in 0..n - 1
  BY PlaceType
<1>3. \A p \in Int : MapIndex(border, p, n) = PlaceOf(border, n, p)
  BY DEF PlaceOf, Mirroring
<1>4. m = [i \in 1..count |-> PlaceOf(border, n, start + i - 1)]
  BY <1>1, <1>3 DEF build_coordinate_sequence
<1> HIDE DEF m
<1>5. \A i \in 1..count : m[i] = PlaceOf(border, n, start + i - 1) /\ m[i] \in 0..n - 1
  BY <1>1, <1>2, <1>4
<1>6. m \in [1..count -> Int]
  <2>1. \A i \in 1..count : PlaceOf(border, n, start + i - 1) \in Int
    BY <1>1, <1>2
  <2> QED
    BY <1>4, <2>1
<1>7. m \in Seq(Int) /\ Len(m) = count /\ DOMAIN m = 1..count
  BY <1>6
<1> QED
  BY <1>5, <1>7 DEF m

\* The maps of a call.
LEMMA CallMaps ==
  ASSUME Accepted, args.border \in Mirroring
  PROVE  LET Map(count, start, n) == build_coordinate_sequence(args.border, count, start, n)
             Right(m, count, start, n) ==
               /\ m \in Seq(Int) /\ Len(m) = count /\ DOMAIN m = 1..count
               /\ \A i \in 1..count : /\ m[i] = PlaceOf(args.border, n, start + i - 1)
                                      /\ m[i] \in 0..n - 1
         IN  /\ Right(operation.top, args.top, -args.top, args.src_height)
             /\ Right(operation.bottom, args.bottom, args.src_height, args.src_height)
             /\ Right(Map(args.left, -args.left, args.src_width),
                      args.left, -args.left, args.src_width)
             /\ Right(Map(args.right, args.src_width, args.src_width),
                      args.right, args.src_width, args.src_width)
<1> DEFINE Map(count, start, n) == build_coordinate_sequence(args.border, count, start, n)
           Right(m, count, start, n) ==
             /\ m \in Seq(Int) /\ Len(m) = count /\ DOMAIN m = 1..count
             /\ \A i \in 1..count : /\ m[i] = PlaceOf(args.border, n, start + i - 1)
                                    /\ m[i] \in 0..n - 1
<1>1. /\ args.top \in Nat /\ -args.top \in Int /\ args.src_height \in Nat \ {0}
      /\ args.bottom \in Nat /\ args.src_height \in Int
      /\ args.left \in Nat /\ -args.left \in Int /\ args.src_width \in Nat \ {0}
      /\ args.right \in Nat /\ args.src_width \in Int
  BY AcceptedSizes DEF Mirroring
<1>2. \A count \in Nat, start \in Int, n \in Nat \ {0} :
        Right(Map(count, start, n), count, start, n)
  BY MapIs
<1>3. /\ operation.top = Map(args.top, -args.top, args.src_height)
      /\ operation.bottom = Map(args.bottom, args.src_height, args.src_height)
  BY OperationIs
<1> HIDE DEF Map, Right
<1>4. /\ Right(operation.top, args.top, -args.top, args.src_height)
      /\ Right(operation.bottom, args.bottom, args.src_height, args.src_height)
  BY <1>1, <1>2, <1>3
<1>5. /\ Right(Map(args.left, -args.left, args.src_width),
               args.left, -args.left, args.src_width)
      /\ Right(Map(args.right, args.src_width, args.src_width),
               args.right, args.src_width, args.src_width)
  BY <1>1, <1>2
<1> QED
  BY <1>4, <1>5 DEF Map, Right

\* Part of a sequence.
LEMMA PartOf ==
  ASSUME NEW s \in Seq(Int), NEW m \in Nat \ {0}, NEW h \in Nat, m <= h + 1, h <= Len(s)
  PROVE  /\ SubSeq(s, m, h) \in Seq(Int)
         /\ Len(SubSeq(s, m, h)) = h - m + 1
         /\ \A i \in 1..h - m + 1 : SubSeq(s, m, h)[i] = s[m + i - 1]
<1>1. \A i \in m..h : s[i] \in Int
  OBVIOUS
<1>2. m \in Int /\ h \in Int /\ (IF m <= h THEN h - m + 1 ELSE 0) = h - m + 1
  OBVIOUS
<1> QED
  BY <1>1, <1>2, SubSeqProperties, SMTT(30)

\* The borders of a row that is looked up.
LEMMA RowIndexed ==
  ASSUME Accepted, args.border \in Mirroring, operation.strategy = "indexed",
         NEW x \in 1..dst_width
  PROVE  fill_row("indexed")[x] = ColumnOf(x)
<1> DEFINE l == args.left
           w == args.src_width
           r == args.right
           L == build_coordinate_sequence(args.border, l, -l, w)
           R == build_coordinate_sequence(args.border, r, w, w)
           B == operation.borders
           a == SubSeq(B, 1, l)
           c == SubSeq(B, l + 1, l + r)
<1>1. /\ l \in Nat /\ r \in Nat /\ w \in Nat \ {0} /\ -l \in Int /\ w \in Int
      /\ args.border # "constant"
  BY AcceptedSizes DEF Mirroring
<1>2. B = L \o R
  BY OperationIs
<1>3. fill_row("indexed") = a \o inner \o c
  BY DEF fill_row, AddPaddingByCopyIndexed
<1>4. L \in Seq(Int) /\ Len(L) = l /\ \A i \in 1..l : L[i] = ColumnOf(i)
  <2>1. /\ L \in Seq(Int) /\ Len(L) = l
        /\ \A i \in 1..l : L[i] = PlaceOf(args.border, w, -l + i - 1)
    BY CallMaps
  <2>2. \A i \in 1..l : -l + i - 1 = i - 1 - l
    BY <1>1
  <2> QED
    BY <1>1, <2>1, <2>2 DEF ColumnOf
<1>5. R \in Seq(Int) /\ Len(R) = r /\ \A i \in 1..r : R[i] = ColumnOf(l + w + i)
  <2>1. /\ R \in Seq(Int) /\ Len(R) = r
        /\ \A i \in 1..r : R[i] = PlaceOf(args.border, w, w + i - 1)
    BY CallMaps
  <2>2. \A i \in 1..r : w + i - 1 = (l + w + i) - 1 - l
    BY <1>1
  <2> QED
    BY <1>1, <2>1, <2>2 DEF ColumnOf
<1> HIDE DEF L, R, B
<1>6. /\ B \in Seq(Int) /\ Len(B) = l + r
      /\ \A i \in 1..l + r : B[i] = IF i <= l THEN L[i] ELSE R[i - l]
  <2>1. /\ B \in Seq(Int) /\ Len(B) = Len(L) + Len(R)
        /\ \A i \in 1..Len(L) + Len(R) : B[i] = IF i <= Len(L) THEN L[i] ELSE R[i - Len(L)]
    BY <1>2, <1>4, <1>5, ConcatProperties
  <2>2. Len(L) = l /\ Len(R) = r
    BY <1>4, <1>5
  <2> QED
    BY <2>1, <2>2
<1>7. /\ a \in Seq(Int) /\ Len(a) = l
      /\ \A i \in 1..l : a[i] = ColumnOf(i)
  <2>1. \A i \in 1..l : B[i] = ColumnOf(i)
    <3> TAKE i \in 1..l
    <3>1. i \in 1..l + r /\ i <= l
      BY <1>1
    <3> QED
      BY <1>4, <1>6, <3>1
  <2>2. /\ a \in Seq(Int) /\ Len(a) = l - 1 + 1
        /\ \A i \in 1..l - 1 + 1 : a[i] = B[1 + i - 1]
    <3>1. 1 \in Nat \ {0} /\ 1 <= l + 1 /\ l <= Len(B)
      BY <1>1, <1>6
    <3> QED
      BY <1>1, <1>6, <3>1, PartOf, SMTT(30)
  <2>3. l - 1 + 1 = l /\ \A i \in 1..l : 1 + i - 1 = i
    BY <1>1
  <2> QED
    BY <2>1, <2>2, <2>3
<1>8. /\ c \in Seq(Int) /\ Len(c) = r
      /\ \A i \in 1..r : c[i] = ColumnOf(l + w + i)
  <2>1. \A i \in 1..r : B[l + i] = ColumnOf(l + w + i)
    <3> TAKE i \in 1..r
    <3>1. l + i \in 1..l + r /\ ~(l + i <= l) /\ (l + i) - l = i
      BY <1>1
    <3>2. B[l + i] = R[(l + i) - l]
      BY <1>6, <3>1
    <3> QED
      BY <1>5, <3>1, <3>2
  <2>2. PICK m \in Nat \ {0}, h \in Nat : m = l + 1 /\ h = l + r
    BY <1>1
  <2>3. /\ c \in Seq(Int) /\ Len(c) = h - m + 1
        /\ \A i \in 1..h - m + 1 : c[i] = B[m + i - 1]
    <3>b. B \in Seq(Int) /\ Len(B) = l + r
      BY <1>6
    <3>1. m \in Nat \ {0} /\ h \in Nat /\ m <= h + 1 /\ h <= Len(B) /\ B \in Seq(Int)
      BY <1>1, <2>2, <3>b
    <3>2. /\ SubSeq(B, m, h) \in Seq(Int) /\ Len(SubSeq(B, m, h)) = h - m + 1
          /\ \A i \in 1..h - m + 1 : SubSeq(B, m, h)[i] = B[m + i - 1]
      BY <3>1, PartOf
    <3> QED
      BY <2>2, <3>2, Zenon
  <2>4. h - m + 1 = r /\ \A i \in 1..r : m + i - 1 = l + i
    BY <1>1, <2>2
  <2> QED
    BY <2>1, <2>3, <2>4
<1> HIDE DEF a, c
<1>9. (a \o inner \o c)[x] = ColumnOf(x)
  BY <1>7, <1>8, RowFromBorders
<1> QED
  BY <1>3, <1>9

\* Every strategy makes the row that the border type asks for.
LEMMA RowIs ==
  ASSUME Accepted, NEW x \in 1..dst_width
  PROVE  fill_row(operation.strategy)[x] = ColumnOf(x)
<1>1. CASE args.border \notin Mirroring
  BY <1>1, RowRepeated, OperationIs, AcceptedSizes
<1>2. CASE args.border \in Mirroring /\ operation.strategy = "indexed"
  BY <1>2, RowIndexed
<1>3. CASE args.border \in Mirroring /\ operation.strategy # "indexed"
  <2>1. operation.strategy = args.border /\ operation.strategy = resolve_border_strategy
    BY <1>3, OperationIs
  <2>2. can_use_fast_path(args.border, args.src_width, args.left, args.right)
    BY <1>3, <2>1 DEF resolve_border_strategy, Mirroring
  <2> QED
    BY <1>3, <2>1, <2>2, RowCopied
<1> QED
  BY <1>1, <1>2, <1>3

\* The pixel wanted at a place of the destination.
LEMMA WantedIs ==
  ASSUME Accepted, args.border # "constant",
         NEW y \in 0..dst_height - 1, NEW x \in 1..dst_width
  PROVE  Wanted(y - args.top, x - 1 - args.left) =
           <<PlaceOf(args.border, args.src_height, y - args.top), ColumnOf(x)>>
<1>1. PICK reach \in Nat : reach = dst_width + dst_height
  BY AcceptedSizes
<1>2. /\ args.src_height \in Nat \ {0} /\ args.src_height <= reach
      /\ args.src_width \in Nat \ {0} /\ args.src_width <= reach
      /\ y - args.top \in -reach..reach
      /\ x - 1 - args.left \in -reach..reach
      /\ args.border \in Mirroring \cup {"replicate"}
  BY <1>1, AcceptedSizes
<1>3. /\ Bounce(args.border, args.src_height, reach)[y - args.top]
           = PlaceOf(args.border, args.src_height, y - args.top)
      /\ Bounce(args.border, args.src_width, reach)[x - 1 - args.left]
           = PlaceOf(args.border, args.src_width, x - 1 - args.left)
  <2>1. \A n \in Nat \ {0}, p \in -reach..reach : n <= reach =>
          Bounce(args.border, n, reach)[p] = PlaceOf(args.border, n, p)
    <3>1. args.border \in Mirroring \cup {"replicate"}
      BY <1>2
    <3> QED
      BY <3>1, BounceIs
  <2> QED
    BY <1>2, <2>1
<1> QED
  BY <1>1, <1>3 DEF Wanted, ColumnOf

\* A stripe stores the same rows as a single stripe would: the part of it that
\* lies in the body of the image, the rows above and the rows below.
LEMMA StripeIs ==
  ASSUME Accepted, NEW b \in Nat, NEW e \in Nat, e <= dst_height,
         NEW y \in Nat, b <= y, y < e, NEW x \in 1..dst_width
  PROVE  StripeRow(b, e, y)[x] = Wanted(y - args.top, x - 1 - args.left)
<1> DEFINE body == split_body_rows(b, e)
           s == operation.strategy
           h == args.src_height
           w == args.src_width
           top == args.top
           columns == fill_row(s)
           Over == y < top
           Under == y >= top + h
<1>1. h \in Nat /\ w \in Nat /\ top \in Nat /\ args.left \in Nat /\ args.right \in Nat
  BY AcceptedSizes
<1>2. /\ y >= body.begin <=> ~Over
      /\ y < body.begin <=> Over
      /\ y < body.end <=> ~Under
      /\ y >= body.end <=> Under
      /\ ~(Over /\ Under)
  BY <1>1 DEF split_body_rows
<1>3. columns[x] = ColumnOf(x)
  BY RowIs
<1>4. y \in 0..dst_height - 1 /\ y - top \in Int /\ x - 1 - args.left \in Int
  BY <1>1, AcceptedSizes
<1> HIDE DEF body, columns, Over, Under
<1>5. ASSUME NEW v
      PROVE  Row(v, columns)[x] = IF ColumnOf(x) = -1 THEN Border ELSE <<v, ColumnOf(x)>>
  BY <1>3 DEF Row
<1>6. ~Over /\ ~Under /\ w # 0 => StripeRow(b, e, y) = Row(y - top, columns)
  <2> HAVE ~Over /\ ~Under /\ w # 0
  <2>1. /\ y >= body.begin /\ y < body.end /\ w # 0
        /\ ~(w = 0 \/ y < body.begin \/ y >= body.end)
        /\ ~(y < body.begin) /\ ~(y >= body.end)
    BY <1>2
  <2> QED
    BY <2>1 DEF StripeRow, body, columns
<1>7. s = "constant" /\ (Over \/ Under \/ w = 0) => StripeRow(b, e, y) = BorderRow
  <2> HAVE s = "constant" /\ (Over \/ Under \/ w = 0)
  <2>1. /\ ~(y >= body.begin /\ y < body.end /\ w # 0)
        /\ w = 0 \/ y < body.begin \/ y >= body.end
    BY <1>2
  <2> QED
    BY <2>1 DEF StripeRow, body
<1>8. s # "constant" /\ Over =>
        StripeRow(b, e, y) = Row(IF s = "replicate" THEN 0 ELSE operation.top[y + 1], columns)
  <2> HAVE s # "constant" /\ Over
  <2>1. ~(y >= body.begin) /\ y < body.begin /\ ~(y >= body.end)
    BY <1>2
  <2> QED
    BY <2>1 DEF StripeRow, body, columns
<1>9. s # "constant" /\ Under =>
        StripeRow(b, e, y) = Row(IF s = "replicate" THEN h - 1
                                 ELSE operation.bottom[y - (top + h) + 1], columns)
  <2> HAVE s # "constant" /\ Under
  <2>1. y >= body.end /\ ~(y < body.end) /\ ~(y < body.begin)
    BY <1>2
  <2> QED
    BY <2>1 DEF StripeRow, body, columns
<1>10. CASE args.border = "constant"
  <2>1. s = "constant"
    BY <1>10, OperationIs DEF Mirroring
  <2>2. ~Over /\ ~Under <=> y - top \in 0..h - 1
    BY <1>1 DEF Over, Under
  <2>3. CASE ~Over /\ ~Under /\ w # 0
    <3>1. ColumnOf(x) = IF x - 1 - args.left \in 0..w - 1 THEN x - 1 - args.left ELSE -1
      BY <1>10 DEF ColumnOf
    <3>2. x - 1 - args.left \in 0..w - 1 => x - 1 - args.left # -1
      BY <1>1
    <3> QED
      BY <1>5, <1>6, <1>10, <2>2, <2>3, <3>1, <3>2 DEF Wanted
  <2>4. CASE Over \/ Under \/ w = 0
    <3>1. ~(y - top \in 0..h - 1 /\ x - 1 - args.left \in 0..w - 1)
      BY <1>1, <2>2, <2>4
    <3> QED
      BY <1>7, <1>10, <2>1, <2>4, <3>1 DEF Wanted, BorderRow
  <2> QED
    BY <2>3, <2>4
<1>11. CASE args.border # "constant"
  <2>1. Wanted(y - top, x - 1 - args.left) = <<PlaceOf(args.border, h, y - top), ColumnOf(x)>>
    BY <1>4, <1>11, WantedIs
  <2>2. /\ args.border \in Mirroring \cup {"replicate"}
        /\ h \in Nat \ {0} /\ w \in Nat \ {0}
    BY <1>11, AcceptedSizes
  <2>3. ColumnOf(x) # -1
    <3>1. ColumnOf(x) = PlaceOf(args.border, w, x - 1 - args.left)
      BY <1>11 DEF ColumnOf
    <3>2. ColumnOf(x) \in 0..w - 1
      BY <1>4, <2>2, <3>1, PlaceType
    <3> QED
      BY <2>2, <3>2
  <2>4. SUFFICES StripeRow(b, e, y) = Row(PlaceOf(args.border, h, y - top), columns)
    BY <1>5, <2>1, <2>3
  <2>5. /\ s # "constant"
        /\ s = "replicate" <=> args.border = "replicate"
    BY <1>11, <2>2, OperationIs DEF Mirroring
  <2>6. CASE ~Over /\ ~Under
    <3>1. y - top \in 0..h - 1
      BY <1>1, <2>6 DEF Over, Under
    <3>2. PlaceOf(args.border, h, y - top) = y - top
      BY <2>2, <3>1, PlaceInside
    <3> QED
      BY <1>6, <2>2, <2>6, <3>2
  <2>7. CASE Over
    <3>1. y - top < 0
      BY <1>1, <2>7 DEF Over
    <3>2. CASE args.border = "replicate"
      BY <1>8, <2>5, <2>7, <3>1, <3>2 DEF PlaceOf
    <3>3. CASE args.border \in Mirroring
      <4>1. y + 1 \in 1..top /\ -top + (y + 1) - 1 = y - top
        BY <1>1, <3>1
      <4>2. \A j \in 1..top : operation.top[j] = PlaceOf(args.border, h, -top + j - 1)
        BY <3>3, CallMaps
      <4>3. operation.top[y + 1] = PlaceOf(args.border, h, -top + (y + 1) - 1)
        BY <4>1, <4>2
      <4>4. s # "replicate"
        BY <2>5, <3>3 DEF Mirroring
      <4> QED
        BY <1>8, <2>5, <2>7, <4>1, <4>3, <4>4
    <3> QED
      BY <2>2, <3>2, <3>3
  <2>8. CASE Under
    <3>1. y - top >= h
      BY <1>1, <2>8 DEF Under
    <3>2. CASE args.border = "replicate"
      <4>1. PlaceOf(args.border, h, y - top) = h - 1
        BY <1>1, <1>4, <3>1, <3>2 DEF PlaceOf
      <4> QED
        BY <1>9, <2>5, <2>8, <3>2, <4>1
    <3>3. CASE args.border \in Mirroring
      <4> DEFINE i == y - (top + h) + 1
      <4>1. i \in 1..args.bottom /\ h + i - 1 = y - top
        BY <1>1, <1>4, <3>1, AcceptedSizes
      <4> HIDE DEF i
      <4>2. \A j \in 1..args.bottom :
              operation.bottom[j] = PlaceOf(args.border, h, h + j - 1)
        BY <3>3, CallMaps
      <4>3. operation.bottom[i] = PlaceOf(args.border, h, h + i - 1)
        BY <4>1, <4>2
      <4>4. s # "replicate"
        BY <2>5, <3>3 DEF Mirroring
      <4> QED
        BY <1>9, <2>5, <2>8, <4>1, <4>3, <4>4 DEF i
    <3> QED
      BY <2>2, <3>2, <3>3
  <2> QED
    BY <2>6, <2>7, <2>8
<1> QED
  BY <1>10, <1>11

(***************************************************************************)
(* The inductive invariant: nothing is stored before the call is accepted; *)
(* from then on the maps are those of the operation, and a row that no     *)
(* stripe has left to fill is right.                                       *)
(***************************************************************************)
RowsFilled ==
  \A y \in 0..dst_height - 1 :
    \/ \E s \in pad_stripes : s[1] <= y /\ y < s[2]
    \/ \A x \in 1..dst_width : padded[y][x] = Wanted(y - args.top, x - 1 - args.left)

PaddingInv ==
  /\ args \in CallType /\ BackendType
  /\ DOMAIN padded = 0..dst_height - 1
  /\ status # "ok" =>
       /\ pad_stripes = {} /\ operation = NoOperation
       /\ \A y \in 0..dst_height - 1 : \A x \in 1..dst_width : padded[y][x] = Absent
  /\ status = "ok" =>
       /\ Accepted
       /\ \A s \in pad_stripes : s[1] \in Nat /\ s[2] \in Nat /\ s[2] <= dst_height
       /\ RowsFilled

LEMMA PaddingInitInv == PaddingInit => PaddingInv
BY PaddingAssumption DEF PaddingInit, PaddingInv, BackendType

\* The call does not change.
LEMMA CallKept ==
  ASSUME UNCHANGED <<args, backend>>
  PROVE  /\ (args \in CallType)' <=> args \in CallType
         /\ BackendType' <=> BackendType
         /\ dst_width' = dst_width /\ dst_height' = dst_height
         /\ add_padding_by_copy_checks' = add_padding_by_copy_checks
         /\ Operation' = Operation
         /\ \A y, x : Wanted(y, x)' = Wanted(y, x)
<1>1. dst_width' = dst_width /\ dst_height' = dst_height
  BY DEF dst_width, dst_height
<1>2. add_padding_by_copy_checks' = add_padding_by_copy_checks
  BY <1>1 DEF add_padding_by_copy_checks
<1>3. resolve_border_strategy' = resolve_border_strategy
  BY DEF resolve_border_strategy
<1>4. Operation' = Operation
  BY <1>3 DEF Operation
<1>5. \A y, x : Wanted(y, x)' = Wanted(y, x)
  BY <1>1 DEF Wanted
<1> QED
  BY <1>1, <1>2, <1>4, <1>5 DEF BackendType

LEMMA RefuseKeeps == PaddingInv /\ Refuse => PaddingInv'
<1> SUFFICES ASSUME PaddingInv, Refuse PROVE PaddingInv'
  OBVIOUS
<1>1. UNCHANGED <<args, backend, operation, pad_stripes, padded>> /\ status' # "ok"
      /\ status # "ok"
  BY DEF Refuse
<1> QED
  BY <1>1, CallKept DEF PaddingInv

\* The rows are shared out: every row belongs to a stripe.
LEMMA CreateKeeps == PaddingInv /\ create_add_padding_by_copy_operation => PaddingInv'
<1> SUFFICES ASSUME PaddingInv, create_add_padding_by_copy_operation PROVE PaddingInv'
  OBVIOUS
<1>1. UNCHANGED <<args, backend, padded>> /\ status # "ok"
      /\ add_padding_by_copy_checks = "ok"
  BY DEF create_add_padding_by_copy_operation
<1>2. CASE status' = "allocation" /\ UNCHANGED <<operation, pad_stripes>>
  BY <1>1, <1>2, CallKept DEF PaddingInv
<1>3. CASE status' # "allocation"
  <2>1. /\ operation' = Operation /\ status' = "ok"
        /\ \E k, l \in {0} \cup (StripeCuts \cap 1..dst_height - 1) :
             /\ k <= l
             /\ pad_stripes' = {s \in {<<0, k>>, <<k, l>>, <<l, dst_height>>} : s[1] < s[2]}
    BY <1>3 DEF create_add_padding_by_copy_operation
  <2>2. PICK k, l \in {0} \cup (StripeCuts \cap 1..dst_height - 1) :
          /\ k <= l
          /\ pad_stripes' = {s \in {<<0, k>>, <<k, l>>, <<l, dst_height>>} : s[1] < s[2]}
    BY <2>1
  <2>3. dst_height \in Nat /\ k \in Nat /\ l \in Nat /\ k <= l /\ l <= dst_height
    BY <2>2 DEF PaddingInv, CallType, dst_height
  <2>4. Accepted'
    BY <1>1, <2>1, CallKept DEF Accepted, PaddingInv
  <2>5. \A s \in pad_stripes' : s[1] \in Nat /\ s[2] \in Nat /\ s[2] <= dst_height
    BY <2>2, <2>3
  <2>6. ASSUME NEW y \in 0..dst_height - 1
        PROVE  \E s \in pad_stripes' : s[1] <= y /\ y < s[2]
    <3>1. CASE y < k
      <4>1. <<0, k>> \in pad_stripes' /\ <<0, k>>[1] = 0 /\ <<0, k>>[2] = k
        BY <2>2, <2>3, <3>1
      <4> QED
        BY <3>1, <4>1
    <3>2. CASE k <= y /\ y < l
      <4>1. <<k, l>> \in pad_stripes' /\ <<k, l>>[1] = k /\ <<k, l>>[2] = l
        BY <2>2, <2>3, <3>2
      <4> QED
        BY <3>2, <4>1
    <3>3. CASE l <= y
      <4>1. /\ <<l, dst_height>> \in pad_stripes'
            /\ <<l, dst_height>>[1] = l /\ <<l, dst_height>>[2] = dst_height
        BY <2>2, <2>3, <3>3
      <4> QED
        BY <2>3, <3>3, <4>1
    <3> QED
      BY <2>3, <3>1, <3>2, <3>3
  <2>7. RowsFilled'
    BY <1>1, <2>6, CallKept DEF RowsFilled
  <2> QED
    BY <1>1, <2>1, <2>4, <2>5, <2>7, CallKept DEF PaddingInv
<1> QED
  BY <1>2, <1>3 DEF create_add_padding_by_copy_operation

\* A stripe fills its rows and no others.
LEMMA StripeKeeps ==
  ASSUME PaddingInv, NEW s \in pad_stripes, process_stripe(s) PROVE PaddingInv'
<1>1. /\ UNCHANGED <<args, backend, status, operation>> /\ pad_stripes' = pad_stripes \ {s}
      /\ padded' = [y \in DOMAIN padded |-> IF y >= s[1] /\ y < s[2]
                                            THEN StripeRow(s[1], s[2], y) ELSE padded[y]]
  BY DEF process_stripe
<1>2. status = "ok" /\ Accepted /\ DOMAIN padded = 0..dst_height - 1 /\ dst_height \in Nat
  BY DEF PaddingInv, CallType, dst_height
<1>3. PICK b \in Nat, e \in Nat : b = s[1] /\ e = s[2] /\ e <= dst_height
  BY <1>2 DEF PaddingInv
<1>4. \A y \in 0..dst_height - 1 :
        padded'[y] = IF y >= b /\ y < e THEN StripeRow(b, e, y) ELSE padded[y]
  BY <1>1, <1>2, <1>3
<1>5. ASSUME NEW y \in 0..dst_height - 1
      PROVE  \/ \E u \in pad_stripes' : u[1] <= y /\ y < u[2]
             \/ \A x \in 1..dst_width :
                  padded'[y][x] = Wanted(y - args.top, x - 1 - args.left)
  <2>1. CASE b <= y /\ y < e
    <3>1. y \in Nat /\ padded'[y] = StripeRow(b, e, y)
      BY <1>4, <2>1
    <3>2. \A x \in 1..dst_width :
            StripeRow(b, e, y)[x] = Wanted(y - args.top, x - 1 - args.left)
      BY <1>2, <1>3, <2>1, <3>1, StripeIs
    <3> QED
      BY <3>1, <3>2
  <2>2. CASE ~(b <= y /\ y < e)
    <3>1. padded'[y] = padded[y]
      BY <1>4, <2>2
    <3>2. CASE \A x \in 1..dst_width : padded[y][x] = Wanted(y - args.top, x - 1 - args.left)
      BY <3>1, <3>2
    <3>3. CASE \E u \in pad_stripes : u[1] <= y /\ y < u[2]
      <4>1. PICK u \in pad_stripes : u[1] <= y /\ y < u[2]
        BY <3>3
      <4>2. u # s
        BY <1>3, <2>2, <4>1
      <4> QED
        BY <1>1, <4>1, <4>2
    <3> QED
      BY <1>2, <3>2, <3>3 DEF PaddingInv, RowsFilled
  <2> QED
    BY <2>1, <2>2
<1>6. RowsFilled'
  BY <1>1, <1>5, CallKept DEF RowsFilled
<1>7. Accepted'
  BY <1>1, <1>2, CallKept DEF Accepted
<1>8. \A u \in pad_stripes' : u[1] \in Nat /\ u[2] \in Nat /\ u[2] <= dst_height
  BY <1>1, <1>2 DEF PaddingInv
<1>9. DOMAIN padded' = 0..dst_height - 1
  BY <1>1, <1>2
<1> QED
  BY <1>1, <1>2, <1>6, <1>7, <1>8, <1>9, CallKept DEF PaddingInv

LEMMA PaddingStep == PaddingInv /\ [PaddingNext]_paddingVars => PaddingInv'
<1> SUFFICES ASSUME PaddingInv, [PaddingNext]_paddingVars PROVE PaddingInv'
  OBVIOUS
<1>1. CASE UNCHANGED paddingVars
  <2>1. UNCHANGED <<args, backend, status, operation, pad_stripes, padded>>
    BY <1>1 DEF paddingVars
  <2>2. Accepted' <=> Accepted
    BY <2>1, CallKept DEF Accepted
  <2>3. RowsFilled' <=> RowsFilled
    BY <2>1, CallKept DEF RowsFilled
  <2> QED
    BY <2>1, <2>2, <2>3, CallKept DEF PaddingInv
<1> QED
  BY <1>1, RefuseKeeps, CreateKeeps, StripeKeeps DEF PaddingNext

\* The invariant gives the property.
LEMMA PaddingInvImplies == PaddingInv => Padded
<1> SUFFICES ASSUME PaddingInv PROVE Padded
  OBVIOUS
<1>1. status = "ok" /\ pad_stripes = {} =>
        \A y \in DOMAIN padded : \A x \in 1..dst_width :
          padded[y][x] = Wanted(y - args.top, x - 1 - args.left)
  BY DEF PaddingInv, RowsFilled
<1>2. status # "ok" =>
        \A y \in DOMAIN padded : \A x \in 1..dst_width : padded[y][x] = Absent
  BY DEF PaddingInv
<1>3. ASSUME status = "ok", operation.strategy \notin {"constant", "replicate"}
      PROVE  /\ \A i \in DOMAIN operation.top : operation.top[i] \in 0..args.src_height - 1
             /\ \A i \in DOMAIN operation.bottom :
                  operation.bottom[i] \in 0..args.src_height - 1
             /\ \A i \in 1..dst_width :
                  fill_row(operation.strategy)[i] \in 0..args.src_width - 1
  <2>1. Accepted
    BY <1>3 DEF PaddingInv
  <2>2. args.border \in Mirroring
    BY <1>3, <2>1, AcceptedSizes, OperationIs
  <2>3. args.src_width \in Nat \ {0} /\ args.left \in Nat
    BY <2>1, <2>2, AcceptedSizes DEF Mirroring
  <2>4. /\ DOMAIN operation.top = 1..args.top
        /\ \A i \in 1..args.top : operation.top[i] \in 0..args.src_height - 1
    BY <2>1, <2>2, CallMaps
  <2>5. /\ DOMAIN operation.bottom = 1..args.bottom
        /\ \A i \in 1..args.bottom : operation.bottom[i] \in 0..args.src_height - 1
    BY <2>1, <2>2, CallMaps
  <2>6. ASSUME NEW i \in 1..dst_width
        PROVE  fill_row(operation.strategy)[i] \in 0..args.src_width - 1
    <3>1. fill_row(operation.strategy)[i] = ColumnOf(i)
      BY <2>1, RowIs
    <3>2. ColumnOf(i) = PlaceOf(args.border, args.src_width, i - 1 - args.left)
      BY <2>2 DEF ColumnOf, Mirroring
    <3>3. i - 1 - args.left \in Int
      BY <2>3
    <3> QED
      BY <2>2, <2>3, <3>1, <3>2, <3>3, PlaceType
  <2> QED
    BY <2>4, <2>5, <2>6
<1>4. status = "ok" => dst_width * dst_height <= MaxPixels
  BY AcceptedSizes DEF PaddingInv
<1> QED
  BY <1>1, <1>2, <1>3, <1>4 DEF Padded, MapsInsideSource

(***************************************************************************)
(* Every place of a padded image holds the pixel that its border type      *)
(* gives it, for every size, border and vector length, at paddings wider   *)
(* than the image too, whichever strategy was resolved and however the     *)
(* rows were shared out; a call that is refused has stored nothing; and    *)
(* no map leads outside the source.                                        *)
(***************************************************************************)
THEOREM PaddingCorrect == PaddingSpec => []Padded
<1>1. PaddingInit => PaddingInv
  BY PaddingInitInv
<1>2. PaddingInv /\ [PaddingNext]_paddingVars => PaddingInv'
  BY PaddingStep
<1>3. PaddingInv => Padded
  BY PaddingInvImplies
<1> QED
  BY <1>1, <1>2, <1>3, PTL DEF PaddingSpec
=============================================================================
