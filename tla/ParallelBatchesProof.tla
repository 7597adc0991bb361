------------------------ MODULE ParallelBatchesProof ------------------------
(***************************************************************************)
(* Proofs about ParallelBatches, for any number of calls, workers, items   *)
(* and tasks, and however the scheduler cuts the tasks into ranges.        *)
(***************************************************************************)
EXTENDS ParallelBatches, FiniteSetTheorems, TLAPS

(***************************************************************************)
(* The item a call's task k starts with; for k = TaskCount(c), the end of  *)
(* the call's items.                                                       *)
(***************************************************************************)
Bound(c, k) == IF k = TaskCount(c) THEN count[c] ELSE k * min_batch_size[c]

Working(t) == batch[t].call # NoCall

(***************************************************************************)
(* The inductive invariant.  The threads that have a batch are those that  *)
(* are not idle, and they work for calls that are under way; a call the    *)
(* scheduler runs serially is run by its own thread.                       *)
(***************************************************************************)
ThreadsOfCalls ==
  /\ \A t \in Threads : Working(t) <=> at[t] # "idle"
  /\ \A t \in Threads :
       Working(t) => \/ state[batch[t].call] = "parallel"
                     \/ state[batch[t].call] = "serial" /\ t = batch[t].call
  /\ \A c \in Calls : state[c] = "serial" => batch[c].call = c

(***************************************************************************)
(* A batch is a range of the call's tasks below next, or empty.            *)
(***************************************************************************)
RangeOK(b) ==
  /\ b.begin <= b.end /\ b.end <= TaskCount(b.call)
  /\ b.begin < b.end => b.end <= next[b.call]
  /\ b.begin = TaskCount(b.call) => EmptyRangeAtEnd

RangesInCalls ==
  /\ \A c \in Calls :
       /\ next[c] \in 0..TaskCount(c)
       /\ state[c] = "ready" => next[c] = 0
       /\ state[c] \in {"serial", "returned"} => next[c] = TaskCount(c)
  /\ \A t \in Threads : Working(t) => RangeOK(batch[t])

(***************************************************************************)
(* Slots are held by the threads inside an SME callback.                   *)
(***************************************************************************)
SlotsHeld ==
  /\ \A t \in Threads : held[t] # NoDomain <=> at[t] = "sme"
  /\ \A d \in DOMAIN capacity : Cardinality(Slots!HoldersOf(d)) <= capacity[d]

(***************************************************************************)
(* An error a batch returned is on its way to shared_result, or there.     *)
(***************************************************************************)
ErrorsKept ==
  /\ \A t \in Threads :
       at[t] = "report" => error[t] = OK \/ error[t] \in failures[batch[t].call]
  /\ \A c \in Calls :
       /\ shared_result[c] = OK \/ shared_result[c] \in failures[c]
       /\ state[c] \in {"ready", "serial"} => shared_result[c] = OK
       /\ failures[c] # {} =>
            \/ shared_result[c] # OK
            \/ state[c] = "returned"
            \/ \E t \in Threads :
                 at[t] = "report" /\ batch[t].call = c /\ error[t] # OK

(***************************************************************************)
(* The ranges of running batches do not meet, and what has been processed  *)
(* is the part of the items handed out that is not in a running batch, but *)
(* for batches that failed.                                                *)
(***************************************************************************)
Apart(b1, b2) ==
  \/ b1.begin = b1.end \/ b2.begin = b2.end
  \/ b1.end <= b2.begin \/ b2.end <= b1.begin

RangesApart ==
  \A t, u \in Threads :
    t # u /\ Running(t) /\ Running(u) /\ batch[t].call = batch[u].call =>
      Apart(batch[t], batch[u])

InProgress(c, i) ==
  \E t \in Threads : Running(t) /\ batch[t].call = c /\ i \in Items(batch[t])

ItemsAccounted ==
  \A c \in Calls : \A i \in 0..count[c] - 1 :
    /\ processed[c][i] \in {0, 1}
    /\ processed[c][i] = 1 => i < Bound(c, next[c]) /\ ~InProgress(c, i)
    /\ failures[c] = {} /\ i < Bound(c, next[c]) =>
         processed[c][i] = 1 \/ InProgress(c, i)

CallsInv ==
  /\ DOMAIN processed = Calls
  /\ TypeOK /\ ThreadsOfCalls /\ RangesInCalls /\ SlotsHeld /\ ErrorsKept /\ ErrorsReported

ItemsInv == CallsInv /\ RangesApart /\ ItemsAccounted
-----------------------------------------------------------------------------
\* A call has at least one task, and what its items and batch sizes are.
LEMMA TaskCountType ==
  ASSUME TypeOK, NEW c \in Calls
  PROVE  /\ count[c] \in Nat /\ min_batch_size[c] \in Nat \ {0}
         /\ TaskCount(c) \in Nat \ {0}
<1>1. count[c] \in Nat /\ min_batch_size[c] \in Nat \ {0}
  BY ParametersAssumption DEF TypeOK
<1>2. count[c] \div min_batch_size[c] \in Nat
  BY <1>1
<1> QED
  BY <1>1, <1>2 DEF TaskCount

\* k tasks of m items are not longer than k + 1 of them.
LEMMA TasksOrdered ==
  ASSUME NEW j \in Nat, NEW k \in Nat, NEW m \in Nat, j < k
  PROVE  j * m \in Nat /\ k * m \in Nat /\ j * m + m <= k * m
  OBVIOUS

\* A multiple of the batch size below the end of the tasks is an item of the
\* call, and a batch size or more away from the end unless the call is short.
LEMMA TasksInItems ==
  ASSUME TypeOK, NEW c \in Calls, NEW k \in 0..TaskCount(c) - 1
  PROVE  /\ k * min_batch_size[c] \in Nat
         /\ k * min_batch_size[c] <= count[c]
         /\ k > 0 \/ count[c] >= min_batch_size[c] =>
              k * min_batch_size[c] + min_batch_size[c] <= count[c]
<1> DEFINE m == min_batch_size[c]
           n == count[c]
<1>1. n \in Nat /\ m \in Nat \ {0} /\ TaskCount(c) \in Nat
  BY TaskCountType
<1>2. /\ n \div m \in Nat
      /\ (n \div m) * m \in Nat
      /\ (n \div m) * m <= n
  BY <1>1
<1>3. TaskCount(c) = IF n \div m > 1 THEN n \div m ELSE 1
  BY DEF TaskCount
<1> HIDE DEF m, n
<1>4. CASE k = 0
  <2>1. k * m = 0
    BY <1>1, <1>4
  <2> QED
    BY <1>1, <1>4, <2>1 DEF m, n
<1>5. CASE k # 0
  <2>1. k \in Nat /\ k < n \div m
    BY <1>1, <1>2, <1>3, <1>5
  <2>2. k * m \in Nat /\ k * m + m <= (n \div m) * m
    BY <1>1, <1>2, <2>1, TasksOrdered
  <2> QED
    BY <1>1, <1>2, <2>1, <2>2 DEF m, n
<1> QED
  BY <1>4, <1>5

\* The items of tasks follow one another and fill the call.
LEMMA BoundsOrdered ==
  ASSUME TypeOK, NEW c \in Calls,
         NEW j \in 0..TaskCount(c), NEW k \in 0..TaskCount(c), j <= k
  PROVE  /\ Bound(c, j) \in Nat /\ Bound(c, k) \in Nat
         /\ Bound(c, j) <= Bound(c, k)
         /\ Bound(c, k) <= count[c]
         /\ Bound(c, 0) = 0
         /\ Bound(c, TaskCount(c)) = count[c]
<1> DEFINE m == min_batch_size[c]
<1>1. count[c] \in Nat /\ m \in Nat \ {0} /\ TaskCount(c) \in Nat \ {0}
  BY TaskCountType
<1>2. /\ Bound(c, 0) = 0
      /\ Bound(c, TaskCount(c)) = count[c]
  BY <1>1 DEF Bound
<1>3. \A i \in 0..TaskCount(c) - 1 :
        Bound(c, i) = i * m /\ i * m \in Nat /\ i * m <= count[c]
  BY <1>1, TasksInItems DEF Bound
<1>4. CASE k = TaskCount(c)
  BY <1>1, <1>2, <1>3, <1>4
<1>5. CASE k # TaskCount(c)
  <2>1. j \in 0..TaskCount(c) - 1 /\ k \in 0..TaskCount(c) - 1
    BY <1>1, <1>5
  <2>2. CASE j = k
    BY <1>2, <1>3, <2>1, <2>2
  <2>3. CASE j < k
    <3>1. j * m + m <= k * m
      BY <1>1, <2>1, <2>3, TasksOrdered
    <3> QED
      BY <1>1, <1>2, <1>3, <2>1, <3>1
  <2> QED
    BY <2>1, <2>2, <2>3
<1> QED
  BY <1>4, <1>5

\* The items of a range of tasks.
LEMMA ItemsOfRange ==
  ASSUME TypeOK, NEW b \in [call : Calls, begin : Nat, end : Nat],
         b.begin <= b.end, b.end <= TaskCount(b.call)
  PROVE  /\ Begin(b) \in Nat /\ End(b) \in Nat
         /\ End(b) = Bound(b.call, b.end)
         /\ End(b) <= count[b.call]
         /\ b.begin < TaskCount(b.call) =>
              Begin(b) = Bound(b.call, b.begin) /\ Begin(b) <= End(b)
         /\ Items(b) \subseteq 0..count[b.call] - 1
<1>1. /\ count[b.call] \in Nat
      /\ min_batch_size[b.call] \in Nat \ {0}
      /\ TaskCount(b.call) \in Nat \ {0}
  BY TaskCountType
<1>2. Begin(b) \in Nat
  BY <1>1 DEF Begin
<1>3. End(b) = Bound(b.call, b.end)
  BY DEF End, Bound
<1>4. /\ Bound(b.call, b.begin) <= Bound(b.call, b.end)
      /\ Bound(b.call, b.end) \in Nat
      /\ Bound(b.call, b.end) <= count[b.call]
  BY <1>1, BoundsOrdered
<1>5. b.begin < TaskCount(b.call) => Begin(b) = Bound(b.call, b.begin)
  BY <1>1 DEF Begin, Bound
<1>6. Items(b) \subseteq 0..count[b.call] - 1
  BY <1>1, <1>2, <1>3, <1>4 DEF Items
<1> QED
  BY <1>2, <1>3, <1>4, <1>5, <1>6

-----------------------------------------------------------------------------
\* What no step changes: the slots of the domains and the calls' parameters.
LEMMA ParametersKept ==
  ASSUME [Next]_vars
  PROVE  UNCHANGED <<capacity, hybrid, count, min_batch_size>>
<1>1. ASSUME NEW t \in Threads, ThreadStep(t)
      PROVE  UNCHANGED <<capacity, hybrid, count, min_batch_size>>
  BY <1>1 DEF ThreadStep, Accepted, Rejected, Process, Report, callVars,
              Slots!Acquire, Slots!Release
<1>2. ASSUME NEW c \in Calls, CallStep(c)
      PROVE  UNCHANGED <<capacity, hybrid, count, min_batch_size>>
  BY <1>2 DEF CallStep, CallParallel, CallSerial, HandOut, ReturnParallel, ReturnSerial
<1>3. ASSUME NEW c \in Calls, NEW t \in Threads, NEW begin \in 0..TaskCount(c),
             HandOutEmpty(c, t, begin)
      PROVE  UNCHANGED <<capacity, hybrid, count, min_batch_size>>
  BY <1>3 DEF HandOutEmpty
<1>4. CASE UNCHANGED vars
  BY <1>4 DEF vars, callVars
<1> QED
  BY <1>1, <1>2, <1>3, <1>4 DEF Next

\* So the tasks and items of a call, and of a batch, stay what they are.
LEMMA RangesKept ==
  ASSUME UNCHANGED <<count, min_batch_size>>
  PROVE  /\ \A c : TaskCount(c)' = TaskCount(c)
         /\ \A c, k : Bound(c, k)' = Bound(c, k)
         /\ \A b : /\ Begin(b)' = Begin(b)
                   /\ End(b)' = End(b)
                   /\ Items(b)' = Items(b)
<1>1. \A c : TaskCount(c)' = TaskCount(c)
  BY DEF TaskCount
<1>2. \A c, k : Bound(c, k)' = Bound(c, k)
  BY <1>1 DEF Bound
<1>3. \A b : Begin(b)' = Begin(b)
  BY DEF Begin
<1>4. \A b : End(b)' = End(b)
  BY <1>1 DEF End
<1>5. \A b : Items(b)' = Items(b)
  BY <1>3, <1>4 DEF Items
<1> QED
  BY <1>1, <1>2, <1>3, <1>4, <1>5

\* What Touch leaves of the counts of a call.
LEMMA TouchEffect ==
  ASSUME NEW S, NEW f \in [S -> Nat], NEW items \in SUBSET S
  PROVE  /\ Touch(f, items) \in [S -> Nat]
         /\ \A i \in S : Touch(f, items)[i] = IF i \in items THEN f[i] + 1 ELSE f[i]
<1>1. DOMAIN f \cup items = S
  OBVIOUS
<1>2. Touch(f, items) = [i \in S |-> (IF i \in S THEN f[i] ELSE 0)
                                     + (IF i \in items THEN 1 ELSE 0)]
  BY <1>1 DEF Touch
<1> QED
  BY <1>2

\* A thread that runs a batch works for a call, on some of its items.
LEMMA WorkingBatch ==
  ASSUME TypeOK, ThreadsOfCalls, RangesInCalls, NEW t \in Threads, at[t] # "idle"
  PROVE  /\ batch[t].call \in Calls
         /\ batch[t] \in [call : Calls, begin : Nat, end : Nat]
         /\ batch[t].begin <= batch[t].end
         /\ batch[t].end <= TaskCount(batch[t].call)
         /\ Items(batch[t]) \subseteq 0..count[batch[t].call] - 1
<1>1. batch[t] \in [call : Calls \cup {NoCall}, begin : Nat, end : Nat]
  BY DEF TypeOK
<1>2. Working(t)
  BY DEF ThreadsOfCalls
<1>3. batch[t].call \in Calls /\ batch[t] \in [call : Calls, begin : Nat, end : Nat]
  BY <1>1, <1>2 DEF Working
<1>4. batch[t].begin <= batch[t].end /\ batch[t].end <= TaskCount(batch[t].call)
  BY <1>2 DEF RangesInCalls, RangeOK
<1> QED
  BY <1>3, <1>4, ItemsOfRange

\* What processing a batch does to the counts of its call.
LEMMA ProcessEffect ==
  ASSUME DOMAIN processed = Calls, TypeOK, ThreadsOfCalls, RangesInCalls,
         NEW t \in Threads, NEW e, Process(t, e)
  PROVE  /\ DOMAIN processed' = Calls
         /\ \A c \in Calls : processed'[c] \in [0..count[c] - 1 -> Nat]
         /\ \A c \in Calls : \A i \in 0..count[c] - 1 :
              processed'[c][i] =
                IF e = OK /\ c = batch[t].call /\ i \in Items(batch[t])
                  THEN processed[c][i] + 1 ELSE processed[c][i]
<1> DEFINE c0 == batch[t].call
           items == Items(batch[t])
<1>1. c0 \in Calls /\ items \subseteq 0..count[c0] - 1
  BY WorkingBatch DEF Process
<1>2. \A c \in Calls : processed[c] \in [0..count[c] - 1 -> Nat]
  BY DEF TypeOK
<1>3. processed' = IF e = OK THEN [processed EXCEPT ![c0] = Touch(processed[c0], items)]
                             ELSE processed
  BY DEF Process
<1> HIDE DEF c0, items
<1>4. /\ Touch(processed[c0], items) \in [0..count[c0] - 1 -> Nat]
      /\ \A i \in 0..count[c0] - 1 :
           Touch(processed[c0], items)[i] =
             IF i \in items THEN processed[c0][i] + 1 ELSE processed[c0][i]
  <2> DEFINE S == 0..count[c0] - 1
             f == processed[c0]
  <2>1. f \in [S -> Nat]
    BY <1>1, <1>2
  <2>2. items \in SUBSET S
    BY <1>1
  <2> HIDE DEF S, f
  <2>3. /\ Touch(f, items) \in [S -> Nat]
        /\ \A i \in S : Touch(f, items)[i] = IF i \in items THEN f[i] + 1 ELSE f[i]
    BY <2>1, <2>2, TouchEffect
  <2> QED
    BY <2>3 DEF S, f
<1>5. CASE e = OK
  <2>1. \A c \in Calls :
          processed'[c] = IF c = c0 THEN Touch(processed[c0], items) ELSE processed[c]
    BY <1>3, <1>5
  <2> QED
    BY <1>1, <1>2, <1>3, <1>4, <1>5, <2>1 DEF c0, items
<1>6. CASE e # OK
  BY <1>2, <1>3, <1>6
<1> QED
  BY <1>5, <1>6

\* The type invariant holds before the first call ...
LEMMA TypeInit == Init => TypeOK
  BY ParametersAssumption DEF Init, TypeOK, NoBatch, Slots!Init

\* ... and every step keeps it: the only counts that change are those of items
\* of the call.
LEMMA TypeStep ==
  ASSUME DOMAIN processed = Calls, TypeOK, ThreadsOfCalls, RangesInCalls, [Next]_vars
  PROVE  DOMAIN processed' = Calls /\ TypeOK'
<1> USE DEF TypeOK
<1>0. UNCHANGED <<capacity, hybrid, count, min_batch_size>>
  BY ParametersKept
<1>1. ASSUME NEW t \in Threads, NEW d \in DOMAIN capacity, Accepted(t, d)
      PROVE  DOMAIN processed' = Calls /\ TypeOK'
  BY <1>1 DEF Accepted, Slots!Acquire, callVars
<1>2. ASSUME NEW t \in Threads, Rejected(t)
      PROVE  DOMAIN processed' = Calls /\ TypeOK'
  BY <1>2 DEF Rejected, callVars
<1>3. ASSUME NEW t \in Threads, NEW e \in Errors \cup {OK}, Process(t, e)
      PROVE  DOMAIN processed' = Calls /\ TypeOK'
  <2>1. batch[t].call \in Calls
    BY <1>3, WorkingBatch DEF Process
  <2>2. /\ DOMAIN processed' = Calls
        /\ \A c \in Calls : processed'[c] \in [0..count[c] - 1 -> Nat]
    BY <1>3, ProcessEffect
  <2>3. held' \in [Threads -> DOMAIN capacity \cup {NoDomain}]
    BY <1>3 DEF Process, Slots!Release
  <2>4. failures' \in [Calls -> SUBSET Errors]
    BY <1>3, <2>1 DEF Process
  <2>5. /\ error' \in [Threads -> Errors \cup {OK}]
        /\ at' \in [Threads -> {"idle", "attempt", "sme", "cpu", "report"}]
        /\ UNCHANGED <<hybrid, callVars, batch>>
    BY <1>3 DEF Process
  <2> QED
    BY <1>0, <2>2, <2>3, <2>4, <2>5 DEF callVars
<1>4. ASSUME NEW t \in Threads, Report(t)
      PROVE  DOMAIN processed' = Calls /\ TypeOK'
  BY <1>4 DEF Report, NoBatch
<1>5. ASSUME NEW c \in Calls, CallParallel(c) \/ ReturnParallel(c)
      PROVE  DOMAIN processed' = Calls /\ TypeOK'
  BY <1>5 DEF CallParallel, ReturnParallel
<1>6. ASSUME NEW c \in Calls, CallSerial(c)
      PROVE  DOMAIN processed' = Calls /\ TypeOK'
  <2>1. TaskCount(c) \in Nat /\ c \in Threads
    BY TaskCountType DEF Threads
  <2> QED
    BY <1>6, <2>1 DEF CallSerial, StartBatch
<1>7. ASSUME NEW c \in Calls, NEW t \in Threads, NEW end \in 1..TaskCount(c),
             HandOut(c, t, end)
      PROVE  DOMAIN processed' = Calls /\ TypeOK'
  <2>1. TaskCount(c) \in Nat
    BY TaskCountType
  <2>2. end \in Nat
    BY <2>1
  <2> QED
    BY <1>7, <2>2 DEF HandOut, StartBatch
<1>8. ASSUME NEW c \in Calls, NEW t \in Threads, NEW begin \in 0..TaskCount(c),
             HandOutEmpty(c, t, begin)
      PROVE  DOMAIN processed' = Calls /\ TypeOK'
  <2>1. TaskCount(c) \in Nat
    BY TaskCountType
  <2>2. begin \in Nat
    BY <2>1
  <2> QED
    BY <1>8, <2>2, ParametersAssumption DEF HandOutEmpty, StartBatch
<1>9. ASSUME NEW c \in Calls, ReturnSerial(c)
      PROVE  DOMAIN processed' = Calls /\ TypeOK'
  <2>1. c \in Threads
    BY DEF Threads
  <2> QED
    BY <1>9, <2>1 DEF ReturnSerial, NoBatch
<1>10. CASE UNCHANGED vars
  BY <1>10 DEF vars, callVars
<1> QED
  BY <1>1, <1>2, <1>3, <1>4, <1>5, <1>6, <1>7, <1>8, <1>9, <1>10
     DEF Next, ThreadStep, CallStep

-----------------------------------------------------------------------------
\* A batch that starts belongs to its call and has not been attempted yet; the
\* other threads go on with theirs.
LEMMA StartEffect ==
  ASSUME TypeOK, NEW t \in Threads, NEW c \in Calls, NEW begin, NEW end,
         StartBatch(t, c, begin, end)
  PROVE  /\ batch'[t] = [call |-> c, begin |-> begin, end |-> end]
         /\ batch'[t].call = c /\ batch'[t].begin = begin /\ batch'[t].end = end
         /\ at'[t] \in {"attempt", "cpu"}
         /\ \A u \in Threads : u # t => batch'[u] = batch[u] /\ at'[u] = at[u]
  BY DEF StartBatch, TypeOK

\* A thread whose batch is over has none; the other threads go on with theirs.
LEMMA EndEffect ==
  ASSUME TypeOK, NEW t \in Threads,
         at' = [at EXCEPT ![t] = "idle"], batch' = [batch EXCEPT ![t] = NoBatch]
  PROVE  /\ batch'[t].call = NoCall
         /\ at'[t] = "idle"
         /\ \A u \in Threads : u # t => batch'[u] = batch[u] /\ at'[u] = at[u]
  BY DEF NoBatch, TypeOK

\* Steps inside a batch leave it, and its call, alone.
LEMMA InsideEffect ==
  ASSUME TypeOK, NEW t \in Threads,
         \/ \E d \in DOMAIN capacity : Accepted(t, d)
         \/ Rejected(t)
         \/ \E e \in Errors \cup {OK} : Process(t, e)
  PROVE  /\ UNCHANGED <<callVars, batch>>
         /\ at[t] \in {"attempt", "sme", "cpu"}
         /\ at'[t] \in {"sme", "cpu", "report"}
         /\ \A u \in Threads : u # t => at'[u] = at[u]
  BY DEF TypeOK, Accepted, Rejected, Process

\* A call's own thread is one of the threads.
LEMMA CallsAreThreads == Calls \subseteq Threads
  BY DEF Threads

\* Threads have batches of calls that are under way.
LEMMA ThreadsOfCallsStep ==
  ASSUME TypeOK, ThreadsOfCalls, [Next]_vars
  PROVE  ThreadsOfCalls'
<1> USE DEF ThreadsOfCalls, Working
<1>n. NoCall \notin Calls
  BY ParametersAssumption
<1>1. ASSUME NEW t \in Threads,
             \/ \E d \in DOMAIN capacity : Accepted(t, d)
             \/ Rejected(t)
             \/ \E e \in Errors \cup {OK} : Process(t, e)
      PROVE  ThreadsOfCalls'
  <2>1. /\ UNCHANGED <<callVars, batch>>
        /\ at[t] \in {"attempt", "sme", "cpu"}
        /\ at'[t] \in {"sme", "cpu", "report"}
        /\ \A u \in Threads : u # t => at'[u] = at[u]
    BY <1>1, InsideEffect
  <2> QED
    BY <2>1 DEF callVars
<1>2. ASSUME NEW t \in Threads, Report(t) PROVE ThreadsOfCalls'
  <2>1. /\ batch'[t].call = NoCall
        /\ at'[t] = "idle"
        /\ \A u \in Threads : u # t => batch'[u] = batch[u] /\ at'[u] = at[u]
    BY <1>2, EndEffect DEF Report
  <2>2. state' = state /\ state[batch[t].call] = "parallel"
    BY <1>2 DEF Report
  <2> QED
    BY <1>n, <2>1, <2>2, CallsAreThreads
<1>3. ASSUME NEW c \in Calls, CallParallel(c) PROVE ThreadsOfCalls'
  <2>1. /\ UNCHANGED <<batch, at>>
        /\ state[c] = "ready"
        /\ state'[c] = "parallel"
        /\ \A x \in Calls : x # c => state'[x] = state[x]
    BY <1>3 DEF CallParallel, TypeOK
  <2>2. \A t \in Threads : batch[t].call \in Calls \cup {NoCall}
    BY DEF TypeOK
  <2> QED
    BY <1>n, <2>1, <2>2
<1>4. ASSUME NEW c \in Calls, NEW t \in Threads, NEW begin, NEW end,
             at[t] = "idle", StartBatch(t, c, begin, end),
             \/ state[c] = "parallel" /\ state' = state
             \/ state[c] = "ready" /\ t = c /\ state' = [state EXCEPT ![c] = "serial"]
      PROVE  ThreadsOfCalls'
  <2>1. /\ batch'[t].call = c
        /\ at'[t] \in {"attempt", "cpu"}
        /\ \A u \in Threads : u # t => batch'[u] = batch[u] /\ at'[u] = at[u]
    BY <1>4, StartEffect
  <2>2. /\ t = c \/ state'[c] = "parallel"
        /\ state'[c] \in {"parallel", "serial"}
        /\ \A x \in Calls : x # c => state'[x] = state[x]
        /\ state[c] = "parallel" => state' = state
    BY <1>4 DEF TypeOK
  <2>3. \A u \in Threads : batch[u].call \in Calls \cup {NoCall}
    BY DEF TypeOK
  <2>4. batch[t].call = NoCall
    BY <1>4
  <2>5. \A x \in Calls : state'[x] = "serial" => batch'[x].call = x
    <3> SUFFICES ASSUME NEW x \in Calls, state'[x] = "serial" PROVE batch'[x].call = x
      OBVIOUS
    <3>1. CASE x = c
      BY <2>1, <2>2, <3>1
    <3>2. CASE x # c
      BY <1>n, <2>1, <2>2, <2>4, <3>2, CallsAreThreads
    <3> QED
      BY <3>1, <3>2
  <2>6. \A u \in Threads : batch'[u].call # NoCall <=> at'[u] # "idle"
    BY <1>n, <2>1
  <2>7. ASSUME NEW u \in Threads, batch'[u].call # NoCall
        PROVE  \/ state'[batch'[u].call] = "parallel"
               \/ state'[batch'[u].call] = "serial" /\ u = batch'[u].call
    <3>1. CASE u = t
      BY <2>1, <2>2, <3>1
    <3>2. CASE u # t
      <4>1. batch'[u] = batch[u] /\ batch[u].call \in Calls
        BY <2>1, <2>3, <2>7, <3>2
      <4>2. CASE batch[u].call # c
        BY <2>2, <4>1, <4>2, <1>n
      <4>3. CASE batch[u].call = c
        BY <1>4, <1>n, <4>1, <4>3
      <4> QED
        BY <4>2, <4>3
    <3> QED
      BY <3>1, <3>2
  <2> QED
    BY <2>5, <2>6, <2>7
<1>5. ASSUME NEW c \in Calls, CallSerial(c) PROVE ThreadsOfCalls'
  BY <1>4, <1>5, CallsAreThreads DEF CallSerial
<1>6. ASSUME NEW c \in Calls, NEW t \in Threads, NEW end, HandOut(c, t, end)
      PROVE  ThreadsOfCalls'
  BY <1>4, <1>6 DEF HandOut
<1>7. ASSUME NEW c \in Calls, NEW t \in Threads, NEW begin, HandOutEmpty(c, t, begin)
      PROVE  ThreadsOfCalls'
  BY <1>4, <1>7 DEF HandOutEmpty
<1>8. ASSUME NEW c \in Calls, ReturnParallel(c) PROVE ThreadsOfCalls'
  <2>1. /\ UNCHANGED <<batch, at>>
        /\ state[c] = "parallel"
        /\ state'[c] = "returned"
        /\ \A x \in Calls : x # c => state'[x] = state[x]
    BY <1>8 DEF ReturnParallel, TypeOK
  <2>2. \A t \in Threads : batch[t].call \in Calls \cup {NoCall} /\ batch[t].call # c
    BY <1>8 DEF TypeOK, ReturnParallel, Busy
  <2> QED
    BY <1>n, <2>1, <2>2
<1>9. ASSUME NEW c \in Calls, ReturnSerial(c) PROVE ThreadsOfCalls'
  <2>1. /\ batch'[c].call = NoCall
        /\ at'[c] = "idle"
        /\ \A u \in Threads : u # c => batch'[u] = batch[u] /\ at'[u] = at[u]
    BY <1>9, EndEffect, CallsAreThreads DEF ReturnSerial
  <2>2. /\ state[c] = "serial"
        /\ state'[c] = "returned"
        /\ \A x \in Calls : x # c => state'[x] = state[x]
    BY <1>9 DEF ReturnSerial, TypeOK
  <2>3. \A t \in Threads : /\ batch[t].call \in Calls \cup {NoCall}
                           /\ t # c => batch[t].call # c
    BY <1>n, <2>2 DEF TypeOK
  <2>4. \A x \in Calls : state'[x] = "serial" => batch'[x].call = x
    BY <2>1, <2>2, CallsAreThreads
  <2>5. \A u \in Threads : batch'[u].call # NoCall <=> at'[u] # "idle"
    BY <2>1
  <2>6. \A u \in Threads : batch'[u].call # NoCall =>
          \/ state'[batch'[u].call] = "parallel"
          \/ state'[batch'[u].call] = "serial" /\ u = batch'[u].call
    BY <1>n, <2>1, <2>2, <2>3
  <2> QED
    BY <2>4, <2>5, <2>6
<1>10. CASE UNCHANGED vars
  BY <1>10 DEF vars, callVars
<1> QED
  BY <1>1, <1>2, <1>3, <1>5, <1>6, <1>7, <1>8, <1>9, <1>10
     DEF Next, ThreadStep, CallStep

-----------------------------------------------------------------------------
\* Batches stay ranges of the tasks handed out.
LEMMA RangesInCallsStep ==
  ASSUME TypeOK, ThreadsOfCalls, RangesInCalls, [Next]_vars
  PROVE  RangesInCalls'
<1>n. NoCall \notin Calls
  BY ParametersAssumption
<1>k. /\ \A c : TaskCount(c)' = TaskCount(c)
      /\ \A c \in Calls : TaskCount(c) \in Nat \ {0}
  BY ParametersKept, RangesKept, TaskCountType
<1>r. /\ \A c \in Calls :
           /\ next[c] \in 0..TaskCount(c)
           /\ state[c] = "ready" => next[c] = 0
           /\ state[c] \in {"serial", "returned"} => next[c] = TaskCount(c)
      /\ \A t \in Threads : Working(t) => RangeOK(batch[t])
  BY DEF RangesInCalls
<1>b. \A t \in Threads : /\ batch[t].call \in Calls \cup {NoCall}
                         /\ batch[t].begin \in Nat /\ batch[t].end \in Nat
  BY DEF TypeOK
<1> DEFINE Goal ==
             /\ \A c \in Calls :
                  /\ next'[c] \in 0..TaskCount(c)
                  /\ state'[c] = "ready" => next'[c] = 0
                  /\ state'[c] \in {"serial", "returned"} => next'[c] = TaskCount(c)
             /\ \A t \in Threads : batch'[t].call # NoCall =>
                  /\ batch'[t].begin <= batch'[t].end
                  /\ batch'[t].end <= TaskCount(batch'[t].call)
                  /\ batch'[t].begin < batch'[t].end =>
                       batch'[t].end <= next'[batch'[t].call]
                  /\ batch'[t].begin = TaskCount(batch'[t].call) => EmptyRangeAtEnd
<1> SUFFICES Goal
  BY <1>k DEF RangesInCalls, RangeOK, Working
<1> HIDE DEF Goal
<1>1. CASE UNCHANGED <<state, next, batch>>
  BY <1>1, <1>r DEF RangeOK, Working, Goal
<1>2. ASSUME NEW t \in Threads, ThreadStep(t) PROVE Goal
  <2>1. CASE Report(t)
    <3>1. /\ batch'[t].call = NoCall
          /\ \A u \in Threads : u # t => batch'[u] = batch[u]
          /\ UNCHANGED <<state, next>>
      BY <2>1, EndEffect DEF Report
    <3> QED
      BY <1>r, <3>1 DEF RangeOK, Working, Goal
  <2>2. CASE ~Report(t)
    <3>1. UNCHANGED <<callVars, batch>>
      BY <1>2, <2>2, InsideEffect DEF ThreadStep
    <3> QED
      BY <1>1, <3>1 DEF callVars
  <2> QED
    BY <2>1, <2>2
<1>3. ASSUME NEW c \in Calls, CallParallel(c) PROVE Goal
  <2>1. UNCHANGED <<next, batch>> /\ state' = [state EXCEPT ![c] = "parallel"]
    BY <1>3 DEF CallParallel
  <2>2. \A x \in Calls : state'[x] = IF x = c THEN "parallel" ELSE state[x]
    BY <2>1 DEF TypeOK
  <2> QED
    BY <1>r, <2>1, <2>2 DEF RangeOK, Working, Goal
<1>4. ASSUME NEW c \in Calls, CallSerial(c) PROVE Goal
  <2>1. /\ batch'[c].call = c /\ batch'[c].begin = 0 /\ batch'[c].end = TaskCount(c)
        /\ \A u \in Threads : u # c => batch'[u] = batch[u]
    <3>1. batch' = [batch EXCEPT ![c] = [call |-> c, begin |-> 0, end |-> TaskCount(c)]]
      BY <1>4 DEF CallSerial, StartBatch
    <3>2. DOMAIN batch = Threads /\ c \in Threads
      BY CallsAreThreads DEF TypeOK
    <3> QED
      BY <3>1, <3>2
  <2>2. \A x \in Calls : /\ state'[x] = IF x = c THEN "serial" ELSE state[x]
                         /\ next'[x] = IF x = c THEN TaskCount(c) ELSE next[x]
    BY <1>4 DEF CallSerial, TypeOK
  <2>3. \A u \in Threads : u # c => batch[u].call # c
    BY <1>4, <1>n DEF CallSerial, ThreadsOfCalls, Working
  <2> QED
    BY <1>b, <1>k, <1>r, <2>1, <2>2, <2>3 DEF RangeOK, Working, Goal
<1>5. ASSUME NEW c \in Calls, NEW t \in Threads, NEW end \in 1..TaskCount(c),
             HandOut(c, t, end)
      PROVE  Goal
  <2>1. /\ batch'[t].call = c /\ batch'[t].begin = next[c] /\ batch'[t].end = end
        /\ \A u \in Threads : u # t => batch'[u] = batch[u]
    <3>1. batch' = [batch EXCEPT ![t] = [call |-> c, begin |-> next[c], end |-> end]]
      BY <1>5 DEF HandOut, StartBatch
    <3>2. DOMAIN batch = Threads /\ t \in Threads
      BY CallsAreThreads DEF TypeOK
    <3> QED
      BY <3>1, <3>2
  <2>2. \A x \in Calls : /\ state'[x] = state[x]
                         /\ next'[x] = IF x = c THEN end ELSE next[x]
    BY <1>5 DEF HandOut, TypeOK
  <2>3. state[c] = "parallel" /\ next[c] < end
    BY <1>5 DEF HandOut
  <2>4. \A x \in Calls : /\ next'[x] \in 0..TaskCount(x)
                         /\ state'[x] = "ready" => next'[x] = 0
                         /\ state'[x] \in {"serial", "returned"} => next'[x] = TaskCount(x)
    BY <1>k, <1>r, <2>2, <2>3
  <2>5. ASSUME NEW u \in Threads, batch'[u].call # NoCall
        PROVE  /\ batch'[u].begin <= batch'[u].end
               /\ batch'[u].end <= TaskCount(batch'[u].call)
               /\ batch'[u].begin < batch'[u].end =>
                    batch'[u].end <= next'[batch'[u].call]
               /\ batch'[u].begin = TaskCount(batch'[u].call) => EmptyRangeAtEnd
    <3>1. CASE u = t
      BY <1>k, <1>r, <2>1, <2>2, <2>3, <3>1
    <3>2. CASE u # t
      <4>1. batch'[u] = batch[u] /\ RangeOK(batch[u]) /\ batch[u].call \in Calls
        BY <1>b, <1>r, <2>1, <2>5, <3>2 DEF Working
      <4>2. next[batch[u].call] <= next'[batch[u].call]
        BY <1>k, <1>r, <2>2, <2>3, <4>1
      <4> QED
        BY <1>b, <1>k, <1>r, <2>4, <4>1, <4>2 DEF RangeOK
    <3> QED
      BY <3>1, <3>2
  <2> QED
    BY <2>4, <2>5 DEF Goal
<1>6. ASSUME NEW c \in Calls, NEW t \in Threads, NEW begin \in 0..TaskCount(c),
             HandOutEmpty(c, t, begin)
      PROVE  Goal
  <2>1. /\ batch'[t].call = c /\ batch'[t].begin = begin /\ batch'[t].end = begin
        /\ \A u \in Threads : u # t => batch'[u] = batch[u]
    <3>1. batch' = [batch EXCEPT ![t] = [call |-> c, begin |-> begin, end |-> begin]]
      BY <1>6 DEF HandOutEmpty, StartBatch
    <3>2. DOMAIN batch = Threads /\ t \in Threads
      BY CallsAreThreads DEF TypeOK
    <3> QED
      BY <3>1, <3>2
  <2>2. UNCHANGED <<state, next>> /\ (begin = TaskCount(c) => EmptyRangeAtEnd)
    BY <1>6 DEF HandOutEmpty
  <2> QED
    BY <1>k, <1>r, <2>1, <2>2 DEF RangeOK, Working, Goal
<1>7. ASSUME NEW c \in Calls, ReturnParallel(c) PROVE Goal
  <2>1. /\ UNCHANGED <<next, batch>> /\ next[c] = TaskCount(c)
        /\ \A x \in Calls : state'[x] = IF x = c THEN "returned" ELSE state[x]
    BY <1>7 DEF ReturnParallel, TypeOK
  <2> QED
    BY <1>r, <2>1 DEF RangeOK, Working, Goal
<1>8. ASSUME NEW c \in Calls, ReturnSerial(c) PROVE Goal
  <2>1. /\ batch'[c].call = NoCall
        /\ \A u \in Threads : u # c => batch'[u] = batch[u]
    BY <1>8, EndEffect, CallsAreThreads DEF ReturnSerial
  <2>2. /\ UNCHANGED next /\ state[c] = "serial"
        /\ \A x \in Calls : state'[x] = IF x = c THEN "returned" ELSE state[x]
    BY <1>8 DEF ReturnSerial, TypeOK
  <2> QED
    BY <1>r, <2>1, <2>2 DEF RangeOK, Working, Goal
<1>9. CASE UNCHANGED vars
  BY <1>1, <1>9 DEF vars, callVars
<1> QED
  BY <1>2, <1>3, <1>4, <1>5, <1>6, <1>7, <1>8, <1>9 DEF Next, CallStep

-----------------------------------------------------------------------------
\* A batch takes a slot only while its domain has one left, and gives it back
\* when the SME callback ends, whatever that returns.
LEMMA SlotsHeldStep ==
  ASSUME TypeOK, SlotsHeld, [Next]_vars
  PROVE  SlotsHeld'
<1> DEFINE Holders(d) == {u \in Threads : held[u] = d}
           HoldersAfter(d) == {u \in Threads : held'[u] = d}
<1>n. /\ NoDomain \notin DOMAIN capacity
      /\ \A d \in DOMAIN capacity : capacity[d] \in Nat
  BY ParametersAssumption DEF TypeOK
<1>f. \A d : /\ IsFiniteSet(Holders(d)) /\ Cardinality(Holders(d)) \in Nat
             /\ IsFiniteSet(HoldersAfter(d)) /\ Cardinality(HoldersAfter(d)) \in Nat
  <2>1. \A d : Holders(d) \subseteq Threads /\ HoldersAfter(d) \subseteq Threads
    OBVIOUS
  <2> QED
    BY <2>1, ParametersAssumption, FS_Subset, FS_CardinalityType
<1>k. capacity' = capacity
  BY ParametersKept
<1>h. /\ \A t \in Threads : held[t] # NoDomain <=> at[t] = "sme"
      /\ \A d \in DOMAIN capacity : Cardinality(Holders(d)) <= capacity[d]
  BY DEF SlotsHeld, Slots!HoldersOf
<1> SUFFICES /\ \A t \in Threads : held'[t] # NoDomain <=> at'[t] = "sme"
             /\ \A d \in DOMAIN capacity : Cardinality(HoldersAfter(d)) <= capacity[d]
  BY <1>k DEF SlotsHeld, Slots!HoldersOf
<1> HIDE DEF Holders, HoldersAfter
<1>1. ASSUME NEW t \in Threads, NEW dom \in DOMAIN capacity, Accepted(t, dom)
      PROVE  /\ \A u \in Threads : held'[u] # NoDomain <=> at'[u] = "sme"
             /\ \A d \in DOMAIN capacity : Cardinality(HoldersAfter(d)) <= capacity[d]
  <2>0. /\ Slots!HoldersOf(dom) = Holders(dom)
        /\ Slots!Cardinality(Holders(dom)) = Cardinality(Holders(dom))
    BY DEF Slots!HoldersOf, Holders, Slots!Cardinality, Cardinality
  <2>1. /\ held[t] = NoDomain
        /\ Cardinality(Holders(dom)) < capacity[dom]
        /\ held' = [held EXCEPT ![t] = dom]
        /\ at' = [at EXCEPT ![t] = "sme"]
    BY <1>1, <2>0 DEF Accepted, Slots!Acquire
  <2>2. /\ held'[t] = dom /\ at'[t] = "sme"
        /\ \A u \in Threads : u # t => held'[u] = held[u] /\ at'[u] = at[u]
    BY <2>1 DEF TypeOK
  <2>3. HoldersAfter(dom) = Holders(dom) \cup {t} /\ t \notin Holders(dom)
    BY <1>n, <2>1, <2>2 DEF Holders, HoldersAfter
  <2>4. Cardinality(HoldersAfter(dom)) = Cardinality(Holders(dom)) + 1
    BY <1>f, <2>3, FS_AddElement
  <2>5. \A d \in DOMAIN capacity : d # dom => HoldersAfter(d) = Holders(d)
    BY <1>n, <2>1, <2>2 DEF Holders, HoldersAfter
  <2>6. \A d \in DOMAIN capacity : Cardinality(HoldersAfter(d)) <= capacity[d]
    BY <1>f, <1>h, <1>n, <2>1, <2>4, <2>5
  <2> QED
    BY <1>h, <1>n, <2>2, <2>6
<1>2. ASSUME NEW t \in Threads, NEW e, Process(t, e)
      PROVE  /\ \A u \in Threads : held'[u] # NoDomain <=> at'[u] = "sme"
             /\ \A d \in DOMAIN capacity : Cardinality(HoldersAfter(d)) <= capacity[d]
  <2>1. /\ held'[t] = NoDomain /\ at'[t] = "report"
        /\ \A u \in Threads : u # t => held'[u] = held[u] /\ at'[u] = at[u]
    BY <1>2, <1>h DEF Process, Slots!Release, TypeOK
  <2>2. \A d \in DOMAIN capacity : HoldersAfter(d) \subseteq Holders(d)
    BY <1>n, <2>1 DEF Holders, HoldersAfter
  <2>3. \A d \in DOMAIN capacity :
          Cardinality(HoldersAfter(d)) <= Cardinality(Holders(d))
    BY <1>f, <2>2, FS_Subset
  <2>4. \A d \in DOMAIN capacity : Cardinality(HoldersAfter(d)) <= capacity[d]
    BY <1>f, <1>h, <1>n, <2>3
  <2> QED
    BY <1>h, <2>1, <2>4
<1>3. ASSUME held' = held, \A u \in Threads : at'[u] = "sme" <=> at[u] = "sme"
      PROVE  /\ \A u \in Threads : held'[u] # NoDomain <=> at'[u] = "sme"
             /\ \A d \in DOMAIN capacity : Cardinality(HoldersAfter(d)) <= capacity[d]
  <2>1. \A d : HoldersAfter(d) = Holders(d)
    BY <1>3 DEF Holders, HoldersAfter
  <2> QED
    BY <1>3, <1>h, <2>1
<1>4. ASSUME NEW t \in Threads, Rejected(t) \/ Report(t)
      PROVE  held' = held /\ \A u \in Threads : at'[u] = "sme" <=> at[u] = "sme"
  BY <1>4 DEF Rejected, Report, TypeOK
<1>5. ASSUME NEW c \in Calls, NEW t \in Threads, NEW begin, NEW end,
             at[t] = "idle", StartBatch(t, c, begin, end)
      PROVE  \A u \in Threads : at'[u] = "sme" <=> at[u] = "sme"
  BY <1>5, StartEffect
<1>6. ASSUME NEW c \in Calls, CallStep(c)
      PROVE  held' = held /\ \A u \in Threads : at'[u] = "sme" <=> at[u] = "sme"
  <2>1. CASE CallParallel(c) \/ ReturnParallel(c)
    BY <2>1 DEF CallParallel, ReturnParallel
  <2>2. CASE CallSerial(c)
    BY <2>2, <1>5, CallsAreThreads DEF CallSerial
  <2>3. CASE ReturnSerial(c)
    BY <2>3, CallsAreThreads DEF ReturnSerial, TypeOK
  <2>4. ASSUME NEW t \in Threads, NEW end \in 1..TaskCount(c), HandOut(c, t, end)
        PROVE  held' = held /\ \A u \in Threads : at'[u] = "sme" <=> at[u] = "sme"
    BY <2>4, <1>5 DEF HandOut
  <2> QED
    BY <1>6, <2>1, <2>2, <2>3, <2>4 DEF CallStep
<1>7. ASSUME NEW c \in Calls, NEW t \in Threads, NEW begin, HandOutEmpty(c, t, begin)
      PROVE  held' = held /\ \A u \in Threads : at'[u] = "sme" <=> at[u] = "sme"
  BY <1>5, <1>7 DEF HandOutEmpty
<1>8. CASE UNCHANGED vars
  BY <1>3, <1>8 DEF vars
<1> QED
  BY <1>1, <1>2, <1>3, <1>4, <1>6, <1>7, <1>8 DEF Next, ThreadStep

-----------------------------------------------------------------------------
\* No error of a batch gets lost between the batch and the caller.
LEMMA ErrorsStep ==
  ASSUME TypeOK, ThreadsOfCalls, ErrorsKept, ErrorsReported, [Next]_vars
  PROVE  ErrorsKept' /\ ErrorsReported'
<1>n. NoCall \notin Calls /\ OK \notin Errors
  BY ParametersAssumption
<1>w. /\ \A t \in Threads : at[t] # "idle" <=> batch[t].call # NoCall
      /\ \A t \in Threads : batch[t].call \in Calls \cup {NoCall}
      /\ \A t \in Threads : batch[t].call # NoCall =>
           \/ state[batch[t].call] = "parallel"
           \/ state[batch[t].call] = "serial" /\ t = batch[t].call
  BY DEF ThreadsOfCalls, Working, TypeOK
<1>e. /\ \A t \in Threads :
           at[t] = "report" => error[t] = OK \/ error[t] \in failures[batch[t].call]
      /\ \A c \in Calls :
           /\ shared_result[c] = OK \/ shared_result[c] \in failures[c]
           /\ state[c] \in {"ready", "serial"} => shared_result[c] = OK
           /\ failures[c] # {} =>
                \/ shared_result[c] # OK
                \/ state[c] = "returned"
                \/ \E t \in Threads :
                     at[t] = "report" /\ batch[t].call = c /\ error[t] # OK
      /\ \A c \in Calls :
           state[c] = "returned" =>
             IF failures[c] = {} THEN result[c] = OK ELSE result[c] \in failures[c]
  BY DEF ErrorsKept, ErrorsReported
<1>y. \A c \in Calls : state[c] \in {"ready", "parallel", "serial", "returned"}
  BY DEF TypeOK
<1>0. ASSUME UNCHANGED <<state, shared_result, result, batch, error, failures>>,
             \A t \in Threads : at'[t] = "report" <=> at[t] = "report"
      PROVE  ErrorsKept' /\ ErrorsReported'
  BY <1>0, <1>e DEF ErrorsKept, ErrorsReported
<1>1. ASSUME NEW t \in Threads, (\E d \in DOMAIN capacity : Accepted(t, d)) \/ Rejected(t)
      PROVE  ErrorsKept' /\ ErrorsReported'
  <2>1. UNCHANGED <<state, shared_result, result, batch, error, failures>>
    BY <1>1 DEF Accepted, Rejected, callVars
  <2>2. \A u \in Threads : at'[u] = "report" <=> at[u] = "report"
    BY <1>1 DEF Accepted, Rejected, TypeOK
  <2> QED
    BY <1>0, <2>1, <2>2
<1>2. ASSUME NEW t \in Threads, NEW e \in Errors \cup {OK}, Process(t, e)
      PROVE  ErrorsKept' /\ ErrorsReported'
  <2> DEFINE c0 == batch[t].call
  <2>1. /\ UNCHANGED <<state, shared_result, result, batch>>
        /\ at[t] \in {"sme", "cpu"}
    BY <1>2 DEF Process, callVars
  <2>2. c0 \in Calls /\ state[c0] \in {"parallel", "serial"}
    BY <1>w, <2>1
  <2>3. /\ at'[t] = "report" /\ error'[t] = e
        /\ \A u \in Threads : u # t => at'[u] = at[u] /\ error'[u] = error[u]
    BY <1>2 DEF Process, TypeOK
  <2>4. \A c \in Calls :
          failures'[c] = IF c = c0 /\ e # OK THEN failures[c] \cup {e} ELSE failures[c]
    BY <1>2 DEF Process, TypeOK
  <2> HIDE DEF c0
  <2>5. \A u \in Threads :
          at'[u] = "report" => error'[u] = OK \/ error'[u] \in failures'[batch'[u].call]
    <3> SUFFICES ASSUME NEW u \in Threads, at'[u] = "report"
                 PROVE  error'[u] = OK \/ error'[u] \in failures'[batch'[u].call]
      OBVIOUS
    <3>1. CASE u = t
      BY <2>1, <2>2, <2>3, <2>4, <3>1 DEF c0
    <3>2. CASE u # t
      <4>1. at[u] = "report" /\ batch[u].call \in Calls
        BY <1>w, <2>3, <3>2
      <4>2. error[u] = OK \/ error[u] \in failures[batch[u].call]
        BY <1>e, <4>1
      <4>3. failures[batch[u].call] \subseteq failures'[batch[u].call]
        BY <2>4, <4>1
      <4> QED
        BY <2>1, <2>3, <3>2, <4>2, <4>3
    <3> QED
      BY <3>1, <3>2
  <2>6. ASSUME NEW c \in Calls
        PROVE  /\ shared_result'[c] = OK \/ shared_result'[c] \in failures'[c]
               /\ state'[c] \in {"ready", "serial"} => shared_result'[c] = OK
    <3>1. /\ shared_result[c] = OK \/ shared_result[c] \in failures[c]
          /\ state[c] \in {"ready", "serial"} => shared_result[c] = OK
      BY <1>e
    <3>2. failures[c] \subseteq failures'[c]
      BY <2>4
    <3> QED
      BY <2>1, <3>1, <3>2
  <2>7. ASSUME NEW c \in Calls, failures'[c] # {}
        PROVE  \/ shared_result'[c] # OK
               \/ state'[c] = "returned"
               \/ \E u \in Threads :
                    at'[u] = "report" /\ batch'[u].call = c /\ error'[u] # OK
    <3>1. CASE c = c0 /\ e # OK
      BY <2>1, <2>3, <3>1 DEF c0
    <3>2. CASE ~(c = c0 /\ e # OK)
      <4>1. \/ shared_result[c] # OK
            \/ state[c] = "returned"
            \/ \E u \in Threads : at[u] = "report" /\ batch[u].call = c /\ error[u] # OK
        BY <1>e, <2>4, <2>7, <3>2
      <4> QED
        BY <2>1, <2>3, <4>1
    <3> QED
      BY <3>1, <3>2
  <2>8. ErrorsReported'
    BY <1>e, <2>1, <2>2, <2>4 DEF ErrorsReported
  <2> QED
    BY <2>5, <2>6, <2>7, <2>8 DEF ErrorsKept
<1>3. ASSUME NEW t \in Threads, Report(t)
      PROVE  ErrorsKept' /\ ErrorsReported'
  <2> DEFINE c0 == batch[t].call
  <2>1. /\ UNCHANGED <<state, result, error, failures>>
        /\ at[t] = "report" /\ state[c0] = "parallel"
    BY <1>3 DEF Report
  <2>2. c0 \in Calls
    BY <1>w, <2>1
  <2>3. /\ at'[t] = "idle"
        /\ \A u \in Threads : u # t => batch'[u] = batch[u] /\ at'[u] = at[u]
    BY <1>3, EndEffect DEF Report
  <2>4. \A c \in Calls : shared_result'[c] =
          IF c = c0 /\ error[t] # OK THEN error[t] ELSE shared_result[c]
    BY <1>3 DEF Report, TypeOK
  <2> HIDE DEF c0
  <2>5. \A u \in Threads :
          at'[u] = "report" => error'[u] = OK \/ error'[u] \in failures'[batch'[u].call]
    BY <1>e, <2>1, <2>3
  <2>6. ASSUME NEW c \in Calls
        PROVE  /\ shared_result'[c] = OK \/ shared_result'[c] \in failures'[c]
               /\ state'[c] \in {"ready", "serial"} => shared_result'[c] = OK
    <3>1. CASE c = c0 /\ error[t] # OK
      <4>1. error[t] \in failures[c]
        BY <1>e, <2>1, <3>1 DEF c0
      <4> QED
        BY <2>1, <2>4, <3>1, <4>1
    <3>2. CASE ~(c = c0 /\ error[t] # OK)
      BY <1>e, <2>1, <2>4, <3>2
    <3> QED
      BY <3>1, <3>2
  <2>7. ASSUME NEW c \in Calls, failures'[c] # {}
        PROVE  \/ shared_result'[c] # OK
               \/ state'[c] = "returned"
               \/ \E u \in Threads :
                    at'[u] = "report" /\ batch'[u].call = c /\ error'[u] # OK
    <3>1. CASE c = c0 /\ error[t] # OK
      BY <2>4, <3>1
    <3>2. CASE ~(c = c0 /\ error[t] # OK)
      <4>1. \/ shared_result[c] # OK
            \/ state[c] = "returned"
            \/ \E u \in Threads : at[u] = "report" /\ batch[u].call = c /\ error[u] # OK
        BY <1>e, <2>1, <2>7
      <4>2. \A u \in Threads :
              at[u] = "report" /\ batch[u].call = c /\ error[u] # OK => u # t
        BY <3>2 DEF c0
      <4> QED
        BY <2>1, <2>3, <2>4, <3>2, <4>1, <4>2
    <3> QED
      BY <3>1, <3>2
  <2>8. ErrorsReported'
    BY <1>e, <2>1 DEF ErrorsReported
  <2> QED
    BY <2>5, <2>6, <2>7, <2>8 DEF ErrorsKept
<1>4. ASSUME NEW c \in Calls, NEW t \in Threads, NEW begin, NEW end,
             at[t] = "idle", StartBatch(t, c, begin, end),
             UNCHANGED <<shared_result, result, error, failures>>,
             \/ state' = state
             \/ state[c] = "ready" /\ state' = [state EXCEPT ![c] = "serial"]
      PROVE  ErrorsKept' /\ ErrorsReported'
  <2>1. /\ at'[t] \in {"attempt", "cpu"}
        /\ \A u \in Threads : u # t => batch'[u] = batch[u] /\ at'[u] = at[u]
    BY <1>4, StartEffect
  <2>2. \A u \in Threads :
          /\ at'[u] = "report" <=> at[u] = "report"
          /\ at[u] = "report" => batch'[u] = batch[u]
    BY <1>4, <2>1
  <2>3. \A x \in Calls : /\ state'[x] = "returned" <=> state[x] = "returned"
                         /\ state'[x] \in {"ready", "serial"} =>
                              state[x] \in {"ready", "serial"}
    BY <1>4 DEF TypeOK
  <2> QED
    BY <1>4, <1>e, <2>2, <2>3 DEF ErrorsKept, ErrorsReported
<1>5. ASSUME NEW c \in Calls, CallParallel(c) PROVE ErrorsKept' /\ ErrorsReported'
  <2>1. /\ UNCHANGED <<shared_result, result, batch, at, error, failures>>
        /\ \A x \in Calls : state'[x] = IF x = c THEN "parallel" ELSE state[x]
        /\ state[c] = "ready"
    BY <1>5 DEF CallParallel, TypeOK
  <2> QED
    BY <1>e, <2>1 DEF ErrorsKept, ErrorsReported
<1>6. ASSUME NEW c \in Calls, CallSerial(c) PROVE ErrorsKept' /\ ErrorsReported'
  BY <1>4, <1>6, CallsAreThreads DEF CallSerial
<1>7. ASSUME NEW c \in Calls, NEW t \in Threads, NEW end, HandOut(c, t, end)
      PROVE  ErrorsKept' /\ ErrorsReported'
  BY <1>4, <1>7 DEF HandOut
<1>8. ASSUME NEW c \in Calls, NEW t \in Threads, NEW begin, HandOutEmpty(c, t, begin)
      PROVE  ErrorsKept' /\ ErrorsReported'
  BY <1>4, <1>8 DEF HandOutEmpty
<1>9. ASSUME NEW c \in Calls, ReturnParallel(c) PROVE ErrorsKept' /\ ErrorsReported'
  <2>1. /\ UNCHANGED <<shared_result, batch, at, error, failures>>
        /\ \A x \in Calls : /\ state'[x] = IF x = c THEN "returned" ELSE state[x]
                            /\ result'[x] = IF x = c THEN shared_result[c] ELSE result[x]
        /\ \A t \in Threads : batch[t].call # c
    BY <1>9 DEF ReturnParallel, TypeOK, Busy
  <2>2. state[c] = "parallel"
    BY <1>9 DEF ReturnParallel
  <2>3. ErrorsKept'
    BY <1>e, <2>1 DEF ErrorsKept
  <2>4. IF failures[c] = {} THEN shared_result[c] = OK ELSE shared_result[c] \in failures[c]
    BY <1>e, <2>1, <2>2
  <2>5. ErrorsReported'
    BY <1>e, <2>1, <2>4 DEF ErrorsReported
  <2> QED
    BY <2>3, <2>5
<1>10. ASSUME NEW c \in Calls, ReturnSerial(c) PROVE ErrorsKept' /\ ErrorsReported'
  <2>1. /\ at'[c] = "idle"
        /\ \A u \in Threads : u # c => batch'[u] = batch[u] /\ at'[u] = at[u]
    BY <1>10, EndEffect, CallsAreThreads DEF ReturnSerial
  <2>2. /\ UNCHANGED <<shared_result, error, failures>>
        /\ \A x \in Calls : /\ state'[x] = IF x = c THEN "returned" ELSE state[x]
                            /\ result'[x] = IF x = c THEN error[c] ELSE result[x]
        /\ state[c] = "serial" /\ at[c] = "report"
    BY <1>10 DEF ReturnSerial, TypeOK
  <2>3. batch[c].call = c /\ \A u \in Threads : batch[u].call = c => u = c
    BY <1>n, <1>w, <2>2 DEF ThreadsOfCalls
  <2>4. IF failures[c] = {} THEN error[c] = OK ELSE error[c] \in failures[c]
    BY <1>e, <2>2, <2>3, CallsAreThreads
  <2>5. ErrorsReported'
    BY <1>e, <2>2, <2>4 DEF ErrorsReported
  <2>6. \A u \in Threads :
          at'[u] = "report" => error'[u] = OK \/ error'[u] \in failures'[batch'[u].call]
    BY <1>e, <2>1, <2>2
  <2>7. ASSUME NEW x \in Calls
        PROVE  /\ shared_result'[x] = OK \/ shared_result'[x] \in failures'[x]
               /\ state'[x] \in {"ready", "serial"} => shared_result'[x] = OK
               /\ failures'[x] # {} =>
                    \/ shared_result'[x] # OK
                    \/ state'[x] = "returned"
                    \/ \E t \in Threads :
                         at'[t] = "report" /\ batch'[t].call = x /\ error'[t] # OK
    <3>1. CASE x = c
      BY <1>e, <2>2, <3>1
    <3>2. CASE x # c
      BY <1>e, <2>1, <2>2, <2>3, <3>2
    <3> QED
      BY <3>1, <3>2
  <2> QED
    BY <2>5, <2>6, <2>7 DEF ErrorsKept
<1>11. CASE UNCHANGED vars
  BY <1>0, <1>11 DEF vars, callVars
<1> QED
  BY <1>1, <1>2, <1>3, <1>5, <1>6, <1>7, <1>8, <1>9, <1>10, <1>11
     DEF Next, ThreadStep, CallStep

-----------------------------------------------------------------------------
\* Before the first call nothing runs, fails or holds a slot.
LEMMA CallsInit == Init => CallsInv
<1> SUFFICES ASSUME Init PROVE CallsInv
  OBVIOUS
<1>1. TypeOK
  BY TypeInit
<1>2. ThreadsOfCalls
  BY DEF Init, ThreadsOfCalls, Working, NoBatch
<1>3. RangesInCalls
  <2>1. \A c \in Calls : TaskCount(c) \in Nat
    BY <1>1, TaskCountType
  <2>2. \A c \in Calls : next[c] = 0 /\ state[c] = "ready"
    BY DEF Init
  <2>3. \A t \in Threads : ~Working(t)
    BY DEF Init, Working, NoBatch
  <2> QED
    BY <2>1, <2>2, <2>3 DEF RangesInCalls
<1>4. SlotsHeld
  <2>1. \A d \in DOMAIN capacity : Slots!HoldersOf(d) = {} /\ capacity[d] \in Nat
    BY ParametersAssumption DEF Init, Slots!Init, Slots!HoldersOf
  <2>2. \A d \in DOMAIN capacity : Cardinality(Slots!HoldersOf(d)) <= capacity[d]
    BY <2>1, FS_EmptySet
  <2> QED
    BY <2>2 DEF Init, Slots!Init, SlotsHeld
<1>5. ErrorsKept /\ ErrorsReported
  BY DEF Init, ErrorsKept, ErrorsReported
<1> QED
  BY <1>1, <1>2, <1>3, <1>4, <1>5 DEF CallsInv, Init

\* The invariant of calls, threads, slots and errors is inductive.
LEMMA CallsStep == CallsInv /\ [Next]_vars => CallsInv'
<1> SUFFICES ASSUME CallsInv, [Next]_vars PROVE CallsInv'
  OBVIOUS
<1>0. DOMAIN processed = Calls /\ TypeOK /\ ThreadsOfCalls /\ RangesInCalls
      /\ SlotsHeld /\ ErrorsKept /\ ErrorsReported
  BY DEF CallsInv
<1>1. DOMAIN processed' = Calls /\ TypeOK'
  BY <1>0, TypeStep
<1>2. ThreadsOfCalls'
  BY <1>0, ThreadsOfCallsStep
<1>3. RangesInCalls'
  BY <1>0, RangesInCallsStep
<1>4. SlotsHeld'
  BY <1>0, SlotsHeldStep
<1>5. ErrorsKept' /\ ErrorsReported'
  BY <1>0, ErrorsStep
<1> QED
  BY <1>1, <1>2, <1>3, <1>4, <1>5 DEF CallsInv

\* It holds in every state of every behaviour.
LEMMA CallsInvariant == Spec => []CallsInv
  BY CallsInit, CallsStep, PTL DEF Spec

-----------------------------------------------------------------------------
\* The items of a batch, if no empty range is handed out behind the last task:
\* those of its tasks, all of them below the first task not handed out.
LEMMA ItemsOfBatch ==
  ASSUME TypeOK, RangesInCalls, ~EmptyRangeAtEnd,
         NEW b \in [call : Calls, begin : Nat, end : Nat], RangeOK(b)
  PROVE  /\ Items(b) = Bound(b.call, b.begin)..Bound(b.call, b.end) - 1
         /\ Bound(b.call, b.begin) \in Nat /\ Bound(b.call, b.end) \in Nat
         /\ Bound(b.call, b.begin) <= Bound(b.call, b.end)
         /\ Bound(b.call, b.end) <= count[b.call]
         /\ Bound(b.call, next[b.call]) \in Nat
         /\ b.begin = b.end => Items(b) = {}
         /\ \A i \in Items(b) : i < Bound(b.call, next[b.call])
<1>1. TaskCount(b.call) \in Nat \ {0} /\ next[b.call] \in 0..TaskCount(b.call)
  BY TaskCountType DEF RangesInCalls
<1>2. /\ b.begin \in 0..TaskCount(b.call) - 1
      /\ b.end \in 0..TaskCount(b.call)
      /\ b.begin <= b.end
  BY <1>1 DEF RangeOK
<1>3. Items(b) = Bound(b.call, b.begin)..Bound(b.call, b.end) - 1
  BY <1>1, <1>2, ItemsOfRange DEF Items
<1>4. /\ Bound(b.call, b.begin) \in Nat /\ Bound(b.call, b.end) \in Nat
      /\ Bound(b.call, b.begin) <= Bound(b.call, b.end)
      /\ Bound(b.call, b.end) <= count[b.call]
      /\ Bound(b.call, next[b.call]) \in Nat
  BY <1>1, <1>2, BoundsOrdered
<1>5. b.begin = b.end => Items(b) = {}
  BY <1>3, <1>4
<1>6. b.begin < b.end => Bound(b.call, b.end) <= Bound(b.call, next[b.call])
  BY <1>1, <1>2, BoundsOrdered DEF RangeOK
<1>7. \A i \in Items(b) : i < Bound(b.call, next[b.call])
  BY <1>2, <1>3, <1>4, <1>5, <1>6
<1> QED
  BY <1>3, <1>4, <1>5, <1>7

\* Ranges of tasks that do not meet have no item in common.
LEMMA ApartItems ==
  ASSUME TypeOK, RangesInCalls, ~EmptyRangeAtEnd,
         NEW a \in [call : Calls, begin : Nat, end : Nat], RangeOK(a),
         NEW b \in [call : Calls, begin : Nat, end : Nat], RangeOK(b),
         a.call = b.call, Apart(a, b)
  PROVE  Items(a) \cap Items(b) = {}
<1> DEFINE c == a.call
<1>1. /\ Items(a) = Bound(c, a.begin)..Bound(c, a.end) - 1
      /\ Items(b) = Bound(c, b.begin)..Bound(c, b.end) - 1
      /\ Bound(c, a.begin) \in Nat /\ Bound(c, a.end) \in Nat
      /\ Bound(c, b.begin) \in Nat /\ Bound(c, b.end) \in Nat
      /\ a.begin = a.end => Items(a) = {}
      /\ b.begin = b.end => Items(b) = {}
  BY ItemsOfBatch
<1>2. /\ TaskCount(c) \in Nat
      /\ a.begin \in 0..TaskCount(c) /\ a.end \in 0..TaskCount(c)
      /\ b.begin \in 0..TaskCount(c) /\ b.end \in 0..TaskCount(c)
  BY TaskCountType DEF RangeOK
<1> HIDE DEF c
<1>c. c \in Calls
  BY DEF c
<1>3. CASE a.end <= b.begin
  <2>1. Bound(c, a.end) <= Bound(c, b.begin)
    BY <1>2, <1>3, <1>c, BoundsOrdered
  <2> QED
    BY <1>1, <2>1
<1>4. CASE b.end <= a.begin
  <2>1. Bound(c, b.end) <= Bound(c, a.begin)
    BY <1>2, <1>4, <1>c, BoundsOrdered
  <2> QED
    BY <1>1, <2>1
<1>5. CASE a.begin = a.end \/ b.begin = b.end
  BY <1>1, <1>5
<1> QED
  BY <1>3, <1>4, <1>5 DEF Apart

\* A running thread's batch is a range of its call's tasks.
LEMMA RunningBatch ==
  ASSUME CallsInv, NEW t \in Threads, Running(t)
  PROVE  /\ batch[t] \in [call : Calls, begin : Nat, end : Nat]
         /\ RangeOK(batch[t])
<1>1. at[t] # "idle"
  BY DEF Running
<1>2. Working(t)
  BY <1>1 DEF CallsInv, ThreadsOfCalls
<1> QED
  BY <1>1, <1>2, WorkingBatch DEF CallsInv, RangesInCalls

\* Running batches have different items.
LEMMA RunningItemsApart ==
  ASSUME CallsInv, RangesApart, ~EmptyRangeAtEnd,
         NEW t \in Threads, NEW u \in Threads, t # u,
         Running(t), Running(u), batch[t].call = batch[u].call
  PROVE  Items(batch[t]) \cap Items(batch[u]) = {}
<1>1. Apart(batch[t], batch[u])
  BY DEF RangesApart
<1> QED
  BY <1>1, RunningBatch, ApartItems DEF CallsInv

(***************************************************************************)
(* How the set of running batches changes: a thread starts one, finishes   *)
(* processing one, or neither.                                             *)
(***************************************************************************)
Starts(t, c, begin, end) ==
  /\ at[t] = "idle"
  /\ StartBatch(t, c, begin, end)
  /\ \/ /\ begin = next[c] /\ begin < end /\ end <= TaskCount(c)
        /\ next' = [next EXCEPT ![c] = end]
     \/ /\ begin = end /\ begin < TaskCount(c)
        /\ UNCHANGED next
  /\ UNCHANGED <<processed, failures>>

SameRunning ==
  /\ \A t \in Threads : /\ at'[t] \in {"attempt", "sme", "cpu"} <=> Running(t)
                        /\ Running(t) => batch'[t] = batch[t]
  /\ UNCHANGED <<next, processed, failures>>

\* Every step is of one of these kinds.
LEMMA RunningCases ==
  ASSUME CallsInv, ~EmptyRangeAtEnd, [Next]_vars
  PROVE  \/ SameRunning
         \/ \E t \in Threads, e \in Errors \cup {OK} : Process(t, e)
         \/ \E t \in Threads, c \in Calls : \E begin, end \in 0..TaskCount(c) :
              Starts(t, c, begin, end)
<1>0. TypeOK /\ RangesInCalls /\ \A c \in Calls : TaskCount(c) \in Nat \ {0}
  BY TaskCountType DEF CallsInv
<1>1. ASSUME NEW t \in Threads, (\E d \in DOMAIN capacity : Accepted(t, d)) \/ Rejected(t)
      PROVE  SameRunning
  BY <1>0, <1>1 DEF Accepted, Rejected, callVars, SameRunning, Running, TypeOK
<1>2. ASSUME NEW t \in Threads, Report(t) PROVE SameRunning
  <2>1. /\ at'[t] = "idle" /\ at[t] = "report"
        /\ \A u \in Threads : u # t => batch'[u] = batch[u] /\ at'[u] = at[u]
    BY <1>0, <1>2, EndEffect DEF Report
  <2> QED
    BY <1>2, <2>1 DEF Report, SameRunning, Running
<1>3. ASSUME NEW c \in Calls, CallParallel(c) \/ ReturnParallel(c) PROVE SameRunning
  BY <1>3 DEF CallParallel, ReturnParallel, SameRunning, Running
<1>4. ASSUME NEW c \in Calls, ReturnSerial(c) PROVE SameRunning
  <2>1. /\ at'[c] = "idle" /\ at[c] = "report"
        /\ \A u \in Threads : u # c => batch'[u] = batch[u] /\ at'[u] = at[u]
    BY <1>0, <1>4, EndEffect, CallsAreThreads DEF ReturnSerial
  <2> QED
    BY <1>4, <2>1 DEF ReturnSerial, SameRunning, Running
<1>5. ASSUME NEW c \in Calls, CallSerial(c) PROVE Starts(c, c, 0, TaskCount(c))
  <2>1. next[c] = 0
    BY <1>0, <1>5 DEF CallSerial, RangesInCalls
  <2> QED
    BY <1>0, <1>5, <2>1 DEF CallSerial, Starts
<1>6. ASSUME NEW c \in Calls, NEW t \in Threads, NEW end \in 1..TaskCount(c),
             HandOut(c, t, end)
      PROVE  Starts(t, c, next[c], end) /\ next[c] \in 0..TaskCount(c)
  BY <1>0, <1>6 DEF HandOut, Starts, RangesInCalls
<1>7. ASSUME NEW c \in Calls, NEW t \in Threads, NEW begin \in 0..TaskCount(c),
             HandOutEmpty(c, t, begin)
      PROVE  Starts(t, c, begin, begin)
  BY <1>0, <1>7 DEF HandOutEmpty, Starts
<1>8. CASE UNCHANGED vars
  BY <1>8 DEF vars, callVars, SameRunning, Running
<1> QED
  BY <1>0, <1>1, <1>2, <1>3, <1>4, <1>5, <1>6, <1>7, <1>8, CallsAreThreads
     DEF Next, ThreadStep, CallStep

\* What starting a batch does to the running batches.
LEMMA StartsEffect ==
  ASSUME CallsInv, ~EmptyRangeAtEnd, [Next]_vars,
         NEW t \in Threads, NEW c \in Calls,
         NEW begin \in 0..TaskCount(c), NEW end \in 0..TaskCount(c),
         Starts(t, c, begin, end)
  PROVE  /\ batch'[t] = [call |-> c, begin |-> begin, end |-> end]
         /\ batch'[t].call = c
         /\ ~Running(t) /\ Running(t)'
         /\ \A u \in Threads : u # t => batch'[u] = batch[u] /\ (Running(u)' <=> Running(u))
         /\ begin \in Nat /\ end \in Nat /\ begin <= end
         /\ Items(batch'[t]) = Bound(c, begin)..Bound(c, end) - 1
         /\ Bound(c, begin) \in Nat /\ Bound(c, end) \in Nat
         /\ begin = end => Bound(c, begin) = Bound(c, end)
         /\ \A x \in Calls : next'[x] = IF x = c /\ begin < end THEN end ELSE next[x]
<1>0. TypeOK /\ TaskCount(c) \in Nat \ {0} /\ next[c] \in 0..TaskCount(c)
  BY TaskCountType DEF CallsInv, RangesInCalls
<1>1. /\ batch'[t] = [call |-> c, begin |-> begin, end |-> end]
      /\ at'[t] \in {"attempt", "cpu"}
      /\ \A u \in Threads : u # t => batch'[u] = batch[u] /\ at'[u] = at[u]
  BY <1>0, StartEffect DEF Starts
<1>2. /\ ~Running(t) /\ Running(t)'
      /\ \A u \in Threads : u # t => (Running(u)' <=> Running(u))
  BY <1>1 DEF Running, Starts
<1>3. begin \in Nat /\ end \in Nat /\ begin <= end /\ begin < TaskCount(c)
  BY <1>0 DEF Starts
<1>4. \A x \in Calls : next'[x] = IF x = c /\ begin < end THEN end ELSE next[x]
  BY <1>0, <1>3 DEF Starts, TypeOK
<1>5. /\ Bound(c, begin) \in Nat /\ Bound(c, end) \in Nat
      /\ begin = end => Bound(c, begin) = Bound(c, end)
  BY <1>3, <1>0, BoundsOrdered
<1>6. Items(batch'[t]) = Bound(c, begin)..Bound(c, end) - 1
  <2> DEFINE b == [call |-> c, begin |-> begin, end |-> end]
  <2>1. /\ b \in [call : Calls, begin : Nat, end : Nat]
        /\ b.call = c /\ b.begin = begin /\ b.end = end
    BY <1>3
  <2> HIDE DEF b
  <2>2. Begin(b) = Bound(c, begin) /\ End(b) = Bound(c, end)
    BY <1>0, <1>3, <2>1, ItemsOfRange
  <2>3. Items(b) = Bound(c, begin)..Bound(c, end) - 1
    BY <2>2 DEF Items
  <2> QED
    BY <1>1, <2>3 DEF b
<1> QED
  BY <1>1, <1>2, <1>3, <1>4, <1>5, <1>6

\* What processing a batch does to the running batches.
LEMMA ProcessRunning ==
  ASSUME CallsInv, NEW t \in Threads, NEW e, Process(t, e)
  PROVE  /\ Running(t) /\ ~Running(t)'
         /\ \A u \in Threads : u # t => (Running(u)' <=> Running(u))
         /\ UNCHANGED <<batch, next>>
         /\ \A c \in Calls :
              failures'[c] = IF c = batch[t].call /\ e # OK THEN failures[c] \cup {e}
                                                            ELSE failures[c]
<1>1. TypeOK
  BY DEF CallsInv
<1>2. UNCHANGED <<batch, next>> /\ at[t] \in {"sme", "cpu"}
  BY DEF Process, callVars
<1>3. at'[t] = "report" /\ \A u \in Threads : u # t => at'[u] = at[u]
  BY <1>1 DEF Process, TypeOK
<1>4. \A c \in Calls :
        failures'[c] = IF c = batch[t].call /\ e # OK THEN failures[c] \cup {e}
                                                      ELSE failures[c]
  BY <1>1 DEF Process, TypeOK
<1> QED
  BY <1>2, <1>3, <1>4 DEF Running

\* The ranges of running batches stay apart: a new one starts where the others
\* have ended.
LEMMA RangesApartStep ==
  ASSUME CallsInv, RangesApart, ~EmptyRangeAtEnd, [Next]_vars
  PROVE  RangesApart'
<1> SUFFICES ASSUME NEW u \in Threads, NEW v \in Threads,
                    u # v, Running(u)', Running(v)', batch'[u].call = batch'[v].call
             PROVE  Apart(batch'[u], batch'[v])
  BY DEF RangesApart, Apart
<1>1. CASE SameRunning
  BY <1>1 DEF SameRunning, RangesApart, Running
<1>2. ASSUME NEW t \in Threads, NEW e, Process(t, e)
      PROVE  Apart(batch'[u], batch'[v])
  BY <1>2, ProcessRunning DEF RangesApart
<1>3. ASSUME NEW t \in Threads, NEW c \in Calls,
             NEW begin \in 0..TaskCount(c), NEW end \in 0..TaskCount(c),
             Starts(t, c, begin, end)
      PROVE  Apart(batch'[u], batch'[v])
  <2>1. /\ batch'[t] = [call |-> c, begin |-> begin, end |-> end]
        /\ \A w \in Threads : w # t => batch'[w] = batch[w] /\ (Running(w)' <=> Running(w))
        /\ begin < end => begin = next[c]
    BY <1>3, StartsEffect DEF Starts
  <2>2. ASSUME NEW w \in Threads, w # t, Running(w)', batch'[w].call = c
        PROVE  Apart(batch'[t], batch'[w]) /\ Apart(batch'[w], batch'[t])
    <3>1. /\ batch'[w] = batch[w]
          /\ batch[w] \in [call : Calls, begin : Nat, end : Nat]
          /\ RangeOK(batch[w])
      BY <2>1, <2>2, RunningBatch
    <3>2. CASE begin < end /\ batch[w].begin < batch[w].end
      BY <2>1, <2>2, <3>1, <3>2 DEF RangeOK, Apart
    <3>3. CASE ~(begin < end) \/ batch[w].begin >= batch[w].end
      <4>1. begin <= end /\ begin \in Nat /\ end \in Nat
        BY <1>3, StartsEffect
      <4> QED
        BY <2>1, <3>1, <3>3, <4>1 DEF RangeOK, Apart
    <3> QED
      BY <3>1, <3>2, <3>3
  <2>3. CASE u = t \/ v = t
    BY <2>1, <2>2, <2>3
  <2>4. CASE u # t /\ v # t
    BY <2>1, <2>4 DEF RangesApart
  <2> QED
    BY <2>3, <2>4
<1> QED
  BY <1>1, <1>2, <1>3, RunningCases

\* Every item is in one place: not handed out, in a running batch, processed, or
\* lost with a batch that failed.
LEMMA ItemsAccountedStep ==
  ASSUME CallsInv, RangesApart, ItemsAccounted, ~EmptyRangeAtEnd, [Next]_vars
  PROVE  ItemsAccounted'
<1>k. /\ UNCHANGED <<count, min_batch_size>>
      /\ \A c, k : Bound(c, k)' = Bound(c, k)
      /\ \A b : Items(b)' = Items(b)
  BY ParametersKept, RangesKept
<1>t. /\ TypeOK /\ ThreadsOfCalls /\ RangesInCalls /\ DOMAIN processed = Calls
      /\ \A x \in Calls : failures[x] \subseteq Errors
  BY DEF CallsInv, TypeOK
<1>p. \A c : Bound(c, next[c])' = Bound(c, next'[c])
  BY <1>k DEF Bound, TaskCount
<1>i. \A t : Items(batch[t])' = Items(batch'[t])
  BY <1>k DEF Items, Begin, End, TaskCount
<1> DEFINE After(c, i) ==
             \E t \in Threads :
               Running(t)' /\ batch'[t].call = c /\ i \in Items(batch'[t])
<1> SUFFICES ASSUME NEW c \in Calls, NEW i \in 0..count[c] - 1
             PROVE  /\ processed'[c][i] \in {0, 1}
                    /\ processed'[c][i] = 1 => i < Bound(c, next'[c]) /\ ~After(c, i)
                    /\ failures'[c] = {} /\ i < Bound(c, next'[c]) =>
                         processed'[c][i] = 1 \/ After(c, i)
  <2>1. \A c, i : InProgress(c, i)' <=> After(c, i)
    BY <1>i DEF InProgress
  <2> QED
    BY <1>k, <1>p, <2>1 DEF ItemsAccounted
<1>a. /\ processed[c][i] \in {0, 1}
      /\ processed[c][i] = 1 => i < Bound(c, next[c]) /\ ~InProgress(c, i)
      /\ failures[c] = {} /\ i < Bound(c, next[c]) =>
           processed[c][i] = 1 \/ InProgress(c, i)
  BY DEF ItemsAccounted
<1> DEFINE Goal == /\ processed'[c][i] \in {0, 1}
                   /\ processed'[c][i] = 1 => i < Bound(c, next'[c]) /\ ~After(c, i)
                   /\ failures'[c] = {} /\ i < Bound(c, next'[c]) =>
                        processed'[c][i] = 1 \/ After(c, i)
<1>1. CASE SameRunning
  <2>1. After(c, i) <=> InProgress(c, i)
    BY <1>1 DEF SameRunning, InProgress, Running
  <2>2. UNCHANGED <<next, processed, failures>>
    BY <1>1 DEF SameRunning
  <2> QED
    BY <1>a, <2>1, <2>2
<1>2. ASSUME NEW t \in Threads, NEW e \in Errors \cup {OK}, Process(t, e) PROVE Goal
  <2>1. /\ Running(t) /\ ~Running(t)'
        /\ \A u \in Threads : u # t => (Running(u)' <=> Running(u))
        /\ UNCHANGED <<batch, next>>
        /\ failures'[c] = IF c = batch[t].call /\ e # OK THEN failures[c] \cup {e}
                                                         ELSE failures[c]
    BY <1>2, ProcessRunning
  <2>2. processed'[c][i] = IF e = OK /\ c = batch[t].call /\ i \in Items(batch[t])
                             THEN processed[c][i] + 1 ELSE processed[c][i]
    BY <1>2, <1>t, ProcessEffect
  <2>3. CASE c = batch[t].call /\ i \in Items(batch[t])
    <3>1. InProgress(c, i)
      BY <2>1, <2>3 DEF InProgress
    <3>2. processed[c][i] = 0
      BY <1>a, <3>1
    <3>3. ~After(c, i)
      <4>1. ASSUME NEW u \in Threads, Running(u)', batch'[u].call = c,
                   i \in Items(batch'[u])
            PROVE  FALSE
        <5>1. u # t /\ Running(u) /\ batch[u].call = c /\ i \in Items(batch[u])
          BY <2>1, <4>1
        <5> QED
          BY <2>1, <2>3, <5>1, RunningItemsApart
      <4> QED
        BY <4>1
    <3>4. i < Bound(c, next[c])
      BY <1>t, <2>1, <2>3, RunningBatch, ItemsOfBatch
    <3>5. e # OK => failures'[c] # {}
      BY <2>1, <2>3
    <3> QED
      BY <2>1, <2>2, <2>3, <3>2, <3>3, <3>4, <3>5
  <2>4. CASE ~(c = batch[t].call /\ i \in Items(batch[t]))
    <3>1. After(c, i) <=> InProgress(c, i)
      BY <2>1, <2>4 DEF InProgress
    <3>2. processed'[c][i] = processed[c][i]
      BY <2>2, <2>4
    <3>3. failures'[c] = {} => failures[c] = {}
      BY <2>1
    <3> QED
      BY <1>a, <2>1, <3>1, <3>2, <3>3
  <2> QED
    BY <2>3, <2>4
<1>3. ASSUME NEW t \in Threads, NEW c0 \in Calls,
             NEW begin \in 0..TaskCount(c0), NEW end \in 0..TaskCount(c0),
             Starts(t, c0, begin, end)
      PROVE  Goal
  <2>1. /\ batch'[t].call = c0
        /\ ~Running(t) /\ Running(t)'
        /\ \A u \in Threads : u # t => batch'[u] = batch[u] /\ (Running(u)' <=> Running(u))
    BY <1>3, StartsEffect
  <2>a. /\ Items(batch'[t]) = Bound(c0, begin)..Bound(c0, end) - 1
        /\ Bound(c0, begin) \in Nat /\ Bound(c0, end) \in Nat
        /\ begin = end => Bound(c0, begin) = Bound(c0, end)
    BY <1>3, StartsEffect
  <2>c. begin \in Nat /\ end \in Nat /\ begin <= end
    BY <1>3, StartsEffect
  <2>b. \A x \in Calls : next'[x] = IF x = c0 /\ begin < end THEN end ELSE next[x]
    BY <1>3, StartsEffect, Zenon
  <2>2. UNCHANGED <<processed, failures>> /\ (begin < end => begin = next[c0])
    BY <1>3 DEF Starts
  <2>3. After(c, i) <=> InProgress(c, i) \/ (c = c0 /\ i \in Items(batch'[t]))
    BY <2>1 DEF InProgress
  <2>i. i \in Nat
    <3>1. count[c] \in Nat
      BY <1>t, TaskCountType
    <3> QED
      BY <3>1
  <2>4. CASE c = c0 /\ begin < end
    <3>1. Bound(c, next[c]) <= Bound(c, end) /\ next[c] = begin /\ next'[c] = end
      BY <1>t, <2>1, <2>a, <2>b, <2>c, <2>2, <2>4, BoundsOrdered
    <3>2. i \in Items(batch'[t]) <=> Bound(c, next[c]) <= i /\ i < Bound(c, end)
      BY <2>1, <2>a, <2>b, <2>c, <2>4, <2>i, <3>1
    <3> QED
      BY <1>a, <2>1, <2>a, <2>b, <2>c, <2>2, <2>3, <2>4, <2>i, <3>1, <3>2
  <2>5. CASE ~(c = c0 /\ begin < end)
    <3>1. c = c0 => i \notin Items(batch'[t])
      BY <2>1, <2>a, <2>b, <2>c, <2>5
    <3> QED
      BY <1>a, <2>1, <2>a, <2>b, <2>c, <2>2, <2>3, <2>5, <3>1
  <2> QED
    BY <2>4, <2>5
<1> QED
  BY <1>1, <1>2, <1>3, RunningCases

\* Nothing is handed out at first.
LEMMA ItemsInit == Init => RangesApart /\ ItemsAccounted
<1> SUFFICES ASSUME Init PROVE RangesApart /\ ItemsAccounted
  OBVIOUS
<1>1. \A t \in Threads : ~Running(t)
  BY DEF Init, Running
<1>2. ASSUME NEW c \in Calls
      PROVE  Bound(c, next[c]) = 0 /\ \A i \in 0..count[c] - 1 : processed[c][i] = 0
  <2>1. next[c] = 0
    BY DEF Init
  <2>2. TaskCount(c) \in Nat \ {0} /\ min_batch_size[c] \in Nat
    BY TypeInit, TaskCountType
  <2>3. Bound(c, 0) = 0
    BY <2>2 DEF Bound
  <2> QED
    BY <2>1, <2>3 DEF Init
<1>3. ASSUME NEW c \in Calls, NEW i \in 0..count[c] - 1
      PROVE  ~(i < Bound(c, next[c]))
  <2>1. count[c] \in Nat
    BY TypeInit, TaskCountType
  <2> QED
    BY <1>2, <2>1
<1> QED
  BY <1>1, <1>2, <1>3 DEF RangesApart, ItemsAccounted

(***************************************************************************)
(* With the items accounted for, the invariant is inductive as long as the *)
(* scheduler hands out no empty range behind the last task; the run        *)
(* batches_tail shows what happens if it does.                             *)
(***************************************************************************)
LEMMA ItemsInvariant ==
  ASSUME ~EmptyRangeAtEnd
  PROVE  Spec => []ItemsInv
<1>1. Init => ItemsInv
  BY CallsInit, ItemsInit DEF ItemsInv
<1>2. ItemsInv /\ [Next]_vars => ItemsInv'
  <2> SUFFICES ASSUME ItemsInv, [Next]_vars PROVE ItemsInv'
    OBVIOUS
  <2>1. CallsInv'
    BY CallsStep DEF ItemsInv
  <2>2. RangesApart'
    BY RangesApartStep DEF ItemsInv
  <2>3. ItemsAccounted'
    BY ItemsAccountedStep DEF ItemsInv
  <2> QED
    BY <2>1, <2>2, <2>3 DEF ItemsInv
<1> QED
  BY <1>1, <1>2, PTL DEF Spec

\* A running batch has the size parallel_batches promises.
LEMMA ShapeOfBatch ==
  ASSUME TypeOK, ~EmptyRangeAtEnd,
         NEW b \in [call : Calls, begin : Nat, end : Nat], RangeOK(b)
  PROVE  LET m == min_batch_size[b.call]  n == count[b.call]
             size == End(b) - Begin(b)
         IN  /\ b.begin = b.end => size = 0
             /\ b.begin < b.end => size >= (IF n < m THEN n ELSE m)
             /\ size % m # 0 => End(b) = n
<1> DEFINE m == min_batch_size[b.call]
           n == count[b.call]
           k == TaskCount(b.call)
<1>1. n \in Nat /\ m \in Nat \ {0} /\ k \in Nat \ {0}
  BY TaskCountType
<1>2. b.begin \in 0..k - 1 /\ b.end \in 0..k /\ b.begin <= b.end
  BY <1>1 DEF RangeOK
<1>3. /\ Begin(b) = b.begin * m
      /\ End(b) = IF b.end = k THEN n ELSE b.end * m
  BY DEF Begin, End
<1>4. /\ b.begin * m \in Nat
      /\ b.begin > 0 \/ n >= m => b.begin * m + m <= n
      /\ b.begin * m <= n
  BY <1>2, TasksInItems
<1>5. b.begin < b.end => b.end * m \in Nat /\ b.begin * m + m <= b.end * m
  BY <1>1, <1>2, TasksOrdered
<1>6. b.begin * m = 0 \/ b.begin > 0
  BY <1>1, <1>2
<1>7. b.end # k => (b.end * m - b.begin * m) % m = 0
  <2>1. b.end * m - b.begin * m = (b.end - b.begin) * m /\ b.end - b.begin \in Nat
    BY <1>1, <1>2
  <2>2. \A x \in Nat : (x * m) % m = 0
    BY <1>1
  <2> QED
    BY <2>1, <2>2
<1> HIDE DEF m, n, k
<1>8. b.begin = b.end => End(b) - Begin(b) = 0
  BY <1>1, <1>2, <1>3, <1>4
<1>9. b.begin < b.end => End(b) - Begin(b) >= (IF n < m THEN n ELSE m)
  BY <1>1, <1>2, <1>3, <1>4, <1>5, <1>6
<1>10. (End(b) - Begin(b)) % m # 0 => End(b) = n
  BY <1>3, <1>7
<1> QED
  BY <1>8, <1>9, <1>10 DEF m, n

(***************************************************************************)
(* Every batch that runs is a range of its call's items, of the size       *)
(* parallel_batches promises, and no other thread works on any of them.    *)
(***************************************************************************)
THEOREM BatchesAreWellFormed ==
  ASSUME ~EmptyRangeAtEnd
  PROVE  Spec => []BatchesWellFormed
<1>1. ItemsInv => BatchesWellFormed
  <2> SUFFICES ASSUME ItemsInv PROVE BatchesWellFormed
    OBVIOUS
  <2>0. CallsInv /\ TypeOK /\ RangesInCalls /\ RangesApart
    BY DEF ItemsInv, CallsInv
  <2>1. BatchesDisjoint
    <3>1. ASSUME NEW t \in Threads, Running(t)
          PROVE  /\ Begin(batch[t]) <= End(batch[t])
                 /\ End(batch[t]) <= count[batch[t].call]
      <4>1. batch[t] \in [call : Calls, begin : Nat, end : Nat] /\ RangeOK(batch[t])
        BY <2>0, <3>1, RunningBatch
      <4>2. TaskCount(batch[t].call) \in Nat
        BY <2>0, <4>1, TaskCountType
      <4>3. /\ batch[t].begin <= batch[t].end
            /\ batch[t].end <= TaskCount(batch[t].call)
            /\ batch[t].begin < TaskCount(batch[t].call)
        BY <4>1, <4>2 DEF RangeOK
      <4> QED
        BY <2>0, <4>1, <4>3, ItemsOfRange
    <3>2. ASSUME NEW t \in Threads, NEW u \in Threads, Running(t),
                 t # u, Running(u), batch[t].call = batch[u].call
          PROVE  Items(batch[t]) \cap Items(batch[u]) = {}
      BY <2>0, <3>2, RunningItemsApart
    <3> QED
      BY <3>1, <3>2 DEF BatchesDisjoint
  <2>2. BatchShape
    BY <2>0, RunningBatch, ShapeOfBatch DEF BatchShape
  <2> QED
    BY <2>0, <2>1, <2>2 DEF BatchesWellFormed
<1> QED
  BY <1>1, ItemsInvariant, PTL

(***************************************************************************)
(* No item of a call is processed twice, whatever the ranges, the order    *)
(* and the backends its batches run on.                                    *)
(***************************************************************************)
THEOREM ItemsProcessedAtMostOnce ==
  ASSUME ~EmptyRangeAtEnd
  PROVE  Spec => []ItemsAtMostOnce
<1>1. ItemsInv => ItemsAtMostOnce
  <2> SUFFICES ASSUME ItemsInv, NEW c \in Calls, NEW i \in DOMAIN processed[c]
               PROVE  processed[c][i] <= 1
    BY DEF ItemsAtMostOnce
  <2>1. i \in 0..count[c] - 1
    BY DEF ItemsInv, CallsInv, TypeOK
  <2>2. processed[c][i] \in {0, 1}
    BY <2>1 DEF ItemsInv, ItemsAccounted
  <2> QED
    BY <2>2
<1> QED
  BY <1>1, ItemsInvariant, PTL

(***************************************************************************)
(* A call that returns KLEIDICV_OK has processed every item.               *)
(***************************************************************************)
THEOREM OkIsComplete ==
  ASSUME ~EmptyRangeAtEnd
  PROVE  Spec => []OkMeansComplete
<1>1. ItemsInv => OkMeansComplete
  <2> SUFFICES ASSUME ItemsInv, NEW c \in Calls, state[c] = "returned", result[c] = OK,
                      NEW i \in DOMAIN processed[c]
               PROVE  processed[c][i] = 1
    BY DEF OkMeansComplete
  <2>0. TypeOK /\ ThreadsOfCalls /\ RangesInCalls /\ ErrorsReported
    BY DEF ItemsInv, CallsInv
  <2>1. i \in 0..count[c] - 1 /\ count[c] \in Nat
    BY <2>0, TaskCountType DEF TypeOK
  <2>2. failures[c] = {}
    BY <2>0, ParametersAssumption DEF ErrorsReported, TypeOK
  <2>3. i < Bound(c, next[c])
    BY <2>0, <2>1 DEF RangesInCalls, Bound
  <2>4. ~InProgress(c, i)
    BY <2>0, ParametersAssumption DEF InProgress, ThreadsOfCalls, Working
  <2> QED
    BY <2>1, <2>2, <2>3, <2>4 DEF ItemsInv, ItemsAccounted
<1> QED
  BY <1>1, ItemsInvariant, PTL

(***************************************************************************)
(* A call fails exactly when one of its batches failed, with an error one  *)
(* of them returned; also if empty ranges are handed out at the end.       *)
(***************************************************************************)
THEOREM ErrorsAreReported == Spec => []ErrorsReported
<1>1. CallsInv => ErrorsReported
  BY DEF CallsInv
<1> QED
  BY <1>1, CallsInvariant, PTL

(***************************************************************************)
(* Batches of calls that have not returned hold the slots, at most as many *)
(* as a domain has, however many calls share them.                         *)
(***************************************************************************)
THEOREM SlotsBelongToBatches == Spec => []SlotsOfRunningBatches
<1>1. CallsInv => SlotsOfRunningBatches
  <2> SUFFICES ASSUME CallsInv PROVE SlotsOfRunningBatches
    OBVIOUS
  <2>0. TypeOK /\ ThreadsOfCalls /\ SlotsHeld
    BY DEF CallsInv
  <2>1. \A t \in Threads : held[t] # NoDomain <=> at[t] = "sme"
    BY <2>0 DEF SlotsHeld
  <2>2. \A t \in Threads : at[t] = "sme" => state[batch[t].call] \in {"parallel", "serial"}
    BY <2>0 DEF ThreadsOfCalls, Working
  <2>3. ASSUME NEW d \in DOMAIN capacity
        PROVE  Cardinality({t \in Threads : at[t] = "sme" /\ held[t] = d}) <= capacity[d]
    <3>1. {t \in Threads : at[t] = "sme" /\ held[t] = d} = Slots!HoldersOf(d)
      BY <2>0, <2>1, <2>3, ParametersAssumption DEF TypeOK, Slots!HoldersOf
    <3> QED
      BY <2>0, <3>1 DEF SlotsHeld
  <2> QED
    BY <2>1, <2>2, <2>3 DEF SlotsOfRunningBatches
<1> QED
  BY <1>1, CallsInvariant, PTL

(***************************************************************************)
(* What batches do to the slots is what SmeSlots allows: the scheduler     *)
(* relies on nothing of the limiter but its specification.                 *)
(***************************************************************************)
THEOREM BatchesUseSlots == Spec => Slots!Spec
<1>1. Init => Slots!Init
  BY DEF Init
<1>2. [Next]_vars => [Slots!Next]_(Slots!vars)
  <2> SUFFICES ASSUME [Next]_vars PROVE [Slots!Next]_(Slots!vars)
    OBVIOUS
  <2>1. ASSUME NEW t \in Threads, ThreadStep(t) PROVE [Slots!Next]_(Slots!vars)
    BY <2>1 DEF ThreadStep, Accepted, Rejected, Process, Report, Slots!Next, Slots!vars
  <2>2. ASSUME NEW c \in Calls, CallStep(c) PROVE UNCHANGED <<capacity, held>>
    BY <2>2 DEF CallStep, CallParallel, CallSerial, HandOut, ReturnParallel, ReturnSerial
  <2>3. ASSUME NEW c \in Calls, NEW t \in Threads, NEW begin, HandOutEmpty(c, t, begin)
        PROVE  UNCHANGED <<capacity, held>>
    BY <2>3 DEF HandOutEmpty
  <2>4. CASE UNCHANGED vars
    BY <2>4 DEF vars, Slots!vars
  <2> QED
    BY <2>1, <2>2, <2>3, <2>4 DEF Next, Slots!vars
<1> QED
  BY <1>1, <1>2, PTL DEF Spec, Slots!Spec
=============================================================================
