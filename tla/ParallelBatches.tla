--------------------------- MODULE ParallelBatches ---------------------------
(***************************************************************************)
(* How a kleidicv_thread_* call runs (kleidicv_thread/src/                 *)
(* kleidicv_thread.cpp): parallel_batches turns the items of a call (rows, *)
(* column groups, ...) into tasks, the scheduler the application supplies  *)
(* hands ranges of tasks to threads, kleidicv_thread_batch_callback turns  *)
(* a range of tasks back into a range of items, and each such batch runs   *)
(* either under an SME slot or on the CPU backend.  The scheduler is the   *)
(* OpenCV adapter's "parallel" (adapters/opencv/kleidicv_hal.cpp) over     *)
(* cv::parallel_for_, whose pool the calling thread takes part in.         *)
(*                                                                         *)
(* Several application threads may be inside threaded calls at once; they  *)
(* share the workers and the process-wide SME slots.  The slots are those  *)
(* of SmeSlots, which SmeThreadLimiter implements; an attempt may always   *)
(* be rejected (CPU not allowed, no slot, stale counter).                  *)
(***************************************************************************)
EXTENDS Integers, FiniteSets

CONSTANTS
  Calls,        \* application threads, each inside at most one threaded call
  Workers,      \* threads of the scheduler's pool
  Counts,       \* item counts a call may have
  BatchSizes,   \* values of min_batch_size
  Capacities,   \* slots of each SMCU domain, for the topologies considered
  IntMax,       \* std::numeric_limits<int>::max()
  MaxEmptyRanges,   \* bound: empty ranges handed out per call
  EmptyRangeAtEnd,  \* TRUE if they may also be task_count .. task_count
  OK,           \* KLEIDICV_OK
  Errors,       \* the other values of kleidicv_error_t a batch may return
  NoDomain, NoCall

Threads == Calls \cup Workers

ASSUME ParametersAssumption ==
  /\ IsFiniteSet(Threads)
  /\ Counts \subseteq Nat
  /\ BatchSizes \subseteq Nat \ {0}
  /\ \A f \in Capacities :
       NoDomain \notin DOMAIN f /\ \A d \in DOMAIN f : f[d] \in Nat \ {0}
  /\ IntMax \in Nat \ {0}
  /\ MaxEmptyRanges \in Nat
  /\ EmptyRangeAtEnd \in BOOLEAN
  /\ OK \notin Errors
  /\ NoCall \notin Calls

VARIABLES
  capacity, held,     \* the SME slots (SmeSlots)
  hybrid,             \* kParallelBatchesDispatch is parallel_batches_hybrid
  count,              \* item count of each call
  min_batch_size,
  state,              \* "ready", "parallel", "serial" or "returned"
  next,               \* first task of each call not handed out yet
  empty_ranges,       \* empty ranges of each call handed out so far
  shared_result,      \* of each call: the adapter's atomic error code
  result,             \* what each call returned
  batch,              \* the range of tasks each thread works on
  at,                 \* where in the batch callback each thread is
  error,              \* what each thread's batch returned
  processed,          \* how often each item of each call has been processed
  failures            \* the errors the batches of each call returned

callVars == <<count, min_batch_size, state, next, empty_ranges, shared_result, result>>
vars == <<capacity, held, hybrid, callVars, batch, at, error, processed, failures>>

Slots == INSTANCE SmeSlots
-----------------------------------------------------------------------------

\* Mutant: the number of tasks is rounded up.
TaskCount_RoundUp(c) ==
  LET n == (count[c] + min_batch_size[c] - 1) \div min_batch_size[c]
  IN  IF n > 1 THEN n ELSE 1

\* std::max(size_t{1}, count / min_batch_size)
TaskCount(c) ==
  LET n == count[c] \div min_batch_size[c] IN IF n > 1 THEN n ELSE 1

\* Mutants: the last batch is not stretched to the end of the data, or every
\* batch takes one item too many.
End_NoTail(b) == b.end * min_batch_size[b.call]
End_OneMore(b) == IF b.end = TaskCount(b.call) THEN count[b.call]
                                               ELSE b.end * min_batch_size[b.call] + 1

\* kleidicv_thread_batch_callback: the items of tasks b.begin .. b.end - 1.
Begin(b) == b.begin * min_batch_size[b.call]
End(b) == IF b.end = TaskCount(b.call) THEN count[b.call]
                                       ELSE b.end * min_batch_size[b.call]

Items(b) == Begin(b)..End(b) - 1

NoBatch == [call |-> NoCall, begin |-> 0, end |-> 0]

Busy(c) == {t \in Threads : batch[t].call = c}

Init ==
  /\ capacity \in Capacities
  /\ Slots!Init
  /\ hybrid \in BOOLEAN
  /\ count \in [Calls -> Counts]
  /\ min_batch_size \in [Calls -> BatchSizes]
  /\ state = [c \in Calls |-> "ready"]
  /\ next = [c \in Calls |-> 0]
  /\ empty_ranges = [c \in Calls |-> 0]
  /\ shared_result = [c \in Calls |-> OK]
  /\ result = [c \in Calls |-> OK]
  /\ batch = [t \in Threads |-> NoBatch]
  /\ at = [t \in Threads |-> "idle"]
  /\ error = [t \in Threads |-> OK]
  /\ processed = [c \in Calls |-> [i \in 0..count[c] - 1 |-> 0]]
  /\ failures = [c \in Calls |-> {}]

\* Thread t starts kleidicv_thread_batch_callback(begin, end) for call c.
StartBatch(t, c, begin, end) ==
  /\ batch' = [batch EXCEPT ![t] = [call |-> c, begin |-> begin, end |-> end]]
  /\ at' = [at EXCEPT ![t] = IF hybrid THEN "attempt" ELSE "cpu"]

\* parallel_batches calls the scheduler, which goes parallel ...
CallParallel(c) ==
  /\ state[c] = "ready"
  /\ at[c] = "idle"
  /\ TaskCount(c) <= IntMax
  /\ state' = [state EXCEPT ![c] = "parallel"]
  /\ UNCHANGED <<capacity, held, hybrid, count, min_batch_size, next, empty_ranges,
                 shared_result, result, batch, at, error, processed, failures>>

\* ... or runs the only batch itself when an int cannot hold the task count.
CallSerial(c) ==
  /\ state[c] = "ready"
  /\ at[c] = "idle"
  /\ TaskCount(c) > IntMax
  /\ state' = [state EXCEPT ![c] = "serial"]
  /\ next' = [next EXCEPT ![c] = TaskCount(c)]
  /\ StartBatch(c, c, 0, TaskCount(c))
  /\ UNCHANGED <<capacity, held, hybrid, count, min_batch_size, empty_ranges,
                 shared_result, result, error, processed, failures>>

\* cv::parallel_for_ (external) gives an idle thread the next stripe.  Only the
\* pool's workers and the calling thread run the call's stripes.
HandOut(c, t, end) ==
  /\ state[c] = "parallel"
  /\ t \in Workers \cup {c}
  /\ at[t] = "idle"
  /\ next[c] < end
  /\ next' = [next EXCEPT ![c] = end]
  /\ StartBatch(t, c, next[c], end)
  /\ UNCHANGED <<capacity, held, hybrid, count, min_batch_size, state, empty_ranges,
                 shared_result, result, error, processed, failures>>

\* An empty range, which the contract of kleidicv_thread_callback allows.
HandOutEmpty(c, t, begin) ==
  /\ state[c] = "parallel"
  /\ t \in Workers \cup {c}
  /\ at[t] = "idle"
  /\ begin = TaskCount(c) => EmptyRangeAtEnd
  /\ empty_ranges[c] < MaxEmptyRanges
  /\ empty_ranges' = [empty_ranges EXCEPT ![c] = @ + 1]
  /\ StartBatch(t, c, begin, begin)
  /\ UNCHANGED <<capacity, held, hybrid, count, min_batch_size, state, next,
                 shared_result, result, error, processed, failures>>

\* limiter->try_to_run takes a slot and starts the SME callback ...
Accepted(t, d) ==
  /\ at[t] = "attempt"
  /\ Slots!Acquire(t, d)
  /\ at' = [at EXCEPT ![t] = "sme"]
  /\ UNCHANGED <<hybrid, callVars, batch, error, processed, failures>>

\* Mutant: a batch that gets no slot tries again.
Rejected_Retry(t) ==
  /\ at[t] = "attempt"
  /\ UNCHANGED vars

\* ... or returns not accepted, and the CPU callback runs instead.
Rejected(t) ==
  /\ at[t] = "attempt"
  /\ at' = [at EXCEPT ![t] = "cpu"]
  /\ UNCHANGED <<capacity, held, hybrid, callVars, batch, error, processed, failures>>

\* Items are processed once more; an item outside the call's would show up in
\* the domain of the result.
Touch(f, items) ==
  [i \in DOMAIN f \cup items |->
     (IF i \in DOMAIN f THEN f[i] ELSE 0) + (IF i \in items THEN 1 ELSE 0)]

\* Mutant: the slot is not given back when the SME callback fails.
Process_LeakOnError(t, e) ==
  LET b == batch[t]  c == b.call
  IN  /\ at[t] \in {"sme", "cpu"}
      /\ IF at[t] = "sme" /\ e = OK THEN Slots!Release(t) ELSE UNCHANGED <<capacity, held>>
      /\ error' = [error EXCEPT ![t] = e]
      /\ processed' = IF e = OK THEN [processed EXCEPT ![c] = Touch(@, Items(b))]
                                ELSE processed
      /\ failures' = IF e = OK THEN failures ELSE [failures EXCEPT ![c] = @ \cup {e}]
      /\ at' = [at EXCEPT ![t] = "report"]
      /\ UNCHANGED <<hybrid, callVars, batch>>

\* The operation runs on the batch.  It fails, if it does, before it writes
\* (a refused argument or allocation).  An SME callback gives its slot back.
Process(t, e) ==
  LET b == batch[t]  c == b.call
  IN  /\ at[t] \in {"sme", "cpu"}
      /\ IF at[t] = "sme" THEN Slots!Release(t) ELSE UNCHANGED <<capacity, held>>
      /\ error' = [error EXCEPT ![t] = e]
      /\ processed' =
           IF e = OK
             THEN [processed EXCEPT ![c] = Touch(@, Items(b))]
             ELSE processed
      /\ failures' = IF e = OK THEN failures ELSE [failures EXCEPT ![c] = @ \cup {e}]
      /\ at' = [at EXCEPT ![t] = "report"]
      /\ UNCHANGED <<hybrid, callVars, batch>>

\* Mutant: a success overwrites the error of another batch.
Report_Always(t) ==
  LET c == batch[t].call
  IN  /\ at[t] = "report"
      /\ state[c] = "parallel"
      /\ shared_result' = [shared_result EXCEPT ![c] = error[t]]
      /\ at' = [at EXCEPT ![t] = "idle"]
      /\ batch' = [batch EXCEPT ![t] = NoBatch]
      /\ UNCHANGED <<capacity, held, hybrid, count, min_batch_size, state, next,
                     empty_ranges, result, error, processed, failures>>

\* invoke_callback stores the error, if any, and the stripe is done.
Report(t) ==
  LET c == batch[t].call
  IN  /\ at[t] = "report"
      /\ state[c] = "parallel"
      /\ shared_result' = IF error[t] = OK THEN shared_result
                                           ELSE [shared_result EXCEPT ![c] = error[t]]
      /\ at' = [at EXCEPT ![t] = "idle"]
      /\ batch' = [batch EXCEPT ![t] = NoBatch]
      /\ UNCHANGED <<capacity, held, hybrid, count, min_batch_size, state, next,
                     empty_ranges, result, error, processed, failures>>

\* cv::parallel_for_ has run everything, and parallel returns shared_result.
ReturnParallel(c) ==
  /\ state[c] = "parallel"
  /\ next[c] = TaskCount(c)
  /\ Busy(c) = {}
  /\ at[c] = "idle"
  /\ state' = [state EXCEPT ![c] = "returned"]
  /\ result' = [result EXCEPT ![c] = shared_result[c]]
  /\ UNCHANGED <<capacity, held, hybrid, count, min_batch_size, next, empty_ranges,
                 shared_result, batch, at, error, processed, failures>>

\* parallel returns what its only callback returned.
ReturnSerial(c) ==
  /\ state[c] = "serial"
  /\ at[c] = "report"
  /\ state' = [state EXCEPT ![c] = "returned"]
  /\ result' = [result EXCEPT ![c] = error[c]]
  /\ at' = [at EXCEPT ![c] = "idle"]
  /\ batch' = [batch EXCEPT ![c] = NoBatch]
  /\ UNCHANGED <<capacity, held, hybrid, count, min_batch_size, next, empty_ranges,
                 shared_result, error, processed, failures>>

ThreadStep(t) ==
  \/ \E d \in DOMAIN capacity : Accepted(t, d)
  \/ Rejected(t)
  \/ \E e \in Errors \cup {OK} : Process(t, e)
  \/ Report(t)

CallStep(c) ==
  \/ CallParallel(c)
  \/ CallSerial(c)
  \/ \E t \in Threads, end \in 1..TaskCount(c) : HandOut(c, t, end)
  \/ ReturnParallel(c)
  \/ ReturnSerial(c)

Next ==
  \/ \E t \in Threads : ThreadStep(t)
  \/ \E c \in Calls : CallStep(c)
  \/ \E c \in Calls, t \in Threads : \E begin \in 0..TaskCount(c) : HandOutEmpty(c, t, begin)

Spec == Init /\ [][Next]_vars

(***************************************************************************)
(* Threads that have work do it (batches terminate), a call that has been  *)
(* made goes on, and the scheduler hands out every task: responsibilities  *)
(* of doc/threading.md.                                                    *)
(***************************************************************************)
Fairness ==
  /\ \A t \in Threads : WF_vars(ThreadStep(t))
  /\ \A c \in Calls : WF_vars(CallStep(c))

FairSpec == Spec /\ Fairness
-----------------------------------------------------------------------------
TypeOK ==
  /\ capacity \in Capacities
  /\ held \in [Threads -> DOMAIN capacity \cup {NoDomain}]
  /\ hybrid \in BOOLEAN
  /\ count \in [Calls -> Counts]
  /\ min_batch_size \in [Calls -> BatchSizes]
  /\ state \in [Calls -> {"ready", "parallel", "serial", "returned"}]
  /\ next \in [Calls -> Nat]
  /\ empty_ranges \in [Calls -> 0..MaxEmptyRanges]
  /\ shared_result \in [Calls -> Errors \cup {OK}]
  /\ result \in [Calls -> Errors \cup {OK}]
  /\ batch \in [Threads -> [call : Calls \cup {NoCall}, begin : Nat, end : Nat]]
  /\ at \in [Threads -> {"idle", "attempt", "sme", "cpu", "report"}]
  /\ error \in [Threads -> Errors \cup {OK}]
  /\ \A c \in Calls : processed[c] \in [0..count[c] - 1 -> Nat]
  /\ failures \in [Calls -> SUBSET Errors]

(***************************************************************************)
(* However the scheduler cuts the task range, in whatever order and on     *)
(* whichever backend its ranges run, no item is processed twice; and when  *)
(* the call returns KLEIDICV_OK, no item has been left out.                *)
(***************************************************************************)
ItemsAtMostOnce ==
  \A c \in Calls : \A i \in DOMAIN processed[c] : processed[c][i] <= 1

OkMeansComplete ==
  \A c \in Calls :
    state[c] = "returned" /\ result[c] = OK =>
      \A i \in DOMAIN processed[c] : processed[c][i] = 1

(***************************************************************************)
(* Two threads never work on the same item of a call at the same time, and *)
(* no batch reaches outside the call's items: batches need no locking.     *)
(***************************************************************************)
Running(t) == at[t] \in {"attempt", "sme", "cpu"}

BatchesDisjoint ==
  \A t, u \in Threads :
    Running(t) =>
      /\ Begin(batch[t]) <= End(batch[t]) /\ End(batch[t]) <= count[batch[t].call]
      /\ t # u /\ Running(u) /\ batch[t].call = batch[u].call =>
           Items(batch[t]) \cap Items(batch[u]) = {}

(***************************************************************************)
(* The comment on parallel_batches: every batch is a multiple of           *)
(* min_batch_size, only the final one may be longer, and none is shorter   *)
(* unless the whole call is.  An empty range of tasks stays empty.         *)
(***************************************************************************)
BatchShape ==
  \A t \in Threads :
    Running(t) =>
      LET b == batch[t]  m == min_batch_size[b.call]  n == count[b.call]
          size == End(b) - Begin(b)
      IN  /\ b.begin = b.end => size = 0
          /\ b.begin < b.end => size >= (IF n < m THEN n ELSE m)
          /\ size % m # 0 => End(b) = n

(***************************************************************************)
(* What a callback may rely on while it runs: its batch is a range of the  *)
(* call's items, of the promised size, that no other thread works on.      *)
(***************************************************************************)
BatchesWellFormed == TypeOK /\ BatchesDisjoint /\ BatchShape

(***************************************************************************)
(* The error contract of kleidicv_thread_parallel: a call fails exactly    *)
(* when one of its batches failed, with an error one of them returned,     *)
(* although any number of batches may store to shared_result.              *)
(***************************************************************************)
ErrorsReported ==
  \A c \in Calls :
    state[c] = "returned" =>
      IF failures[c] = {} THEN result[c] = OK ELSE result[c] \in failures[c]

(***************************************************************************)
(* Slots and calls: only a batch of a call that has not returned holds a   *)
(* slot, the CPU backend never does, and no domain has more SME batches    *)
(* than slots, with any number of calls sharing them.                      *)
(***************************************************************************)
SlotsOfRunningBatches ==
  /\ \A t \in Threads :
       held[t] # NoDomain <=> at[t] = "sme"
  /\ \A t \in Threads :
       at[t] = "sme" => state[batch[t].call] \in {"parallel", "serial"}
  /\ \A d \in DOMAIN capacity :
       Cardinality({t \in Threads : at[t] = "sme" /\ held[t] = d}) <= capacity[d]

(***************************************************************************)
(* Every threaded call returns, also when all workers are busy with other  *)
(* calls, and then no slot is held.                                        *)
(***************************************************************************)
CallsReturn ==
  <>[]( /\ \A c \in Calls : state[c] = "returned"
        /\ \A t \in Threads : held[t] = NoDomain )
=============================================================================
