-------------------------- MODULE SmeThreadLimiter --------------------------
(***************************************************************************)
(* class SmeThreadLimiter of kleidicv_thread/src/sme_thread_limiter.{h,cpp}*)
(* : the process-wide, lock-free pool of SME slots.  Any number of threads *)
(* call try_to_run; each attempt reads the CPU it is on, tries to take a   *)
(* slot of that CPU's domain with a compare-exchange loop, and either runs *)
(* its callback and gives the slot back, or is rejected.                   *)
(*                                                                         *)
(* Every access to a counter is std::memory_order_relaxed.  All writes are *)
(* read-modify-writes, so a counter is its modification order: the         *)
(* sequence of values written so far.  A plain load, and the load that a   *)
(* failed compare_exchange_weak makes, may return any value that is not    *)
(* older (in that order) than what the thread last read or wrote; a        *)
(* successful read-modify-write reads the last one.                        *)
(***************************************************************************)
EXTENDS SmcuTopology, Sequences, FiniteSets

CONSTANTS Threads,      \* threads that call into the limiter
          NoThread,     \* the "writer" of a counter's initial value
          Topologies,   \* the topologies detect() may have found
          MaxCalls      \* bound: calls of try_to_run in one behaviour

ASSUME ThreadsAssumption == IsFiniteSet(Threads) /\ NoThread \notin Threads
ASSUME TopologiesAssumption == \A tp \in Topologies : IsTopology(tp)
ASSUME MaxCallsAssumption == MaxCalls \in Nat

VARIABLES
  topology,         \* topology_
  slots_size,       \* available_slots_.size(): 0 if its allocation failed
  available_slots,  \* available_slots_: modification order of each counter
  seen,             \* seen[t][d]: position t last read or wrote in that order
  pc,               \* where in try_to_run each thread is
  domain,           \* the local "domain" of try_to_run_on_cpu
  slots,            \* the local "slots" of try_acquire
  calls             \* calls of try_to_run so far

vars == <<topology, slots_size, available_slots, seen, pc, domain, slots, calls>>

Domains == 0..slots_size - 1

Available(d) == available_slots[d][Len(available_slots[d])].value

Holders(d) == {t \in Threads : pc[t] = "callback" /\ domain[t] = d}

CountersOK ==
  /\ topology \in Topologies
  /\ slots_size \in {0, topology.domain_count}
  /\ available_slots \in
       [Domains -> Seq([value : Nat, writer : Threads \cup {NoThread}])]
  /\ \A d \in Domains : available_slots[d] # << >>
  /\ seen \in [Threads -> [Domains -> Nat \ {0}]]
  /\ \A t \in Threads, d \in Domains : seen[t][d] <= Len(available_slots[d])

ThreadsOK ==
  /\ pc \in [Threads -> {"idle", "load", "exchange", "callback"}]
  /\ domain \in [Threads -> SizeT]
  /\ \A t \in Threads : pc[t] # "idle" => domain[t] \in Domains
  /\ slots \in [Threads -> Nat]
  /\ calls \in 0..MaxCalls

TypeOK == CountersOK /\ ThreadsOK
-----------------------------------------------------------------------------

\* Mutant: the constructor does not store the slot counts.
Init_ZeroSlots ==
  /\ topology \in Topologies
  /\ slots_size \in {0, topology.domain_count}
  /\ available_slots = [d \in Domains |-> <<[value |-> 0, writer |-> NoThread]>>]
  /\ seen = [t \in Threads |-> [d \in Domains |-> 1]]
  /\ pc = [t \in Threads |-> "idle"]
  /\ domain = [t \in Threads |-> 0]
  /\ slots = [t \in Threads |-> 0]
  /\ calls = 0

(***************************************************************************)
(* The constructor.  If available_slots_ cannot be allocated it stays      *)
(* empty, and the limiter rejects everything.                              *)
(***************************************************************************)
Init ==
  /\ topology \in Topologies
  /\ slots_size \in {0, topology.domain_count}
  /\ available_slots =
       [d \in Domains |-> <<[value |-> slot_count(topology, d), writer |-> NoThread]>>]
  /\ seen = [t \in Threads |-> [d \in Domains |-> 1]]
  /\ pc = [t \in Threads |-> "idle"]
  /\ domain = [t \in Threads |-> 0]
  /\ slots = [t \in Threads |-> 0]
  /\ calls = 0

(***************************************************************************)
(* try_to_run and the early returns of try_to_run_on_cpu and try_acquire:  *)
(* sched_getcpu may fail (cpu < 0), the CPU may not be allowed, the slots  *)
(* may not be allocated.  All of these reject without touching a counter.  *)
(***************************************************************************)

\* Mutant: try_acquire does not compare the domain with available_slots_.size().
Admitted_NoSizeCheck(cpu) == cpu >= 0 /\ is_cpu_allowed(topology, cpu)

Admitted(cpu) ==
  /\ cpu >= 0
  /\ is_cpu_allowed(topology, cpu)
  /\ domain_for_cpu(topology, cpu) < slots_size

TryToRun(t, cpu) ==
  /\ pc[t] = "idle"
  /\ calls < MaxCalls
  /\ calls' = calls + 1
  /\ IF Admitted(cpu)
       THEN /\ domain' = [domain EXCEPT ![t] = domain_for_cpu(topology, cpu)]
            /\ pc' = [pc EXCEPT ![t] = "load"]
       ELSE UNCHANGED <<domain, pc>>
  /\ UNCHANGED <<topology, slots_size, available_slots, seen, slots>>

\* t reads position i of the modification order of its domain's counter.
Read(t, i) ==
  /\ slots' = [slots EXCEPT ![t] = available_slots[domain[t]][i].value]
  /\ seen' = [seen EXCEPT ![t][domain[t]] = i]

\* t writes v to its domain's counter, as a read-modify-write.
Write(t, v) ==
  LET d == domain[t]
  IN  /\ available_slots' =
           [available_slots EXCEPT ![d] = Append(@, [value |-> v, writer |-> t])]
      /\ seen' = [seen EXCEPT ![t][d] = Len(available_slots[d]) + 1]

Readable(t) == seen[t][domain[t]]..Len(available_slots[domain[t]])

\* available.load(std::memory_order_relaxed)
Load(t) ==
  /\ pc[t] = "load"
  /\ \E i \in Readable(t) : Read(t, i)
  /\ pc' = [pc EXCEPT ![t] = "exchange"]
  /\ UNCHANGED <<topology, slots_size, available_slots, domain, calls>>

\* The loop ends because the value last read is 0: try_acquire returns false.
Reject(t) ==
  /\ pc[t] = "exchange"
  /\ slots[t] = 0
  /\ pc' = [pc EXCEPT ![t] = "idle"]
  /\ UNCHANGED <<topology, slots_size, available_slots, seen, domain, slots, calls>>

\* Mutant: a store in place of the compare-exchange.
ExchangeSucceeds_Store(t) ==
  /\ pc[t] = "exchange"
  /\ slots[t] > 0
  /\ Write(t, slots[t] - 1)
  /\ pc' = [pc EXCEPT ![t] = "callback"]
  /\ UNCHANGED <<topology, slots_size, domain, slots, calls>>

\* compare_exchange_weak(slots, slots - 1) succeeds: the slot is taken and the
\* callback starts under its SlotGuard.
ExchangeSucceeds(t) ==
  /\ pc[t] = "exchange"
  /\ slots[t] > 0
  /\ Available(domain[t]) = slots[t]
  /\ Write(t, slots[t] - 1)
  /\ pc' = [pc EXCEPT ![t] = "callback"]
  /\ UNCHANGED <<topology, slots_size, domain, slots, calls>>

\* compare_exchange_weak fails, spuriously or not, and reloads slots.
ExchangeFails(t) ==
  /\ pc[t] = "exchange"
  /\ slots[t] > 0
  /\ \E i \in Readable(t) : Read(t, i)
  /\ UNCHANGED <<topology, slots_size, available_slots, pc, domain, calls>>

\* Mutants: the guard releases twice, or not at all.
Release_Twice(t) ==
  /\ pc[t] = "callback"
  /\ Write(t, Available(domain[t]) + 2)
  /\ pc' = [pc EXCEPT ![t] = "idle"]
  /\ UNCHANGED <<topology, slots_size, domain, slots, calls>>

Release_Leak(t) ==
  /\ pc[t] = "callback"
  /\ pc' = [pc EXCEPT ![t] = "idle"]
  /\ UNCHANGED <<topology, slots_size, available_slots, seen, domain, slots, calls>>

\* The callback returns and ~SlotGuard gives the slot back with fetch_add.
Release(t) ==
  /\ pc[t] = "callback"
  /\ Write(t, Available(domain[t]) + 1)
  /\ pc' = [pc EXCEPT ![t] = "idle"]
  /\ UNCHANGED <<topology, slots_size, domain, slots, calls>>

\* The CPU numbers sched_getcpu may return: -1 on failure, and one past the
\* topology for a CPU that came online after detection.
CpuReadings == -1..topology.cpu_count

Step(t) ==
  \/ Load(t)
  \/ Reject(t)
  \/ ExchangeSucceeds(t)
  \/ ExchangeFails(t)
  \/ Release(t)

Next == \E t \in Threads : \/ \E cpu \in CpuReadings : TryToRun(t, cpu)
                           \/ Step(t)

Spec == Init /\ [][Next]_vars

(***************************************************************************)
(* A thread inside try_to_run keeps running and its callback returns (WF). *)
(* compare_exchange_weak fails spuriously only finitely often in a row,    *)
(* and a relaxed load eventually returns the last value written (SF): what *)
(* the C++ standard asks of implementations and Arm hardware provides.     *)
(***************************************************************************)
ReloadLast(t) ==
  /\ ExchangeFails(t)
  /\ seen'[t][domain[t]] = Len(available_slots[domain[t]])

Fairness ==
  \A t \in Threads : /\ WF_vars(Load(t))
                     /\ WF_vars(Reject(t))
                     /\ WF_vars(Release(t))
                     /\ SF_vars(ExchangeSucceeds(t))
                     /\ SF_vars(ReloadLast(t))

FairSpec == Spec /\ Fairness
-----------------------------------------------------------------------------
(***************************************************************************)
(* No slot is ever lost or made up: in every interleaving of loads,        *)
(* exchanges and releases, the counter of a domain plus the callbacks that *)
(* run under its slots is the slot count the topology gives it.            *)
(***************************************************************************)
SlotConservation ==
  \A d \in Domains : Available(d) + Cardinality(Holders(d)) = slot_count(topology, d)

(***************************************************************************)
(* A stale 0 cannot come from the thread's own earlier use of the domain:  *)
(* a thread about to be rejected read the 0 some other thread wrote by     *)
(* taking the last slot.  A thread that is alone is thus never rejected.   *)
(***************************************************************************)
RejectedByAnother ==
  \A t \in Threads :
    pc[t] = "exchange" /\ slots[t] = 0 =>
      available_slots[domain[t]][seen[t][domain[t]]].writer \notin {t, NoThread}

(***************************************************************************)
(* Every slot comes back: once callers stop, each domain eventually has    *)
(* all its slots for good, so no attempt stays in the exchange loop and no *)
(* slot leaks.                                                             *)
(***************************************************************************)
SlotsComeBack ==
  <>[]( /\ \A t \in Threads : pc[t] = "idle"
        /\ \A d \in Domains : Available(d) = slot_count(topology, d) )

(***************************************************************************)
(* The limiter implements the slot pool of SmeSlots: a thread holds a slot *)
(* from its successful exchange to its SlotGuard's fetch_add.              *)
(***************************************************************************)
NoDomain == kNoSmcuDomain

Pool ==
  INSTANCE SmeSlots WITH
    capacity <- [d \in Domains |-> slot_count(topology, d)],
    held <- [t \in Threads |-> IF pc[t] = "callback" THEN domain[t] ELSE NoDomain]

\* Every behaviour of the limiter is a behaviour of the abstract slot pool:
\* no interleaving hands out a slot of a domain that has none left.
ImplementsPool == Pool!Spec
=============================================================================
