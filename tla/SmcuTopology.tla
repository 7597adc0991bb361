---------------------------- MODULE SmcuTopology ----------------------------
(***************************************************************************)
(* The value of class SmcuTopology of kleidicv_thread/src/                 *)
(* sme_thread_limiter.h: which CPUs may run SME work and which SME         *)
(* compute-unit (SMCU) domain each of them belongs to, with the queries    *)
(* the limiter makes of it.                                                *)
(*                                                                         *)
(* A HeapArray is a function on 0..size-1; the two arrays indexed by CPU   *)
(* have size cpu_count, the array of domains has size domain_count.        *)
(***************************************************************************)
EXTENDS Integers

CONSTANT SizeMax    \* std::numeric_limits<size_t>::max()

ASSUME SizeMaxAssumption == SizeMax \in Nat \ {0}

SizeT == 0..SizeMax

kNoSmcuDomain == SizeMax

SmcuDomainInfo == [affinity : Nat, slot_count : Nat, shared : BOOLEAN]

domain_for_cpu(topology, cpu) ==
  IF cpu >= topology.cpu_count THEN kNoSmcuDomain
                               ELSE topology.cpu_to_domain[cpu]

is_cpu_allowed(topology, cpu) ==
  cpu < topology.cpu_count /\ topology.cpu_allowed[cpu]

has_allowed_cpu(topology) ==
  \E cpu \in 0..topology.cpu_count - 1 : topology.cpu_allowed[cpu]

slot_count(topology, domain) ==
  IF domain < topology.domain_count THEN topology.domains[domain].slot_count
                                    ELSE 0

(***************************************************************************)
(* What the limiter relies on.  from_registers is shown to establish it in *)
(* SmcuTopologyDetect (ResultIsTopology): every array is in bounds, every  *)
(* domain has a slot to give, and an allowed CPU has a domain.             *)
(***************************************************************************)
IsTopology(topology) ==
  /\ topology.cpu_count \in SizeT
  /\ topology.domain_count \in SizeT
  /\ topology.cpu_to_domain \in [0..topology.cpu_count - 1 -> SizeT]
  /\ topology.cpu_allowed \in [0..topology.cpu_count - 1 -> BOOLEAN]
  /\ topology.domains \in [0..topology.domain_count - 1 -> SmcuDomainInfo]
  /\ \A d \in 0..topology.domain_count - 1 : topology.domains[d].slot_count > 0
  /\ \A cpu \in 0..topology.cpu_count - 1 :
       topology.cpu_allowed[cpu] =>
         topology.cpu_to_domain[cpu] < topology.domain_count
=============================================================================
