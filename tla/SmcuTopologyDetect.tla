------------------------- MODULE SmcuTopologyDetect -------------------------
(***************************************************************************)
(* SmcuTopology::detect and from_registers, and create_sme_thread_limiter: *)
(* what runs once, while the library is loaded, to find out which CPUs may *)
(* run SME work.  The sysfs list of online CPUs is parsed in two passes    *)
(* (count, then fill), the identification registers of each CPU are read,  *)
(* and the CPUs are grouped into SMCU domains one after the other.  Every  *)
(* read and every allocation may fail; any failure leaves no limiter.      *)
(*                                                                         *)
(* A list entry is a sequence: <<id>>, <<first, last>>, or << >> for text  *)
(* from_chars refuses.  The registers are records of the fields that       *)
(* midr_* and smidr_* extract.                                             *)
(***************************************************************************)
EXTENDS SmcuTopology, Sequences, FiniteSetsExt

CONSTANTS
  OnlineFiles,   \* contents the list may have; << >> is unreadable or empty
  Midrs,         \* values of midr_el1:  [implementer, part]
  Smidrs         \* values of smidr_el1: [affinity, affinity2, sh, nsmc]

ASSUME DetectAssumption ==
  /\ OnlineFiles \subseteq Seq(Seq(SizeT))
  /\ Smidrs \subseteq [affinity : 0..4095, affinity2 : Nat, sh : 0..3, nsmc : 0..15]

VARIABLES
  step,           \* where detection is; "null" and "created" are its ends
  file,           \* the list of online CPUs
  pos,            \* entry or CPU the current loop is at, from 1
  cpu_count,      \* ids counted by the first pass, the size of cpu_ids
  cpu_ids,        \* result of read_online_cpu_ids
  cpu_infos,      \* registers read so far
  cpu_to_domain,
  domains,        \* the domain_count domains found so far
  domain_count,
  detected,       \* result of from_registers, once step is "create" or "created"
  created_slots   \* available_slots_.size() of the limiter that was created

detectVars == <<step, file, pos, cpu_count, cpu_ids, cpu_infos, cpu_to_domain,
                domains, domain_count, detected, created_slots>>
-----------------------------------------------------------------------------
kArmImplementer == 65     \* 0x41
kC1NanoPart == 3466       \* 0xD8A
kC1ProPart == 3467        \* 0xD8B
kC1PremiumPart == 3472    \* 0xD90

\* Mutant: Affinity2 is ignored.
smidr_affinity_Low(smidr) == smidr.affinity

smidr_affinity(smidr) == smidr.affinity2 * 4096 + smidr.affinity

smidr_sharing(smidr) ==
  CASE smidr.sh = 3 -> "shared"
    [] smidr.sh = 2 -> "unshared"
    [] smidr.sh = 0 -> IF smidr.affinity = 0 THEN "unshared" ELSE "shared"
    [] OTHER        -> "reserved"

\* The reserved encoding of the number of SMCUs has no count.
HasSmcuCount(smidr) == smidr.nsmc # 15
smidr_smcu_count(smidr) == smidr.nsmc + 1

\* read_cpu_range: when it returns a range, and how many ids are in it.
ValidRange(entry) ==
  \/ Len(entry) = 1
  \/ Len(entry) = 2 /\ entry[2] > entry[1] /\ entry[2] - entry[1] # SizeMax

RangeCount(entry) == entry[Len(entry)] - entry[1] + 1

RangeIds(entry) == [j \in 1..RangeCount(entry) |-> entry[1] + j - 1]

find_shared_domain(affinity) ==
  {i \in 0..domain_count - 1 : domains[i].shared /\ domains[i].affinity = affinity}

Fail == step' = "null"

\* A heap allocation: it may fail, which ends detection.
AllocateThen(next) == step' \in {next, "null"}
-----------------------------------------------------------------------------
DetectInit ==
  /\ step = "open"
  /\ file \in OnlineFiles
  /\ pos = 1
  /\ cpu_count = 0
  /\ cpu_ids = << >>
  /\ cpu_infos = << >>
  /\ cpu_to_domain = << >>
  /\ domains = << >>
  /\ domain_count = 0
  /\ detected = << >>
  /\ created_slots = 0

\* read_raw_file, and the checks of read_online_cpu_ids on what it returned.
OpenOnlineFile ==
  /\ step = "open"
  /\ IF file = << >> THEN Fail ELSE step' = "count"
  /\ UNCHANGED <<file, pos, cpu_count, cpu_ids, cpu_infos, cpu_to_domain, domains,
                 domain_count, detected, created_slots>>

\* Mutant: the count may wrap around.
CountRange_Wraps ==
  /\ step = "count"
  /\ pos <= Len(file)
  /\ IF ~ValidRange(file[pos])
       THEN Fail /\ UNCHANGED <<pos, cpu_count>>
       ELSE /\ cpu_count' = (cpu_count + RangeCount(file[pos])) % (SizeMax + 1)
            /\ pos' = pos + 1
            /\ UNCHANGED step
  /\ UNCHANGED <<file, cpu_ids, cpu_infos, cpu_to_domain, domains, domain_count,
                 detected, created_slots>>

\* First pass: one entry is counted.  cpu_count is a size_t.
CountRange ==
  /\ step = "count"
  /\ pos <= Len(file)
  /\ IF ~ValidRange(file[pos]) \/ cpu_count > SizeMax - RangeCount(file[pos])
       THEN Fail /\ UNCHANGED <<pos, cpu_count>>
       ELSE /\ cpu_count' = (cpu_count + RangeCount(file[pos])) % (SizeMax + 1)
            /\ pos' = pos + 1
            /\ UNCHANGED step
  /\ UNCHANGED <<file, cpu_ids, cpu_infos, cpu_to_domain, domains, domain_count,
                 detected, created_slots>>

\* result.allocate(cpu_count)
AllocateIds ==
  /\ step = "count"
  /\ pos > Len(file)
  /\ AllocateThen("fill")
  /\ pos' = 1
  /\ UNCHANGED <<file, cpu_count, cpu_ids, cpu_infos, cpu_to_domain, domains,
                 domain_count, detected, created_slots>>

\* Second pass: the ids of one entry are stored.
FillRange ==
  /\ step = "fill"
  /\ pos <= Len(file)
  /\ cpu_ids' = cpu_ids \o RangeIds(file[pos])
  /\ pos' = pos + 1
  /\ UNCHANGED <<step, file, cpu_count, cpu_infos, cpu_to_domain, domains, domain_count,
                 detected, created_slots>>

\* detect: cpu_infos.allocate(cpu_ids->size())
AllocateInfos ==
  /\ step = "fill"
  /\ pos > Len(file)
  /\ AllocateThen("registers")
  /\ UNCHANGED <<file, pos, cpu_count, cpu_ids, cpu_infos, cpu_to_domain, domains,
                 domain_count, detected, created_slots>>

\* A CPU's registers do not change if it is listed twice.
SameCpuSameRegisters(info) ==
  \A k \in 1..Len(cpu_infos) : cpu_infos[k].id = info.id => cpu_infos[k] = info

\* detect: the next CPU's registers are read.
ReadRegisters(midr, smidr) ==
  LET info == [id |-> cpu_ids[Len(cpu_infos) + 1], midr |-> midr, smidr |-> smidr]
  IN  /\ step = "registers"
      /\ Len(cpu_infos) < Len(cpu_ids)
      /\ SameCpuSameRegisters(info)
      /\ cpu_infos' = Append(cpu_infos, info)
      /\ UNCHANGED <<step, file, pos, cpu_count, cpu_ids, cpu_to_domain, domains,
                     domain_count, detected, created_slots>>

\* detect: a register file is missing (an older kernel, or the CPU has gone
\* offline since the list was read) or malformed.
RegistersUnreadable ==
  /\ step = "registers"
  /\ Len(cpu_infos) < Len(cpu_ids)
  /\ Fail
  /\ UNCHANGED <<file, pos, cpu_count, cpu_ids, cpu_infos, cpu_to_domain, domains,
                 domain_count, detected, created_slots>>

LargestCpuId == Max({cpu_infos[k].id : k \in 1..Len(cpu_infos)})

\* from_registers up to populate_domains, and the latter's first allocation.
CheckRegisters ==
  /\ step = "registers"
  /\ Len(cpu_infos) = Len(cpu_ids)
  /\ IF \/ Len(cpu_infos) = 0
        \/ LargestCpuId = SizeMax
        \/ \E k \in 1..Len(cpu_infos) :
             cpu_infos[k].midr.implementer # cpu_infos[1].midr.implementer
       THEN Fail /\ UNCHANGED <<pos, cpu_to_domain>>
       ELSE /\ AllocateThen("populate")
            /\ cpu_to_domain' = [c \in 0..LargestCpuId |-> kNoSmcuDomain]
            /\ pos' = 1
  /\ UNCHANGED <<file, cpu_count, cpu_ids, cpu_infos, domains, domain_count, detected,
                 created_slots>>

\* The two ways populate_domains places a CPU: in a domain it has made ...
AddDomain(id, info) ==
  IF domain_count >= Len(cpu_infos)
    THEN Fail /\ UNCHANGED <<pos, cpu_to_domain, domains, domain_count>>
    ELSE /\ domains' = [d \in 0..domain_count |->
                          IF d = domain_count THEN info ELSE domains[d]]
         /\ domain_count' = domain_count + 1
         /\ cpu_to_domain' = [cpu_to_domain EXCEPT ![id] = domain_count]
         /\ pos' = pos + 1
         /\ UNCHANGED step

\* ... or in a shared one, which must have the slot count this CPU reports.
JoinDomain(id, info, d) ==
  IF domains[d].slot_count # info.slot_count
    THEN Fail /\ UNCHANGED <<pos, cpu_to_domain, domains, domain_count>>
    ELSE /\ cpu_to_domain' = [cpu_to_domain EXCEPT ![id] = d]
         /\ pos' = pos + 1
         /\ UNCHANGED <<step, domains, domain_count>>

DomainInfo(smidr) ==
  [affinity   |-> smidr_affinity(smidr),
   slot_count |-> IF smidr_sharing(smidr) = "shared" THEN smidr_smcu_count(smidr) ELSE 1,
   shared     |-> smidr_sharing(smidr) = "shared"]

\* One iteration of populate_domains.
PopulateDomain ==
  /\ step = "populate"
  /\ pos <= Len(cpu_infos)
  /\ LET id == cpu_infos[pos].id
         smidr == cpu_infos[pos].smidr
         info == DomainInfo(smidr)
         found == IF info.shared THEN find_shared_domain(info.affinity) ELSE {}
     IN  IF smidr_sharing(smidr) = "reserved" \/ ~HasSmcuCount(smidr)
           THEN Fail /\ UNCHANGED <<pos, cpu_to_domain, domains, domain_count>>
           ELSE IF found = {} THEN AddDomain(id, info)
                              ELSE JoinDomain(id, info, Min(found))
  /\ UNCHANGED <<file, cpu_count, cpu_ids, cpu_infos, detected, created_slots>>

apply_cpu_policy_for_arm_cores ==
  [c \in DOMAIN cpu_to_domain |->
     \E k \in 1..Len(cpu_infos) :
       /\ cpu_infos[k].id = c
       /\ cpu_infos[k].midr.part \in {kC1NanoPart, kC1ProPart, kC1PremiumPart}]

is_there_shared_domain_with_nonzero_affinity ==
  \E d \in 0..domain_count - 1 : domains[d].shared /\ domains[d].affinity # 0

enable_cores_for_shared_zero_affinity_domain ==
  [c \in DOMAIN cpu_to_domain |->
     /\ find_shared_domain(0) # {}
     /\ cpu_to_domain[c] = Min(find_shared_domain(0))]

\* Mutant: CPUs no policy speaks about are allowed.
CpuAllowed_ByDefault ==
  IF cpu_infos[1].midr.implementer = kArmImplementer
    THEN apply_cpu_policy_for_arm_cores
    ELSE [c \in DOMAIN cpu_to_domain |-> TRUE]

CpuAllowed ==
  IF cpu_infos[1].midr.implementer = kArmImplementer
    THEN apply_cpu_policy_for_arm_cores
    ELSE IF is_there_shared_domain_with_nonzero_affinity
           THEN enable_cores_for_shared_zero_affinity_domain
           ELSE [c \in DOMAIN cpu_to_domain |-> FALSE]

\* The end of populate_domains (the compacted copy is allocated only when it
\* is shorter) and of from_registers.
ApplyPolicy ==
  /\ step = "populate"
  /\ pos > Len(cpu_infos)
  /\ IF domain_count = Len(cpu_infos) THEN step' = "create" ELSE AllocateThen("create")
  /\ detected' = [cpu_count     |-> LargestCpuId + 1,
                  cpu_to_domain |-> cpu_to_domain,
                  cpu_allowed   |-> CpuAllowed,
                  domain_count  |-> domain_count,
                  domains       |-> domains]
  /\ UNCHANGED <<file, pos, cpu_count, cpu_ids, cpu_infos, cpu_to_domain, domains,
                 domain_count, created_slots>>

\* create_sme_thread_limiter: no limiter without an allowed CPU, or without
\* memory for it; with no memory for its slots it exists but has none.
CreateLimiter ==
  /\ step = "create"
  /\ IF has_allowed_cpu(detected) THEN AllocateThen("created") ELSE Fail
  /\ created_slots' \in {0, detected.domain_count}
  /\ UNCHANGED <<file, pos, cpu_count, cpu_ids, cpu_infos, cpu_to_domain, domains,
                 domain_count, detected>>

DetectNext ==
  \/ OpenOnlineFile \/ CountRange \/ AllocateIds \/ FillRange \/ AllocateInfos
  \/ \E midr \in Midrs, smidr \in Smidrs : ReadRegisters(midr, smidr)
  \/ RegistersUnreadable \/ CheckRegisters \/ PopulateDomain \/ ApplyPolicy
  \/ CreateLimiter

DetectSpec == DetectInit /\ [][DetectNext]_detectVars
-----------------------------------------------------------------------------
DetectTypeOK ==
  /\ step \in {"open", "count", "fill", "registers", "populate", "create", "created",
             "null"}
  /\ file \in OnlineFiles
  /\ pos \in 1..Len(file) + Len(cpu_infos) + 1
  /\ cpu_count \in SizeT
  /\ cpu_ids \in Seq(SizeT)
  /\ cpu_infos \in Seq([id : SizeT, midr : Midrs, smidr : Smidrs])
  /\ domain_count \in 0..Len(cpu_infos)
  /\ created_slots \in Nat

(***************************************************************************)
(* The second pass over the list never stores past the array the first     *)
(* pass counted for, whatever the list says and however close its counts   *)
(* come to the limit of size_t; and it fills the array to the end.         *)
(***************************************************************************)
IdsFitAllocation ==
  /\ DetectTypeOK
  /\ step = "fill" => Len(cpu_ids) <= cpu_count
  /\ step \in {"registers", "populate", "create", "created"} => Len(cpu_ids) = cpu_count

(***************************************************************************)
(* Two CPUs share slots exactly when the hardware says that they share     *)
(* SMCUs: both shared, with the same Affinity and the same Affinity2.  And *)
(* the slots they share are as many as each of them reports.               *)
(***************************************************************************)
Placed == IF step = "populate" THEN 1..pos - 1
          ELSE IF step \in {"create", "created"} THEN 1..Len(cpu_infos) ELSE {}

SameSmcus(s1, s2) ==
  /\ smidr_sharing(s1) = "shared" /\ smidr_sharing(s2) = "shared"
  /\ s1.affinity = s2.affinity /\ s1.affinity2 = s2.affinity2

DomainsMatchSharing ==
  \A k, l \in Placed :
    LET a == cpu_infos[k]  b == cpu_infos[l]
    IN  /\ a.id # b.id =>
             (cpu_to_domain[a.id] = cpu_to_domain[b.id] <=> SameSmcus(a.smidr, b.smidr))
        /\ domains[cpu_to_domain[a.id]].slot_count =
             IF smidr_sharing(a.smidr) = "shared" THEN a.smidr.nsmc + 1 ELSE 1

(***************************************************************************)
(* What the limiter relies on: whatever registers were read, a topology    *)
(* from_registers returns gives every allowed CPU a domain with a slot,    *)
(* and a CPU that is offline or absent is never allowed.                   *)
(***************************************************************************)
ResultIsTopology ==
  step \in {"create", "created"} =>
    /\ IsTopology(detected)
    /\ \A c \in 0..detected.cpu_count - 1 :
         detected.cpu_allowed[c] => \E k \in 1..Len(cpu_ids) : cpu_ids[k] = c
=============================================================================
