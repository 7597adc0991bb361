---------------------- MODULE SmcuTopologyDetectProof ----------------------
(***************************************************************************)
(* Proofs about SmcuTopologyDetect, for every list of online CPUs, every   *)
(* value of their registers and every width of size_t.                     *)
(***************************************************************************)
EXTENDS SmcuTopologyDetect, SequenceTheorems, TLAPS

CpuInfo == [id : SizeT, midr : Midrs, smidr : Smidrs]

CpuId(k) == cpu_infos[k].id

(***************************************************************************)
(* The two passes over the list.  sums[n] is the number of ids of the      *)
(* first n entries; the passes build it and run along it, so nothing has   *)
(* to be known of it but how an entry adds to it, and that it is bounded.  *)
(***************************************************************************)
Sums(n) ==
  {sums \in [0..n -> 0..cpu_count] :
     /\ sums[0] = 0 /\ sums[n] = cpu_count
     /\ \A i \in 1..n : /\ ValidRange(file[i])
                        /\ sums[i] = sums[i - 1] + RangeCount(file[i])}

PassesAgree ==
  /\ step = "count" =>
       /\ pos <= Len(file) + 1 /\ cpu_ids = << >>
       /\ Sums(pos - 1) # {}
  /\ step = "fill" =>
       /\ pos <= Len(file) + 1
       /\ \E sums \in Sums(Len(file)) : Len(cpu_ids) = sums[pos - 1]
  /\ step \in {"registers", "populate", "create", "created"} => Len(cpu_ids) = cpu_count

(***************************************************************************)
(* What is known of the registers: they are those of the listed CPUs, and  *)
(* those of one CPU do not change.                                         *)
(***************************************************************************)
IsLargest(id) ==
  /\ \E k \in 1..Len(cpu_infos) : CpuId(k) = id
  /\ \A k \in 1..Len(cpu_infos) : CpuId(k) <= id

RegistersRead ==
  /\ step \in {"open", "count", "fill"} => cpu_infos = << >>
  /\ step \in {"open", "count", "fill", "registers"} => domain_count = 0
  /\ step = "open" => pos = 1 /\ cpu_count = 0 /\ cpu_ids = << >>
  /\ Len(cpu_infos) <= Len(cpu_ids)
  /\ \A k \in 1..Len(cpu_infos) : CpuId(k) = cpu_ids[k]
  /\ \A k, l \in 1..Len(cpu_infos) : CpuId(k) = CpuId(l) => cpu_infos[k] = cpu_infos[l]
  /\ Len(cpu_infos) > 0 => \E id \in SizeT : IsLargest(id)

(***************************************************************************)
(* What populate_domains has done so far: a CPU that has been placed is in *)
(* the domain its registers describe, there is one domain for the CPUs     *)
(* that share an affinity, and a domain that is not shared has one CPU.    *)
(***************************************************************************)
Populating == step \in {"populate", "create", "created"}

DomainsMade ==
  Populating =>
    /\ Len(cpu_infos) = Len(cpu_ids) /\ Len(cpu_infos) > 0
    /\ step = "populate" => pos <= Len(cpu_infos) + 1
    /\ domain_count > 0 => domains \in [0..domain_count - 1 -> SmcuDomainInfo]
    /\ \A d \in 0..domain_count - 1 : domains[d].slot_count > 0
    /\ \A d, e \in 0..domain_count - 1 :
         /\ domains[d].shared /\ domains[e].shared
         /\ domains[d].affinity = domains[e].affinity
         => d = e

CpusPlaced ==
  Populating =>
    /\ \E id \in 0..SizeMax - 1 :
         IsLargest(id) /\ cpu_to_domain \in [0..id -> 0..domain_count - 1 \cup {kNoSmcuDomain}]
    /\ \A c \in DOMAIN cpu_to_domain :
         cpu_to_domain[c] # kNoSmcuDomain => \E k \in Placed : CpuId(k) = c
    /\ \A k \in Placed :
         /\ cpu_to_domain[CpuId(k)] \in 0..domain_count - 1
         /\ domains[cpu_to_domain[CpuId(k)]] = DomainInfo(cpu_infos[k].smidr)
    /\ \A k, l \in Placed :
         /\ cpu_to_domain[CpuId(k)] = cpu_to_domain[CpuId(l)]
         /\ ~DomainInfo(cpu_infos[k].smidr).shared
         => CpuId(k) = CpuId(l)

DetectInv ==
  /\ DetectTypeOK /\ PassesAgree /\ RegistersRead /\ DomainsMade /\ CpusPlaced
  /\ ResultIsTopology
-----------------------------------------------------------------------------
\* The ids of an entry that read_cpu_range accepts.
LEMMA EntryIds ==
  ASSUME NEW entry \in Seq(SizeT), ValidRange(entry)
  PROVE  /\ RangeCount(entry) \in 1..SizeMax
         /\ RangeIds(entry) \in Seq(SizeT)
         /\ Len(RangeIds(entry)) = RangeCount(entry)
<1>1. /\ Len(entry) \in {1, 2}
      /\ Len(entry) = 2 => entry[2] > entry[1] /\ entry[2] - entry[1] # SizeMax
  BY DEF ValidRange
<1>2. entry[1] \in SizeT /\ entry[Len(entry)] \in SizeT
  BY <1>1, ElementOfSeq
<1>3. /\ entry[1] \in Nat /\ entry[Len(entry)] \in Nat
      /\ entry[1] <= entry[Len(entry)]
      /\ entry[Len(entry)] - entry[1] # SizeMax
      /\ entry[Len(entry)] <= SizeMax
  BY <1>1, <1>2, SizeMaxAssumption, SMTT(30) DEF SizeT
<1>4. RangeCount(entry) \in 1..SizeMax
  BY <1>3, SizeMaxAssumption DEF RangeCount
<1> DEFINE n == RangeCount(entry)
           first == entry[1]
<1>5. \A j \in 1..n : first + j - 1 \in SizeT
  <2> DEFINE last == entry[Len(entry)]
  <2>1. first \in Nat /\ last \in Nat /\ last <= SizeMax /\ n = last - first + 1
    BY <1>3 DEF RangeCount
  <2>2. SizeMax \in Nat
    BY SizeMaxAssumption
  <2> HIDE DEF n, first, last
  <2> QED
    BY <2>1, <2>2 DEF SizeT
<1>6. RangeIds(entry) = [j \in 1..n |-> first + j - 1]
  BY DEF RangeIds
<1> HIDE DEF n, first
<1>7. n \in Nat
  BY <1>4, SizeMaxAssumption DEF n
<1>8. RangeIds(entry) \in [1..n -> SizeT]
  BY <1>5, <1>6
<1>9. RangeIds(entry) \in Seq(SizeT)
  BY <1>7, <1>8, SeqDef
<1>10. Len(RangeIds(entry)) = n
  BY <1>7, <1>8, <1>9, LenProperties
<1> QED
  BY <1>4, <1>9, <1>10 DEF n

\* An entry of the list of online CPUs is a sequence of ids.
LEMMA FileEntries ==
  ASSUME DetectTypeOK
  PROVE  /\ Len(file) \in Nat
         /\ \A i \in 1..Len(file) : file[i] \in Seq(SizeT)
<1>1. file \in Seq(Seq(SizeT))
  BY DetectAssumption DEF DetectTypeOK
<1> QED
  BY <1>1, LenProperties, ElementOfSeq

\* Lengths are numbers.
LEMMA Lengths ==
  ASSUME DetectTypeOK
  PROVE  /\ Len(file) \in Nat /\ Len(cpu_ids) \in Nat /\ Len(cpu_infos) \in Nat
         /\ cpu_count \in Nat /\ cpu_count <= SizeMax
         /\ pos \in Nat \ {0} /\ pos <= Len(file) + Len(cpu_infos) + 1
         /\ domain_count \in Nat /\ domain_count <= Len(cpu_infos)
         /\ \A k \in 1..Len(cpu_infos) : cpu_infos[k] \in CpuInfo /\ CpuId(k) \in SizeT
<1>1. /\ cpu_ids \in Seq(SizeT) /\ cpu_infos \in Seq(CpuInfo)
  BY DEF DetectTypeOK, CpuInfo
<1>2. /\ Len(file) \in Nat /\ Len(cpu_ids) \in Nat /\ Len(cpu_infos) \in Nat
  BY <1>1, FileEntries, LenProperties
<1>3. \A k \in 1..Len(cpu_infos) : cpu_infos[k] \in CpuInfo
  BY <1>1, ElementOfSeq
<1>4. \A k \in 1..Len(cpu_infos) : CpuId(k) \in SizeT
  BY <1>3 DEF CpuInfo, CpuId
<1> QED
  BY <1>2, <1>3, <1>4, SizeMaxAssumption DEF DetectTypeOK, SizeT

\* What the step that counts an entry does to the count: it does not wrap.
LEMMA CountedEntry ==
  ASSUME DetectTypeOK, step = "count", CountRange, step' # "null"
  PROVE  /\ pos \in 1..Len(file) /\ pos' = pos + 1 /\ step' = step
         /\ ValidRange(file[pos])
         /\ RangeCount(file[pos]) \in Nat
         /\ cpu_count' = cpu_count + RangeCount(file[pos])
         /\ cpu_count' \in SizeT
<1>1. /\ pos <= Len(file) /\ ValidRange(file[pos])
      /\ ~(cpu_count > SizeMax - RangeCount(file[pos]))
      /\ cpu_count' = (cpu_count + RangeCount(file[pos])) % (SizeMax + 1)
      /\ pos' = pos + 1 /\ step' = step
  BY DEF CountRange, Fail
<1>2. pos \in 1..Len(file)
  BY <1>1, Lengths
<1>3. file[pos] \in Seq(SizeT)
  BY <1>2, FileEntries
<1>4. RangeCount(file[pos]) \in 1..SizeMax
  BY <1>1, <1>3, EntryIds
<1> DEFINE n == RangeCount(file[pos])
<1>5. n \in Int /\ 1 <= n /\ n <= SizeMax /\ ~(cpu_count > SizeMax - n)
  BY <1>1, <1>4, SizeMaxAssumption
<1>6. cpu_count' = (cpu_count + n) % (SizeMax + 1)
  BY <1>1
<1>7. cpu_count \in Nat
  BY Lengths
<1> HIDE DEF n
<1>8. cpu_count + n \in 0..SizeMax
  BY <1>5, <1>7, SizeMaxAssumption
<1>9. \A x \in 0..SizeMax : x % (SizeMax + 1) = x
  BY SizeMaxAssumption
<1>10. cpu_count' = cpu_count + n
  BY <1>6, <1>8, <1>9
<1>11. cpu_count' \in SizeT
  BY <1>8, <1>10 DEF SizeT
<1>12. n \in Nat
  BY <1>5
<1> QED
  BY <1>1, <1>2, <1>10, <1>11, <1>12 DEF n

\* The ids of an entry are appended.
LEMMA FilledEntry ==
  ASSUME DetectTypeOK, FillRange, ValidRange(file[pos])
  PROVE  /\ pos \in 1..Len(file)
         /\ cpu_ids' \in Seq(SizeT)
         /\ Len(cpu_ids') = Len(cpu_ids) + RangeCount(file[pos])
<1>1. pos \in 1..Len(file)
  BY Lengths DEF FillRange
<1>2. file[pos] \in Seq(SizeT)
  BY <1>1, FileEntries
<1>3. /\ RangeIds(file[pos]) \in Seq(SizeT)
      /\ Len(RangeIds(file[pos])) = RangeCount(file[pos])
  BY <1>2, EntryIds
<1>4. cpu_ids \in Seq(SizeT) /\ cpu_ids' = cpu_ids \o RangeIds(file[pos])
  BY DEF DetectTypeOK, FillRange
<1> QED
  BY <1>1, <1>3, <1>4, ConcatProperties

\* Detection starts with the invariant.
LEMMA DetectInvInit ==
  ASSUME DetectInit
  PROVE  DetectInv
<1>1. Len(file) \in Nat
  <2>1. file \in Seq(Seq(SizeT))
    BY DetectAssumption DEF DetectInit
  <2> QED
    BY <2>1, LenProperties
<1>2. cpu_infos = << >> /\ Len(cpu_infos) = 0 /\ cpu_ids = << >> /\ Len(cpu_ids) = 0
  BY EmptySeq DEF DetectInit
<1>3. DetectTypeOK
  <2>1. cpu_ids \in Seq(SizeT) /\ cpu_infos \in Seq([id : SizeT, midr : Midrs, smidr : Smidrs])
    BY <1>2, EmptySeq
  <2> QED
    BY <1>1, <1>2, <2>1, SizeMaxAssumption DEF DetectInit, DetectTypeOK, SizeT
<1>4. PassesAgree /\ RegistersRead /\ DomainsMade /\ CpusPlaced /\ ResultIsTopology
  BY <1>2 DEF DetectInit, PassesAgree, RegistersRead, DomainsMade, CpusPlaced, ResultIsTopology,
              Populating
<1> QED
  BY <1>3, <1>4 DEF DetectInv

\* What reading the registers of a CPU does.
LEMMA RegistersOfCpu ==
  ASSUME DetectTypeOK,
         NEW midr \in Midrs, NEW smidr \in Smidrs, ReadRegisters(midr, smidr)
  PROVE  /\ cpu_infos' \in Seq(CpuInfo)
         /\ Len(cpu_infos') = Len(cpu_infos) + 1
         /\ Len(cpu_infos) < Len(cpu_ids)
         /\ \A k \in 1..Len(cpu_infos) : cpu_infos'[k] = cpu_infos[k]
         /\ cpu_infos'[Len(cpu_infos) + 1].id = cpu_ids[Len(cpu_infos) + 1]
         /\ cpu_ids[Len(cpu_infos) + 1] \in SizeT
         /\ \A k \in 1..Len(cpu_infos) :
              CpuId(k) = cpu_ids[Len(cpu_infos) + 1]
              => cpu_infos[k] = cpu_infos'[Len(cpu_infos) + 1]
<1> DEFINE n == Len(cpu_infos)
           info == [id |-> cpu_ids[n + 1], midr |-> midr, smidr |-> smidr]
<1>1. /\ n < Len(cpu_ids) /\ cpu_infos' = Append(cpu_infos, info)
      /\ SameCpuSameRegisters(info)
  BY DEF ReadRegisters
<1>2. n + 1 \in 1..Len(cpu_ids) /\ n \in Nat
  BY <1>1, Lengths
<1>3. cpu_ids[n + 1] \in SizeT
  BY <1>2, ElementOfSeq DEF DetectTypeOK
<1>4. info \in CpuInfo
  BY <1>3 DEF CpuInfo
<1>5. info.id = cpu_ids[n + 1]
  OBVIOUS
<1>6. \A k \in 1..n : CpuId(k) = cpu_ids[n + 1] => cpu_infos[k] = info
  BY <1>1, <1>5 DEF SameCpuSameRegisters, CpuId
<1>7. cpu_infos \in Seq(CpuInfo)
  BY DEF DetectTypeOK, CpuInfo
<1> HIDE DEF info
<1>8. /\ cpu_infos' \in Seq(CpuInfo) /\ Len(cpu_infos') = n + 1
      /\ \A k \in 1..n : cpu_infos'[k] = cpu_infos[k]
      /\ cpu_infos'[n + 1] = info
  BY <1>1, <1>2, <1>4, <1>7, AppendProperties
<1> QED
  BY <1>1, <1>3, <1>5, <1>6, <1>8

\* The steps that leave the list and what was read of it alone.
Settled == UNCHANGED <<file, cpu_count, cpu_ids, cpu_infos>>

\* What placing a CPU may do to the counters.
LEMMA PopulateCounts ==
  ASSUME DetectTypeOK, PopulateDomain
  PROVE  /\ Settled /\ UNCHANGED <<detected, created_slots>>
         /\ step = "populate" /\ pos \in 1..Len(cpu_infos)
         /\ \/ step' = "null" /\ UNCHANGED <<pos, cpu_to_domain, domains, domain_count>>
            \/ /\ step' = step /\ pos' = pos + 1
               /\ domain_count' \in {domain_count, domain_count + 1}
               /\ domain_count' <= Len(cpu_infos)
<1>1. /\ Settled /\ UNCHANGED <<detected, created_slots>>
      /\ step = "populate" /\ pos <= Len(cpu_infos)
  BY DEF PopulateDomain, Settled
<1>2. pos \in 1..Len(cpu_infos)
  BY <1>1, Lengths
<1>3. \/ step' = "null" /\ UNCHANGED <<pos, cpu_to_domain, domains, domain_count>>
      \/ \E id, info : AddDomain(id, info)
      \/ \E id, info, d : JoinDomain(id, info, d)
  BY DEF PopulateDomain, Fail
<1>4. ASSUME NEW id, NEW info, AddDomain(id, info)
      PROVE  \/ step' = "null" /\ UNCHANGED <<pos, cpu_to_domain, domains, domain_count>>
             \/ /\ step' = step /\ pos' = pos + 1
                /\ domain_count' = domain_count + 1 /\ domain_count + 1 <= Len(cpu_infos)
  BY <1>4, Lengths DEF AddDomain, Fail
<1>5. ASSUME NEW id, NEW info, NEW d, JoinDomain(id, info, d)
      PROVE  \/ step' = "null" /\ UNCHANGED <<pos, cpu_to_domain, domains, domain_count>>
             \/ /\ step' = step /\ pos' = pos + 1 /\ domain_count' = domain_count
  BY <1>5 DEF JoinDomain, Fail
<1> QED
  BY <1>1, <1>2, <1>3, <1>4, <1>5, Lengths

\* Counts and positions stay in their ranges.
LEMMA TypeStep ==
  ASSUME DetectInv, DetectNext
  PROVE  DetectTypeOK'
<1> USE DEF AllocateThen, Fail
<1>0. DetectTypeOK
  BY DEF DetectInv
<1>1. CASE OpenOnlineFile
  BY <1>0, <1>1 DEF OpenOnlineFile, DetectTypeOK
<1>2. CASE CountRange
  <2>1. CASE step' = "null"
    BY <1>0, <1>2, <2>1, Lengths DEF CountRange, DetectTypeOK
  <2>2. CASE step' # "null"
    <3>1. /\ pos \in 1..Len(file) /\ pos' = pos + 1 /\ step' = step /\ cpu_count' \in SizeT
      BY <1>0, <1>2, <2>2, CountedEntry DEF CountRange
    <3>2. pos' \in 1..Len(file) + Len(cpu_infos) + 1
      BY <1>0, <3>1, Lengths
    <3> QED
      BY <1>0, <1>2, <3>1, <3>2 DEF CountRange, DetectTypeOK
  <2> QED
    BY <2>1, <2>2
<1>3. CASE AllocateIds
  BY <1>0, <1>3, Lengths DEF AllocateIds, DetectTypeOK
<1>4. CASE FillRange
  <2>1. pos \in 1..Len(file)
    BY <1>0, <1>4, Lengths DEF FillRange
  <2>2. ValidRange(file[pos])
    BY <1>4, <2>1 DEF FillRange, DetectInv, PassesAgree, Sums
  <2>3. cpu_ids' \in Seq(SizeT)
    BY <1>0, <1>4, <2>2, FilledEntry
  <2>4. pos' \in 1..Len(file) + Len(cpu_infos) + 1
    BY <1>0, <1>4, <2>1, Lengths DEF FillRange
  <2> QED
    BY <1>0, <1>4, <2>3, <2>4 DEF FillRange, DetectTypeOK
<1>5. CASE AllocateInfos
  BY <1>0, <1>5 DEF AllocateInfos, DetectTypeOK
<1>6. ASSUME NEW midr \in Midrs, NEW smidr \in Smidrs, ReadRegisters(midr, smidr)
      PROVE  DetectTypeOK'
  <2>1. /\ cpu_infos' \in Seq([id : SizeT, midr : Midrs, smidr : Smidrs])
        /\ Len(cpu_infos') = Len(cpu_infos) + 1
    BY <1>0, <1>6, RegistersOfCpu DEF CpuInfo
  <2>2. /\ pos \in 1..Len(file) + Len(cpu_infos') + 1
        /\ domain_count \in 0..Len(cpu_infos')
    BY <1>0, <2>1, Lengths
  <2>3. UNCHANGED <<step, file, pos, cpu_count, cpu_ids, domain_count, created_slots>>
    BY <1>6 DEF ReadRegisters
  <2> QED
    BY <1>0, <2>1, <2>2, <2>3 DEF DetectTypeOK
<1>7. CASE RegistersUnreadable
  BY <1>0, <1>7 DEF RegistersUnreadable, DetectTypeOK
<1>8. CASE CheckRegisters
  <2>1. /\ pos' \in {pos, 1} /\ step' \in {"null", "populate"}
        /\ UNCHANGED <<file, cpu_count, cpu_ids, cpu_infos, domain_count, created_slots>>
    BY <1>8 DEF CheckRegisters
  <2>2. pos' \in 1..Len(file) + Len(cpu_infos) + 1
    BY <1>0, <2>1, Lengths
  <2> QED
    BY <1>0, <2>1, <2>2 DEF DetectTypeOK
<1>9. CASE PopulateDomain
  <2>1. /\ pos' \in 1..Len(file) + Len(cpu_infos) + 1
        /\ domain_count' \in 0..Len(cpu_infos)
        /\ step' \in {"populate", "null"}
    BY <1>0, <1>9, PopulateCounts, Lengths
  <2>2. UNCHANGED <<file, cpu_count, cpu_ids, cpu_infos, created_slots>>
    BY <1>9 DEF PopulateDomain
  <2> QED
    BY <1>0, <2>1, <2>2 DEF DetectTypeOK
<1>10. CASE ApplyPolicy
  BY <1>0, <1>10 DEF ApplyPolicy, DetectTypeOK
<1>11. CASE CreateLimiter
  <2>1. detected.domain_count \in Nat
    BY <1>11, SizeMaxAssumption DEF CreateLimiter, DetectInv, ResultIsTopology, IsTopology, SizeT
  <2> QED
    BY <1>0, <1>11, <2>1 DEF CreateLimiter, DetectTypeOK
<1> QED
  BY <1>1, <1>2, <1>3, <1>4, <1>5, <1>6, <1>7, <1>8, <1>9, <1>10, <1>11 DEF DetectNext

\* The passes agree.
LEMMA PassesStep ==
  ASSUME DetectInv, DetectNext
  PROVE  PassesAgree'
<1> USE DEF AllocateThen, Fail
<1>0. DetectTypeOK /\ PassesAgree
  BY DEF DetectInv
<1>1. CASE OpenOnlineFile
  <2>1. SUFFICES ASSUME step' = "count"
                 PROVE  PassesAgree'
    BY <1>1 DEF OpenOnlineFile, PassesAgree
  <2>2. /\ pos = 1 /\ cpu_count = 0 /\ cpu_ids = << >> /\ step = "open"
    BY <1>1 DEF OpenOnlineFile, DetectInv, RegistersRead
  <2> DEFINE s == [i \in 0..0 |-> 0]
  <2>3. s \in Sums(0)
    BY <2>2 DEF Sums
  <2>4. UNCHANGED <<file, pos, cpu_count, cpu_ids>>
    BY <1>1 DEF OpenOnlineFile
  <2>5. Sums(pos - 1)' # {}
    BY <2>2, <2>3, <2>4 DEF Sums
  <2> QED
    BY <1>0, <2>1, <2>2, <2>4, <2>5, Lengths DEF PassesAgree
<1>2. CASE CountRange
  <2>1. SUFFICES ASSUME step' # "null"
                 PROVE  PassesAgree'
    BY <1>2 DEF CountRange, PassesAgree
  <2>2. /\ step = "count" /\ pos \in 1..Len(file) /\ pos' = pos + 1 /\ step' = step
        /\ ValidRange(file[pos]) /\ RangeCount(file[pos]) \in Nat
        /\ cpu_count' = cpu_count + RangeCount(file[pos])
        /\ UNCHANGED <<file, cpu_ids>>
    BY <1>0, <1>2, <2>1, CountedEntry DEF CountRange
  <2>3. PICK sums \in Sums(pos - 1) : TRUE
    BY <1>0, <2>2 DEF PassesAgree
  <2>4. Len(file) \in Nat /\ cpu_count \in Nat /\ cpu_count' \in Nat /\ cpu_count <= cpu_count'
    BY <1>0, <2>2, Lengths
  <2> DEFINE s == [i \in 0..pos |-> IF i = pos THEN cpu_count' ELSE sums[i]]
  <2>5. /\ sums \in [0..pos - 1 -> 0..cpu_count]
        /\ sums[0] = 0 /\ sums[pos - 1] = cpu_count
        /\ \A i \in 1..pos - 1 : ValidRange(file[i]) /\ sums[i] = sums[i - 1] + RangeCount(file[i])
    BY <2>3 DEF Sums
  <2>6. s \in [0..pos -> 0..cpu_count'] /\ s[0] = 0 /\ s[pos] = cpu_count'
    BY <2>2, <2>4, <2>5
  <2>7. ASSUME NEW i \in 1..pos
        PROVE  ValidRange(file[i]) /\ s[i] = s[i - 1] + RangeCount(file[i])
    <3>1. CASE i = pos
      BY <2>2, <2>5, <3>1
    <3>2. CASE i # pos
      BY <2>2, <2>5, <3>2
    <3> QED
      BY <3>1, <3>2
  <2>8. pos' - 1 = pos
    BY <2>2
  <2> HIDE DEF s
  <2>9. s \in {t \in [0..pos' - 1 -> 0..cpu_count'] :
                 /\ t[0] = 0 /\ t[pos' - 1] = cpu_count'
                 /\ \A i \in 1..pos' - 1 : /\ ValidRange(file[i])
                                           /\ t[i] = t[i - 1] + RangeCount(file[i])}
    BY <2>6, <2>7, <2>8
  <2>10. Sums(pos - 1)' # {}
    BY <2>2, <2>9 DEF Sums
  <2> QED
    BY <1>0, <2>2, <2>4, <2>10 DEF PassesAgree
<1>3. CASE AllocateIds
  <2>1. SUFFICES ASSUME step' = "fill"
                 PROVE  PassesAgree'
    BY <1>3 DEF AllocateIds, PassesAgree
  <2>2. /\ step = "count" /\ pos > Len(file) /\ pos <= Len(file) + 1
        /\ cpu_ids = << >> /\ Sums(pos - 1) # {} /\ pos' = 1
        /\ UNCHANGED <<file, cpu_count, cpu_ids>>
    BY <1>0, <1>3 DEF AllocateIds, PassesAgree
  <2>3. pos - 1 = Len(file) /\ Len(cpu_ids) = 0 /\ Len(file) \in Nat
    BY <1>0, <2>2, Lengths, EmptySeq
  <2>4. PICK sums \in Sums(Len(file)) : TRUE
    BY <2>2, <2>3
  <2>5. sums[0] = 0 /\ sums \in Sums(Len(file))'
    BY <2>2, <2>4 DEF Sums
  <2> QED
    BY <2>1, <2>2, <2>3, <2>5 DEF PassesAgree
<1>4. CASE FillRange
  <2>1. /\ step = "fill" /\ pos \in 1..Len(file) /\ pos' = pos + 1
        /\ UNCHANGED <<step, file, cpu_count>>
    BY <1>0, <1>4, Lengths DEF FillRange
  <2>2. PICK sums \in Sums(Len(file)) : Len(cpu_ids) = sums[pos - 1]
    BY <1>0, <2>1 DEF PassesAgree
  <2>3. ValidRange(file[pos]) /\ sums[pos] = sums[pos - 1] + RangeCount(file[pos])
    BY <2>1, <2>2 DEF Sums
  <2>4. Len(cpu_ids') = Len(cpu_ids) + RangeCount(file[pos])
    BY <1>0, <1>4, <2>3, FilledEntry
  <2>5. Len(cpu_ids') = sums[pos' - 1]
    BY <2>1, <2>2, <2>3, <2>4
  <2>6. sums \in Sums(Len(file))'
    BY <2>1, <2>2 DEF Sums
  <2>7. pos' <= Len(file) + 1
    BY <2>1
  <2> QED
    BY <2>1, <2>5, <2>6, <2>7 DEF PassesAgree
<1>5. CASE AllocateInfos
  <2>1. /\ step = "fill" /\ pos > Len(file) /\ step' \in {"registers", "null"}
        /\ UNCHANGED <<cpu_count, cpu_ids>>
    BY <1>5 DEF AllocateInfos
  <2>2. PICK sums \in Sums(Len(file)) : Len(cpu_ids) = sums[pos - 1]
    BY <1>0, <2>1 DEF PassesAgree
  <2>3. pos - 1 = Len(file)
    BY <1>0, <2>1, Lengths DEF PassesAgree
  <2>4. Len(cpu_ids) = cpu_count
    BY <2>2, <2>3 DEF Sums
  <2> QED
    BY <2>1, <2>4 DEF PassesAgree
<1>6. ASSUME NEW midr \in Midrs, NEW smidr \in Smidrs, ReadRegisters(midr, smidr)
      PROVE  PassesAgree'
  BY <1>0, <1>6 DEF ReadRegisters, PassesAgree
<1>7. CASE RegistersUnreadable
  BY <1>7 DEF RegistersUnreadable, PassesAgree
<1>8. CASE CheckRegisters
  BY <1>0, <1>8 DEF CheckRegisters, PassesAgree
<1>9. CASE PopulateDomain
  <2>1. step = "populate" /\ step' \in {"populate", "null"} /\ UNCHANGED <<cpu_count, cpu_ids>>
    BY <1>0, <1>9, PopulateCounts DEF Settled
  <2> QED
    BY <1>0, <2>1 DEF PassesAgree
<1>10. CASE ApplyPolicy
  BY <1>0, <1>10 DEF ApplyPolicy, PassesAgree
<1>11. CASE CreateLimiter
  BY <1>0, <1>11 DEF CreateLimiter, PassesAgree
<1> QED
  BY <1>1, <1>2, <1>3, <1>4, <1>5, <1>6, <1>7, <1>8, <1>9, <1>10, <1>11 DEF DetectNext

\* The registers that were read do not change afterwards.
LEMMA RegistersKept ==
  ASSUME DetectTypeOK, RegistersRead, DetectTypeOK',
         cpu_infos' = cpu_infos, step' # "open",
         cpu_ids' = cpu_ids \/ cpu_infos = << >>,
         step' \in {"count", "fill"} => cpu_infos = << >>,
         step' \in {"count", "fill", "registers"} => domain_count' = 0
  PROVE  RegistersRead'
<1>1. Len(cpu_ids') \in Nat
  BY LenProperties DEF DetectTypeOK
<1>2. \A k : CpuId(k)' = CpuId(k)
  BY DEF CpuId
<1>3. \A id : IsLargest(id)' <=> IsLargest(id)
  BY <1>2 DEF IsLargest
<1>4. CASE cpu_ids' = cpu_ids
  BY <1>2, <1>3, <1>4 DEF RegistersRead
<1>5. CASE cpu_infos = << >>
  <2>1. Len(cpu_infos) = 0
    BY <1>5, EmptySeq
  <2> QED
    BY <1>1, <1>5, <2>1 DEF RegistersRead
<1> QED
  BY <1>4, <1>5

\* What is known of the registers stays so; the largest CPU is found as they are
\* read.
LEMMA RegistersStep ==
  ASSUME DetectInv, DetectNext
  PROVE  RegistersRead'
<1> USE DEF AllocateThen, Fail
<1>0. DetectTypeOK /\ RegistersRead /\ DetectTypeOK'
  BY TypeStep DEF DetectInv
<1>1. CASE OpenOnlineFile
  BY <1>0, <1>1, RegistersKept DEF OpenOnlineFile, RegistersRead
<1>2. CASE CountRange
  BY <1>0, <1>2, RegistersKept DEF CountRange, RegistersRead
<1>3. CASE AllocateIds
  BY <1>0, <1>3, RegistersKept DEF AllocateIds, RegistersRead
<1>4. CASE FillRange
  BY <1>0, <1>4, RegistersKept DEF FillRange, RegistersRead
<1>5. CASE AllocateInfos
  BY <1>0, <1>5, RegistersKept DEF AllocateInfos, RegistersRead
<1>6. ASSUME NEW midr \in Midrs, NEW smidr \in Smidrs, ReadRegisters(midr, smidr)
      PROVE  RegistersRead'
  <2>a. PICK n \in Nat : n = Len(cpu_infos)
    BY <1>0, Lengths
  <2>b. PICK new : new = cpu_ids[n + 1]
    OBVIOUS
  <2>1. /\ Len(cpu_infos') = n + 1 /\ n < Len(cpu_ids)
        /\ \A k \in 1..n : cpu_infos'[k] = cpu_infos[k]
        /\ cpu_infos'[n + 1].id = new /\ new \in SizeT
        /\ \A k \in 1..n : CpuId(k) = new => cpu_infos[k] = cpu_infos'[n + 1]
    BY <1>0, <1>6, <2>a, <2>b, RegistersOfCpu
  <2>2. step = "registers" /\ UNCHANGED <<step, cpu_ids, domain_count>>
    BY <1>6 DEF ReadRegisters
  <2>3. n \in Nat /\ Len(cpu_ids) \in Nat /\ \A k \in 1..n : CpuId(k) \in SizeT
    BY <1>0, <2>a, Lengths
  <2>4. /\ \A k \in 1..n : CpuId(k)' = CpuId(k)
        /\ CpuId(n + 1)' = new
    BY <2>1 DEF CpuId
  <2>5. \A k \in 1..n : CpuId(k) = cpu_ids[k]
    BY <1>0, <2>a DEF RegistersRead
  <2>6. \A k \in 1..n + 1 : CpuId(k)' = cpu_ids[k]
    BY <2>3, <2>4, <2>5, <2>b
  <2>7. ASSUME NEW k \in 1..n + 1, NEW l \in 1..n + 1, CpuId(k)' = CpuId(l)'
        PROVE  cpu_infos'[k] = cpu_infos'[l]
    <3>1. CASE k \in 1..n /\ l \in 1..n
      BY <1>0, <2>a, <2>1, <2>4, <2>7, <3>1 DEF RegistersRead
    <3>2. CASE k \in 1..n /\ l = n + 1
      BY <2>1, <2>4, <2>7, <3>2
    <3>3. CASE k = n + 1 /\ l \in 1..n
      BY <2>1, <2>4, <2>7, <3>3
    <3>4. CASE k = n + 1 /\ l = n + 1
      BY <3>4
    <3> QED
      BY <2>3, <3>1, <3>2, <3>3, <3>4
  <2>8. \E id \in SizeT : /\ \E k \in 1..n + 1 : CpuId(k)' = id
                          /\ \A k \in 1..n + 1 : CpuId(k)' <= id
    <3>0. \A x \in SizeT : x \in Int
      BY SizeMaxAssumption DEF SizeT
    <3>1. CASE \A k \in 1..n : CpuId(k) <= new
      <4>1. \A k \in 1..n + 1 : CpuId(k)' <= new
        BY <2>1, <2>3, <2>4, <3>0, <3>1
      <4>2. n + 1 \in 1..n + 1
        BY <2>3
      <4> QED
        BY <2>1, <2>4, <4>1, <4>2
    <3>2. CASE \E k \in 1..n : ~(CpuId(k) <= new)
      <4>1. PICK j \in 1..n : ~(CpuId(j) <= new)
        BY <3>2
      <4>2. n > 0
        BY <2>3
      <4>3. PICK id \in SizeT : IsLargest(id)
        BY <1>0, <2>a, <4>2 DEF RegistersRead
      <4>4. PICK i \in 1..n : CpuId(i) = id
        BY <2>a, <4>3 DEF IsLargest
      <4>5. \A k \in 1..n : CpuId(k) <= id
        BY <2>a, <4>3 DEF IsLargest
      <4>6. new <= id
        BY <2>1, <2>3, <3>0, <4>1, <4>5
      <4>7. \A k \in 1..n + 1 : CpuId(k)' <= id
        BY <2>3, <2>4, <4>5, <4>6
      <4>8. i \in 1..n + 1 /\ CpuId(i)' = id
        BY <2>3, <2>4, <4>4
      <4> QED
        BY <4>7, <4>8
    <3> QED
      BY <3>1, <3>2
  <2>9. \E id \in SizeT : IsLargest(id)'
    BY <2>1, <2>8 DEF IsLargest
  <2>10. Len(cpu_infos)' <= Len(cpu_ids)'
    BY <2>1, <2>2, <2>3
  <2> QED
    BY <1>0, <2>1, <2>2, <2>6, <2>7, <2>9, <2>10 DEF RegistersRead
<1>7. CASE RegistersUnreadable
  BY <1>0, <1>7, RegistersKept DEF RegistersUnreadable, RegistersRead
<1>8. CASE CheckRegisters
  BY <1>0, <1>8, RegistersKept DEF CheckRegisters, RegistersRead
<1>9. CASE PopulateDomain
  <2>1. step = "populate" /\ step' \in {"populate", "null"} /\ UNCHANGED <<cpu_infos, cpu_ids>>
    BY <1>0, <1>9, PopulateCounts DEF Settled
  <2> QED
    BY <1>0, <2>1, RegistersKept
<1>10. CASE ApplyPolicy
  BY <1>0, <1>10, RegistersKept DEF ApplyPolicy
<1>11. CASE CreateLimiter
  BY <1>0, <1>11, RegistersKept DEF CreateLimiter
<1> QED
  BY <1>1, <1>2, <1>3, <1>4, <1>5, <1>6, <1>7, <1>8, <1>9, <1>10, <1>11 DEF DetectNext

\* The largest CPU id, once one is known to be the largest.
LEMMA Largest ==
  ASSUME DetectTypeOK, NEW id, IsLargest(id)
  PROVE  LargestCpuId = id /\ id \in SizeT
<1> DEFINE ids == {cpu_infos[k].id : k \in 1..Len(cpu_infos)}
<1>1. id \in ids /\ (\A x \in ids : x <= id) /\ ids \subseteq SizeT
  BY Lengths, SMTT(30) DEF IsLargest, CpuId
<1>2. \A x \in ids : x \in Int
  BY <1>1, SizeMaxAssumption DEF SizeT
<1>3. LargestCpuId = CHOOSE x \in ids : \A y \in ids : x >= y
  BY DEF LargestCpuId, Max
<1> HIDE DEF ids
<1>4. \A y \in ids : id >= y
  BY <1>1, <1>2
<1>5. LargestCpuId \in ids /\ \A y \in ids : LargestCpuId >= y
  BY <1>1, <1>3, <1>4
<1> QED
  BY <1>1, <1>2, <1>5

\* The fields of the registers of a CPU.
LEMMA RegisterFields ==
  ASSUME NEW smidr \in Smidrs
  PROVE  /\ smidr.affinity \in 0..4095 /\ smidr.affinity2 \in Nat
         /\ smidr.nsmc \in 0..15
<1> DEFINE A == 0..4095
           B == 0..3
           C == 0..15
<1>1. Smidrs \subseteq [affinity : A, affinity2 : Nat, sh : B, nsmc : C]
  BY DetectAssumption, SMTT(30)
<1> HIDE DEF A, B, C
<1>2. smidr \in [affinity : A, affinity2 : Nat, sh : B, nsmc : C]
  BY <1>1
<1>3. smidr.affinity \in A /\ smidr.affinity2 \in Nat /\ smidr.nsmc \in C
  BY <1>2
<1> QED
  BY <1>3 DEF A, C

\* What the registers of a CPU say about its domain.
LEMMA DomainOfRegisters ==
  ASSUME NEW smidr \in Smidrs
  PROVE  /\ DomainInfo(smidr) \in SmcuDomainInfo
         /\ DomainInfo(smidr).slot_count > 0
<1>1. smidr.affinity \in 0..4095 /\ smidr.affinity2 \in Nat /\ smidr.nsmc \in 0..15
  BY RegisterFields
<1>2. smidr_affinity(smidr) \in Nat
  <2> DEFINE a == smidr.affinity
             b == smidr.affinity2
  <2>1. a \in 0..4095 /\ b \in Nat /\ smidr_affinity(smidr) = b * 4096 + a
    BY <1>1 DEF smidr_affinity
  <2> HIDE DEF a, b
  <2> QED
    BY <2>1, SMTT(30)
<1>3. smidr_smcu_count(smidr) \in Nat /\ smidr_smcu_count(smidr) > 0
  BY <1>1 DEF smidr_smcu_count
<1> DEFINE shared == smidr_sharing(smidr) = "shared"
           count == IF shared THEN smidr_smcu_count(smidr) ELSE 1
<1>4. count \in Nat /\ count > 0 /\ shared \in BOOLEAN
  BY <1>3
<1>5. DomainInfo(smidr) = [affinity |-> smidr_affinity(smidr), slot_count |-> count,
                           shared |-> shared]
  BY DEF DomainInfo
<1> HIDE DEF shared, count
<1> QED
  BY <1>2, <1>4, <1>5 DEF SmcuDomainInfo

\* At most one shared domain has a given affinity, so looking one up is exact.
LEMMA SharedDomain ==
  ASSUME DetectTypeOK, DomainsMade, Populating,
         NEW affinity, find_shared_domain(affinity) # {}
  PROVE  /\ Min(find_shared_domain(affinity)) \in 0..domain_count - 1
         /\ domains[Min(find_shared_domain(affinity))].shared
         /\ domains[Min(find_shared_domain(affinity))].affinity = affinity
<1> DEFINE found == find_shared_domain(affinity)
<1>1. PICK d \in found : TRUE
  OBVIOUS
<1>2. \A e \in found : e = d
  BY <1>1 DEF find_shared_domain, DomainsMade
<1>3. d \in Int
  BY <1>1 DEF find_shared_domain
<1>4. Min(found) = CHOOSE x \in found : \A y \in found : x =< y
  BY DEF Min
<1> HIDE DEF found
<1>5. \A y \in found : d =< y
  BY <1>2, <1>3
<1>6. Min(found) \in found
  BY <1>1, <1>4, <1>5
<1> QED
  BY <1>6 DEF found, find_shared_domain

\* Placing one more CPU: its domain is the one its registers describe, and it is
\* new unless it is shared.
LEMMA Placement ==
  ASSUME DetectTypeOK, RegistersRead, DomainsMade, CpusPlaced,
         step = "populate", step' = "populate", Settled,
         NEW p \in 1..Len(cpu_infos), p = pos, pos' = pos + 1,
         NEW id, id = CpuId(p),
         domain_count' \in Nat, domain_count <= domain_count',
         NEW d \in 0..domain_count' - 1,
         cpu_to_domain' = [cpu_to_domain EXCEPT ![id] = d],
         domains'[d] = DomainInfo(cpu_infos[p].smidr),
         \A e \in 0..domain_count - 1 : domains'[e] = domains[e],
         d >= domain_count \/ DomainInfo(cpu_infos[p].smidr).shared
  PROVE  CpusPlaced'
<1>1. /\ Len(cpu_infos) \in Nat /\ domain_count \in Nat
      /\ \A k \in 1..Len(cpu_infos) : CpuId(k) \in SizeT
  BY Lengths
<1>2. Placed = 1..p - 1 /\ Placed' = 1..p /\ p \in Nat
  BY <1>1 DEF Placed
<1>3. /\ cpu_infos' = cpu_infos /\ (\A k : CpuId(k)' = CpuId(k))
      /\ (\A x : IsLargest(x)' <=> IsLargest(x))
  BY DEF Settled, CpuId, IsLargest
<1>4. PICK last \in 0..SizeMax - 1 :
        /\ IsLargest(last)
        /\ cpu_to_domain \in [0..last -> 0..domain_count - 1 \cup {kNoSmcuDomain}]
  BY DEF CpusPlaced, Populating
<1>5. id \in 0..last
  BY <1>1, <1>4, SizeMaxAssumption DEF IsLargest, SizeT
<1>6. cpu_to_domain' \in [0..last -> 0..domain_count' - 1 \cup {kNoSmcuDomain}]
  <2>1. 0..domain_count - 1 \cup {kNoSmcuDomain} \subseteq 0..domain_count' - 1 \cup {kNoSmcuDomain}
    BY <1>1
  <2>2. d \in 0..domain_count' - 1 \cup {kNoSmcuDomain}
    OBVIOUS
  <2> DEFINE S == 0..domain_count - 1 \cup {kNoSmcuDomain}
             T == 0..domain_count' - 1 \cup {kNoSmcuDomain}
  <2>3. cpu_to_domain \in [0..last -> S] /\ S \subseteq T /\ d \in T
    BY <1>4, <2>1, <2>2
  <2> HIDE DEF S, T
  <2>4. cpu_to_domain' \in [0..last -> T]
    BY <1>5, <2>3
  <2> QED
    BY <2>4 DEF T
<1>7. /\ cpu_to_domain'[id] = d
      /\ \A c \in 0..last : c # id => cpu_to_domain'[c] = cpu_to_domain[c]
  BY <1>4, <1>5
<1>8. \A k \in 1..Len(cpu_infos) : CpuId(k) = id => cpu_infos[k] = cpu_infos[p]
  BY DEF RegistersRead
<1>9. \A k \in 1..p : /\ k \in 1..Len(cpu_infos) /\ CpuId(k) \in 0..last
                      /\ k = p \/ k \in Placed
  <2>1. \A k \in 1..Len(cpu_infos) : CpuId(k) \in 0..last
    BY <1>1, <1>4, SizeMaxAssumption DEF IsLargest, SizeT
  <2> QED
    BY <1>1, <1>2, <2>1
<1>10. ASSUME NEW c \in DOMAIN cpu_to_domain', cpu_to_domain'[c] # kNoSmcuDomain
       PROVE  \E k \in 1..p : CpuId(k) = c
  <2>1. CASE c = id
    BY <1>2, <2>1
  <2>2. CASE c # id
    <3>1. PICK k \in Placed : CpuId(k) = c
      BY <1>4, <1>6, <1>7, <1>10, <2>2 DEF CpusPlaced, Populating
    <3> QED
      BY <1>2, <3>1
  <2> QED
    BY <2>1, <2>2
<1>11. ASSUME NEW k \in 1..p
       PROVE  /\ cpu_to_domain'[CpuId(k)] \in 0..domain_count' - 1
              /\ domains'[cpu_to_domain'[CpuId(k)]] = DomainInfo(cpu_infos[k].smidr)
  <2>1. CASE CpuId(k) = id
    BY <1>7, <1>8, <1>9, <2>1
  <2>2. CASE CpuId(k) # id
    <3>1. k \in Placed /\ CpuId(k) \in 0..last
      BY <1>9, <2>2
    <3>2. /\ cpu_to_domain[CpuId(k)] \in 0..domain_count - 1
          /\ domains[cpu_to_domain[CpuId(k)]] = DomainInfo(cpu_infos[k].smidr)
      BY <3>1 DEF CpusPlaced, Populating
    <3>3. cpu_to_domain'[CpuId(k)] = cpu_to_domain[CpuId(k)]
      BY <1>7, <2>2, <3>1
    <3>4. cpu_to_domain[CpuId(k)] \in 0..domain_count' - 1
      BY <1>1, <3>2
    <3> QED
      BY <3>2, <3>3, <3>4
  <2> QED
    BY <2>1, <2>2
<1>12. ASSUME NEW k \in 1..p, NEW l \in 1..p,
              cpu_to_domain'[CpuId(k)] = cpu_to_domain'[CpuId(l)],
              ~DomainInfo(cpu_infos[k].smidr).shared
       PROVE  CpuId(k) = CpuId(l)
  <2>1. CASE CpuId(k) = id /\ CpuId(l) # id
    <3>1. l \in Placed /\ CpuId(l) \in 0..last
      BY <1>9, <2>1
    <3>2. cpu_to_domain[CpuId(l)] \in 0..domain_count - 1
      BY <3>1 DEF CpusPlaced, Populating
    <3>3. cpu_to_domain[CpuId(l)] = d
      BY <1>7, <1>12, <2>1, <3>1
    <3>4. DomainInfo(cpu_infos[p].smidr).shared
      BY <1>1, <3>2, <3>3
    <3> QED
      BY <1>8, <1>9, <1>12, <2>1, <3>4
  <2>2. CASE CpuId(k) # id /\ CpuId(l) = id
    <3>1. k \in Placed /\ CpuId(k) \in 0..last
      BY <1>9, <2>2
    <3>2. /\ cpu_to_domain[CpuId(k)] \in 0..domain_count - 1
          /\ domains[cpu_to_domain[CpuId(k)]] = DomainInfo(cpu_infos[k].smidr)
      BY <3>1 DEF CpusPlaced, Populating
    <3>3. cpu_to_domain[CpuId(k)] = d
      BY <1>7, <1>12, <2>2, <3>1
    <3>4. DomainInfo(cpu_infos[p].smidr).shared
      BY <1>1, <3>2, <3>3
    <3>5. domains[d] = DomainInfo(cpu_infos[p].smidr)
      BY <3>2, <3>3
    <3> QED
      BY <1>12, <3>2, <3>3, <3>4, <3>5
  <2>3. CASE CpuId(k) # id /\ CpuId(l) # id
    <3>1. k \in Placed /\ CpuId(k) \in 0..last /\ l \in Placed /\ CpuId(l) \in 0..last
      BY <1>9, <2>3
    <3>2. cpu_to_domain[CpuId(k)] = cpu_to_domain[CpuId(l)]
      BY <1>7, <1>12, <2>3, <3>1
    <3> QED
      BY <1>12, <3>1, <3>2 DEF CpusPlaced, Populating
  <2> QED
    BY <2>1, <2>2, <2>3
<1>13. \E x \in 0..SizeMax - 1 :
         /\ IsLargest(x)'
         /\ cpu_to_domain' \in [0..x -> 0..domain_count' - 1 \cup {kNoSmcuDomain}]
  BY <1>3, <1>4, <1>6
<1>14. \A c \in DOMAIN cpu_to_domain' :
         cpu_to_domain'[c] # kNoSmcuDomain => \E k \in Placed' : CpuId(k)' = c
  BY <1>2, <1>3, <1>10
<1>15. \A k \in Placed' :
         /\ cpu_to_domain'[CpuId(k)'] \in 0..domain_count' - 1
         /\ domains'[cpu_to_domain'[CpuId(k)']] = DomainInfo(cpu_infos'[k].smidr)
  BY <1>2, <1>3, <1>11
<1>16. \A k, l \in Placed' :
         /\ cpu_to_domain'[CpuId(k)'] = cpu_to_domain'[CpuId(l)']
         /\ ~DomainInfo(cpu_infos'[k].smidr).shared
         => CpuId(k)' = CpuId(l)'
  BY <1>2, <1>3, <1>12
<1> QED
  BY <1>13, <1>14, <1>15, <1>16 DEF CpusPlaced

\* The two ways to place a CPU keep what is known of the domains.
LEMMA PopulateStep ==
  ASSUME DetectInv, PopulateDomain, step' # "null"
  PROVE  DomainsMade' /\ CpusPlaced'
<1>0. DetectTypeOK /\ RegistersRead /\ DomainsMade /\ CpusPlaced
  BY DEF DetectInv
<1>1. /\ Settled /\ step = "populate" /\ step' = "populate" /\ pos \in 1..Len(cpu_infos)
      /\ pos' = pos + 1 /\ domain_count' \in {domain_count, domain_count + 1}
  BY <1>0, PopulateCounts
<1>2. PICK p \in 1..Len(cpu_infos) : p = pos
  BY <1>1
<1>3. PICK id : id = CpuId(p)
  OBVIOUS
<1>4. PICK smidr : smidr = cpu_infos[p].smidr
  OBVIOUS
<1>5. PICK info : info = DomainInfo(smidr)
  OBVIOUS
<1>6. smidr \in Smidrs
  BY <1>0, <1>4, Lengths DEF CpuInfo
<1>7. info \in SmcuDomainInfo /\ info.slot_count > 0
  BY <1>5, <1>6, DomainOfRegisters
<1>8. Len(cpu_infos) \in Nat /\ domain_count \in Nat
  BY <1>0, Lengths
<1>9. /\ Len(cpu_infos) = Len(cpu_ids) /\ Len(cpu_infos) > 0
      /\ domain_count > 0 => domains \in [0..domain_count - 1 -> SmcuDomainInfo]
      /\ \A d \in 0..domain_count - 1 : domains[d] \in SmcuDomainInfo /\ domains[d].slot_count > 0
      /\ \A d, e \in 0..domain_count - 1 :
           domains[d].shared /\ domains[e].shared /\ domains[d].affinity = domains[e].affinity
           => d = e
  BY <1>0, <1>1, <1>8 DEF DomainsMade, Populating
<1>10. /\ Len(cpu_infos') = Len(cpu_ids') /\ Len(cpu_infos') > 0
       /\ pos' <= Len(cpu_infos') + 1
  BY <1>1, <1>8, <1>9 DEF Settled
<1>11. CASE /\ info.shared => find_shared_domain(info.affinity) = {}
            /\ AddDomain(id, info)
  <2>1. /\ domains' = [d \in 0..domain_count |-> IF d = domain_count THEN info ELSE domains[d]]
        /\ domain_count' = domain_count + 1
        /\ cpu_to_domain' = [cpu_to_domain EXCEPT ![id] = domain_count]
    BY <1>1, <1>11 DEF AddDomain, Fail
  <2>2. /\ domains'[domain_count] = info
        /\ \A e \in 0..domain_count - 1 : domains'[e] = domains[e]
    BY <1>8, <2>1
  <2>3. \A d \in 0..domain_count :
          domains'[d] \in SmcuDomainInfo /\ domains'[d].slot_count > 0
    BY <1>7, <1>8, <1>9, <2>2
  <2>4. domains' \in [0..domain_count -> SmcuDomainInfo]
    BY <2>1, <2>3
  <2>5. ASSUME NEW d \in 0..domain_count, NEW e \in 0..domain_count,
               domains'[d].shared, domains'[e].shared, domains'[d].affinity = domains'[e].affinity
        PROVE  d = e
    <3>1. CASE d = domain_count /\ e \in 0..domain_count - 1
      BY <1>11, <2>2, <2>5, <3>1 DEF find_shared_domain
    <3>2. CASE e = domain_count /\ d \in 0..domain_count - 1
      BY <1>11, <2>2, <2>5, <3>2 DEF find_shared_domain
    <3>3. CASE d \in 0..domain_count - 1 /\ e \in 0..domain_count - 1
      BY <1>9, <2>2, <2>5, <3>3
    <3>4. CASE d = domain_count /\ e = domain_count
      BY <3>4
    <3> QED
      BY <1>8, <3>1, <3>2, <3>3, <3>4
  <2>6. domain_count' - 1 = domain_count
    BY <1>8, <2>1
  <2>7. DomainsMade'
    BY <1>10, <2>3, <2>4, <2>5, <2>6 DEF DomainsMade
  <2>8. /\ domain_count' \in Nat /\ domain_count <= domain_count'
        /\ domain_count \in 0..domain_count' - 1 /\ domain_count >= domain_count
    BY <1>8, <2>1
  <2>9. CpusPlaced'
    BY <1>0, <1>1, <1>2, <1>3, <1>4, <1>5, <2>1, <2>2, <2>8, Placement
  <2> QED
    BY <2>7, <2>9
<1>12. CASE /\ info.shared /\ find_shared_domain(info.affinity) # {}
            /\ JoinDomain(id, info, Min(find_shared_domain(info.affinity)))
  <2>1. PICK d : d = Min(find_shared_domain(info.affinity))
    OBVIOUS
  <2>2. d \in 0..domain_count - 1 /\ domains[d].shared /\ domains[d].affinity = info.affinity
    BY <1>0, <1>1, <1>12, <2>1, SharedDomain DEF Populating
  <2>3. /\ domains[d].slot_count = info.slot_count
        /\ cpu_to_domain' = [cpu_to_domain EXCEPT ![id] = d]
        /\ UNCHANGED <<domains, domain_count>>
    BY <1>1, <1>12, <2>1 DEF JoinDomain, Fail
  <2>4. domains[d] = info
    <3>1. domains[d] \in SmcuDomainInfo /\ domains[d].shared \in BOOLEAN /\ info.shared \in BOOLEAN
      BY <1>7, <1>9, <2>2 DEF SmcuDomainInfo
    <3>2. domains[d].shared = info.shared
      BY <1>12, <2>2, <3>1
    <3> QED
      BY <1>7, <2>2, <2>3, <3>1, <3>2 DEF SmcuDomainInfo
  <2>5. DomainsMade'
    BY <1>9, <1>10, <2>3 DEF DomainsMade
  <2>6. /\ domain_count' \in Nat /\ domain_count <= domain_count'
        /\ d \in 0..domain_count' - 1
    BY <1>8, <2>2, <2>3
  <2>7. CpusPlaced'
    BY <1>0, <1>1, <1>2, <1>3, <1>4, <1>5, <1>12, <2>3, <2>4, <2>6, Placement
  <2> QED
    BY <2>5, <2>7
<1>13. \/ /\ info.shared => find_shared_domain(info.affinity) = {}
          /\ AddDomain(id, info)
       \/ /\ info.shared /\ find_shared_domain(info.affinity) # {}
          /\ JoinDomain(id, info, Min(find_shared_domain(info.affinity)))
  <2> DEFINE found == IF info.shared THEN find_shared_domain(info.affinity) ELSE {}
  <2>1. IF found = {} THEN AddDomain(id, info) ELSE JoinDomain(id, info, Min(found))
    BY <1>1, <1>2, <1>3, <1>4, <1>5 DEF PopulateDomain, Fail, CpuId
  <2>2. CASE info.shared
    BY <2>1, <2>2
  <2>3. CASE ~info.shared
    BY <2>1, <2>3
  <2> QED
    BY <2>2, <2>3
<1> QED
  BY <1>11, <1>12, <1>13

\* What is known of the domains stays so.
LEMMA DomainsStep ==
  ASSUME DetectInv, DetectNext
  PROVE  DomainsMade' /\ CpusPlaced'
<1> USE DEF AllocateThen, Fail
<1>0. DetectTypeOK /\ RegistersRead /\ DomainsMade /\ CpusPlaced
  BY DEF DetectInv
<1>1. CASE ~Populating'
  BY <1>1 DEF DomainsMade, CpusPlaced
<1>2. CASE Populating' /\ CheckRegisters
  <2>1. /\ Len(cpu_infos) = Len(cpu_ids) /\ Len(cpu_infos) # 0 /\ LargestCpuId # SizeMax
        /\ cpu_to_domain' = [c \in 0..LargestCpuId |-> kNoSmcuDomain]
        /\ pos' = 1 /\ step' = "populate" /\ domain_count = 0
        /\ UNCHANGED <<cpu_ids, cpu_infos, domain_count>>
    BY <1>0, <1>2 DEF CheckRegisters, Populating, RegistersRead
  <2>2. Len(cpu_infos) \in Nat
    BY <1>0, Lengths
  <2>3. PICK id \in SizeT : IsLargest(id)
    BY <1>0, <2>1, <2>2 DEF RegistersRead
  <2>4. LargestCpuId = id /\ id \in 0..SizeMax - 1
    BY <1>0, <2>1, <2>3, Largest, SizeMaxAssumption DEF SizeT
  <2>5. Placed' = {}
    BY <2>1 DEF Placed
  <2>6. /\ IsLargest(id)'
        /\ cpu_to_domain' \in [0..id -> 0..domain_count' - 1 \cup {kNoSmcuDomain}]
    BY <2>1, <2>3, <2>4 DEF IsLargest, CpuId
  <2>7. CpusPlaced'
    <3>1. \A c \in DOMAIN cpu_to_domain' : cpu_to_domain'[c] = kNoSmcuDomain
      BY <2>1
    <3> QED
      BY <2>4, <2>5, <2>6, <3>1 DEF CpusPlaced
  <2>8. DomainsMade'
    BY <2>1, <2>2 DEF DomainsMade
  <2> QED
    BY <2>7, <2>8
<1>3. CASE Populating' /\ PopulateDomain
  BY <1>3, PopulateStep DEF Populating
<1>4. CASE Populating' /\ ApplyPolicy
  <2>1. /\ Populating /\ step = "populate" /\ step' = "create" /\ pos > Len(cpu_infos)
        /\ UNCHANGED <<pos, cpu_ids, cpu_infos, cpu_to_domain, domains, domain_count>>
    BY <1>4 DEF ApplyPolicy, Populating
  <2>2. pos <= Len(cpu_infos) + 1
    BY <1>0, <2>1 DEF DomainsMade
  <2>3. Placed' = Placed
    BY <1>0, <2>1, <2>2, Lengths DEF Placed
  <2> QED
    BY <1>0, <2>1, <2>3 DEF DomainsMade, CpusPlaced, IsLargest, CpuId
<1>5. CASE Populating' /\ CreateLimiter
  <2>1. /\ Populating /\ step = "create" /\ step' = "created"
        /\ UNCHANGED <<pos, cpu_ids, cpu_infos, cpu_to_domain, domains, domain_count>>
    BY <1>5 DEF CreateLimiter, Populating
  <2>2. Placed' = Placed
    BY <2>1 DEF Placed
  <2> QED
    BY <1>0, <2>1, <2>2 DEF DomainsMade, CpusPlaced, IsLargest, CpuId
<1>6. ASSUME Populating'
      PROVE  CheckRegisters \/ PopulateDomain \/ ApplyPolicy \/ CreateLimiter
  BY <1>6 DEF DetectNext, Populating, OpenOnlineFile, CountRange, AllocateIds, FillRange,
              AllocateInfos, ReadRegisters, RegistersUnreadable
<1> QED
  BY <1>1, <1>2, <1>3, <1>4, <1>5, <1>6

\* Every CPU that a policy allows is online, and has a domain.
LEMMA AllowedCpus ==
  ASSUME DetectInv, step = "populate", pos > Len(cpu_infos)
  PROVE  /\ CpuAllowed \in [DOMAIN cpu_to_domain -> BOOLEAN]
         /\ \A c \in DOMAIN cpu_to_domain : CpuAllowed[c] =>
              /\ cpu_to_domain[c] \in 0..domain_count - 1
              /\ \E k \in 1..Len(cpu_ids) : cpu_ids[k] = c
<1>0. DetectTypeOK /\ RegistersRead /\ DomainsMade /\ CpusPlaced /\ Populating
  BY DEF DetectInv, Populating
<1>1. /\ Len(cpu_infos) \in Nat /\ Len(cpu_ids) \in Nat /\ domain_count \in Nat
      /\ Len(cpu_infos) = Len(cpu_ids) /\ domain_count <= Len(cpu_infos) /\ pos \in Nat
      /\ pos <= Len(cpu_infos) + 1
  BY <1>0, Lengths DEF DomainsMade
<1>2. Placed = 1..Len(cpu_infos)
  BY <1>1 DEF Placed
<1>3. domain_count <= SizeMax
  <2>1. Len(cpu_ids) = cpu_count
    BY DEF DetectInv, PassesAgree
  <2>2. cpu_count <= SizeMax /\ cpu_count \in Nat
    BY <1>0, Lengths
  <2> QED
    BY <1>1, <2>1, <2>2, SizeMaxAssumption
<1>4. \A k \in 1..Len(cpu_infos) :
        /\ cpu_to_domain[CpuId(k)] \in 0..domain_count - 1
        /\ k \in 1..Len(cpu_ids) /\ cpu_ids[k] = CpuId(k)
  BY <1>0, <1>1, <1>2 DEF CpusPlaced, RegistersRead
<1>5. ASSUME NEW c \in DOMAIN cpu_to_domain, cpu_to_domain[c] \in 0..domain_count - 1
      PROVE  \E k \in 1..Len(cpu_ids) : cpu_ids[k] = c
  <2>1. cpu_to_domain[c] # kNoSmcuDomain
    BY <1>1, <1>3, <1>5, SizeMaxAssumption DEF kNoSmcuDomain
  <2>2. PICK k \in Placed : CpuId(k) = c
    BY <1>0, <2>1 DEF CpusPlaced
  <2> QED
    BY <1>2, <1>4, <2>2
<1>6. CASE cpu_infos[1].midr.implementer = kArmImplementer
  <2>1. CpuAllowed = [c \in DOMAIN cpu_to_domain |->
                        \E k \in 1..Len(cpu_infos) :
                          /\ cpu_infos[k].id = c
                          /\ cpu_infos[k].midr.part \in {kC1NanoPart, kC1ProPart, kC1PremiumPart}]
    BY <1>6 DEF CpuAllowed, apply_cpu_policy_for_arm_cores
  <2>2. CpuAllowed \in [DOMAIN cpu_to_domain -> BOOLEAN]
    BY <2>1
  <2>3. \A c \in DOMAIN cpu_to_domain : CpuAllowed[c] => \E k \in 1..Len(cpu_infos) : CpuId(k) = c
    BY <2>1 DEF CpuId
  <2> QED
    BY <1>4, <2>2, <2>3
<1>7. CASE /\ cpu_infos[1].midr.implementer # kArmImplementer
           /\ is_there_shared_domain_with_nonzero_affinity
  <2>1. CpuAllowed = [c \in DOMAIN cpu_to_domain |->
                        /\ find_shared_domain(0) # {}
                        /\ cpu_to_domain[c] = Min(find_shared_domain(0))]
    BY <1>7 DEF CpuAllowed, enable_cores_for_shared_zero_affinity_domain
  <2>2. CpuAllowed \in [DOMAIN cpu_to_domain -> BOOLEAN]
    BY <2>1
  <2>3. find_shared_domain(0) # {} => Min(find_shared_domain(0)) \in 0..domain_count - 1
    BY <1>0, SharedDomain
  <2>4. \A c \in DOMAIN cpu_to_domain : CpuAllowed[c] => cpu_to_domain[c] \in 0..domain_count - 1
    BY <2>1, <2>3
  <2> QED
    BY <1>5, <2>2, <2>4
<1>8. CASE /\ cpu_infos[1].midr.implementer # kArmImplementer
           /\ ~is_there_shared_domain_with_nonzero_affinity
  BY <1>8 DEF CpuAllowed
<1> QED
  BY <1>6, <1>7, <1>8

\* What from_registers returns is a topology.
LEMMA TopologyMade ==
  ASSUME DetectInv, ApplyPolicy
  PROVE  /\ IsTopology(detected')
         /\ \A c \in 0..detected'.cpu_count - 1 :
              detected'.cpu_allowed[c] => \E k \in 1..Len(cpu_ids) : cpu_ids[k] = c
<1>0. DetectTypeOK /\ DomainsMade /\ CpusPlaced /\ step = "populate" /\ pos > Len(cpu_infos) /\ Populating
  BY DEF DetectInv, Populating, ApplyPolicy
<1>1. /\ CpuAllowed \in [DOMAIN cpu_to_domain -> BOOLEAN]
      /\ \A c \in DOMAIN cpu_to_domain : CpuAllowed[c] =>
           /\ cpu_to_domain[c] \in 0..domain_count - 1
           /\ \E k \in 1..Len(cpu_ids) : cpu_ids[k] = c
  BY <1>0, AllowedCpus
<1>2. PICK id \in 0..SizeMax - 1 :
        /\ IsLargest(id)
        /\ cpu_to_domain \in [0..id -> 0..domain_count - 1 \cup {kNoSmcuDomain}]
  BY <1>0 DEF CpusPlaced
<1>3. LargestCpuId = id
  BY <1>0, <1>2, Largest
<1>4. /\ Len(cpu_infos) \in Nat /\ domain_count \in Nat /\ Len(cpu_infos) > 0
      /\ domain_count <= Len(cpu_infos) /\ Len(cpu_infos) <= SizeMax
      /\ pos <= Len(cpu_infos) + 1 /\ pos \in Nat
  BY <1>0, Lengths DEF DetectInv, PassesAgree, DomainsMade
<1>5. domain_count > 0
  <2>1. 1 \in Placed
    BY <1>0, <1>4 DEF Placed
  <2>2. cpu_to_domain[CpuId(1)] \in 0..domain_count - 1
    BY <1>0, <2>1 DEF CpusPlaced
  <2> QED
    BY <1>4, <2>2
<1>6. domain_count \in SizeT /\ id + 1 \in SizeT /\ id + 1 - 1 = id /\ 0..domain_count - 1 \subseteq SizeT
  BY <1>2, <1>4, SizeMaxAssumption DEF SizeT
<1>7. cpu_to_domain \in [0..id -> SizeT]
  <2>1. 0..domain_count - 1 \cup {kNoSmcuDomain} \subseteq SizeT
    BY <1>6, SizeMaxAssumption DEF SizeT, kNoSmcuDomain
  <2> DEFINE S == 0..domain_count - 1 \cup {kNoSmcuDomain}
  <2>2. cpu_to_domain \in [0..id -> S] /\ S \subseteq SizeT
    BY <1>2, <2>1
  <2> HIDE DEF S
  <2> QED
    BY <2>2
<1>8. /\ domains \in [0..domain_count - 1 -> SmcuDomainInfo]
      /\ \A d \in 0..domain_count - 1 : domains[d].slot_count > 0
  BY <1>0, <1>5 DEF DomainsMade
<1>9. /\ detected'.cpu_count = id + 1 /\ detected'.cpu_to_domain = cpu_to_domain
      /\ detected'.cpu_allowed = CpuAllowed /\ detected'.domain_count = domain_count
      /\ detected'.domains = domains
  BY <1>3 DEF ApplyPolicy
<1>10. DOMAIN cpu_to_domain = 0..id
  BY <1>7
<1>11. \A c \in 0..id : CpuAllowed[c] => cpu_to_domain[c] < domain_count
  BY <1>1, <1>4, <1>10
<1>12. IsTopology(detected')
  BY <1>1, <1>6, <1>7, <1>8, <1>9, <1>10, <1>11 DEF IsTopology
<1> QED
  BY <1>1, <1>6, <1>9, <1>10, <1>12

\* Once it is made, the topology does not change.
LEMMA ResultStep ==
  ASSUME DetectInv, DetectNext
  PROVE  ResultIsTopology'
<1> USE DEF AllocateThen, Fail
<1>1. SUFFICES ASSUME step' \in {"create", "created"}
               PROVE  ResultIsTopology'
  BY DEF ResultIsTopology
<1>2. ApplyPolicy \/ CreateLimiter
  <2>1. ~PopulateDomain
    BY <1>1, PopulateCounts DEF DetectInv
  <2> QED
    BY <1>1, <2>1 DEF DetectNext, OpenOnlineFile, CountRange, AllocateIds, FillRange,
              AllocateInfos, ReadRegisters, RegistersUnreadable, CheckRegisters
<1>3. CASE ApplyPolicy
  <2>1. cpu_ids' = cpu_ids
    BY <1>3 DEF ApplyPolicy
  <2> QED
    BY <1>3, <2>1, TopologyMade DEF ResultIsTopology
<1>4. CASE CreateLimiter
  BY <1>4 DEF CreateLimiter, DetectInv, ResultIsTopology
<1> QED
  BY <1>2, <1>3, <1>4

\* A step that changes nothing keeps the invariant.
LEMMA DetectStutter ==
  ASSUME DetectInv, UNCHANGED detectVars
  PROVE  DetectInv'
<1> USE DEF detectVars
<1>1. DetectTypeOK'
  BY DEF DetectInv, DetectTypeOK
<1>2. PassesAgree'
  BY DEF DetectInv, PassesAgree, Sums
<1>3. RegistersRead'
  BY DEF DetectInv, RegistersRead, IsLargest, CpuId
<1>4. DomainsMade'
  BY DEF DetectInv, DomainsMade, Populating
<1>5. CpusPlaced'
  BY DEF DetectInv, CpusPlaced, Populating, IsLargest, CpuId, Placed
<1>6. ResultIsTopology'
  BY DEF DetectInv, ResultIsTopology
<1> QED
  BY <1>1, <1>2, <1>3, <1>4, <1>5, <1>6 DEF DetectInv

\* The invariant is inductive.
LEMMA DetectInductive == DetectSpec => []DetectInv
<1>1. DetectInit => DetectInv
  BY DetectInvInit
<1>2. DetectInv /\ [DetectNext]_detectVars => DetectInv'
  <2>1. ASSUME DetectInv, DetectNext
        PROVE  DetectInv'
    BY <2>1, TypeStep, PassesStep, RegistersStep, DomainsStep, ResultStep DEF DetectInv
  <2> QED
    BY <2>1, DetectStutter
<1> QED
  BY <1>1, <1>2, PTL DEF DetectSpec

\* With the passes in agreement, the second stays within the allocation.
LEMMA FitsAllocation ==
  ASSUME DetectInv
  PROVE  IdsFitAllocation
<1>1. CASE step = "fill"
  <2>1. PICK sums \in Sums(Len(file)) : Len(cpu_ids) = sums[pos - 1] /\ pos <= Len(file) + 1
    BY <1>1 DEF DetectInv, PassesAgree
  <2>2. pos - 1 \in 0..Len(file)
    BY <2>1, Lengths, SMTT(30) DEF DetectInv
  <2>3. sums[pos - 1] \in 0..cpu_count
    BY <2>1, <2>2 DEF Sums
  <2>4. cpu_count \in Nat
    BY Lengths DEF DetectInv
  <2> QED
    BY <1>1, <2>1, <2>3, <2>4 DEF IdsFitAllocation, DetectInv
<1>2. CASE step # "fill"
  BY <1>2 DEF DetectInv, PassesAgree, IdsFitAllocation
<1> QED
  BY <1>1, <1>2

\* Affinity and Affinity2 can be told from the affinity they make together.
LEMMA AffinityParts ==
  ASSUME NEW s1 \in Smidrs, NEW s2 \in Smidrs
  PROVE  smidr_affinity(s1) = smidr_affinity(s2)
         <=> s1.affinity = s2.affinity /\ s1.affinity2 = s2.affinity2
<1> DEFINE a == s1.affinity
           a2 == s1.affinity2
           b == s2.affinity
           b2 == s2.affinity2
<1>2. a \in 0..4095 /\ b \in 0..4095 /\ a2 \in Nat /\ b2 \in Nat
  BY RegisterFields
<1>3. smidr_affinity(s1) = a2 * 4096 + a /\ smidr_affinity(s2) = b2 * 4096 + b
  BY DEF smidr_affinity
<1> HIDE DEF a, a2, b, b2
<1>4. a2 * 4096 + a = b2 * 4096 + b <=> a = b /\ a2 = b2
  BY <1>2
<1> QED
  BY <1>3, <1>4 DEF a, a2, b, b2

\* CPUs in the domains their registers describe share slots as the hardware says.
LEMMA SharingMatches ==
  ASSUME DetectInv
  PROVE  DomainsMatchSharing
<1>0. DetectTypeOK /\ DomainsMade /\ CpusPlaced
  BY DEF DetectInv
<1>1. SUFFICES ASSUME NEW k \in Placed, NEW l \in Placed
               PROVE  /\ CpuId(k) # CpuId(l) =>
                           (cpu_to_domain[CpuId(k)] = cpu_to_domain[CpuId(l)]
                            <=> SameSmcus(cpu_infos[k].smidr, cpu_infos[l].smidr))
                      /\ domains[cpu_to_domain[CpuId(k)]].slot_count =
                           IF smidr_sharing(cpu_infos[k].smidr) = "shared"
                             THEN cpu_infos[k].smidr.nsmc + 1 ELSE 1
  BY DEF DomainsMatchSharing, CpuId
<1>2. Populating
  BY DEF Placed, Populating
<1>3. k \in 1..Len(cpu_infos) /\ l \in 1..Len(cpu_infos)
  <2>1. step = "populate" => pos <= Len(cpu_infos) + 1
    BY <1>0, <1>2 DEF DomainsMade
  <2>2. Len(cpu_infos) \in Nat /\ pos \in Nat
    BY <1>0, Lengths
  <2> QED
    BY <2>1, <2>2 DEF Placed
<1> DEFINE s == cpu_infos[k].smidr
           t == cpu_infos[l].smidr
           d == cpu_to_domain[CpuId(k)]
           e == cpu_to_domain[CpuId(l)]
<1>4. s \in Smidrs /\ t \in Smidrs
  BY <1>0, <1>3, Lengths DEF CpuInfo
<1>5. /\ d \in 0..domain_count - 1 /\ domains[d] = DomainInfo(s)
      /\ e \in 0..domain_count - 1 /\ domains[e] = DomainInfo(t)
  BY <1>0, <1>2 DEF CpusPlaced
<1>6. d = e /\ ~DomainInfo(s).shared => CpuId(k) = CpuId(l)
  BY <1>0, <1>2 DEF CpusPlaced
<1>7. domains[d].shared /\ domains[e].shared /\ domains[d].affinity = domains[e].affinity
      => d = e
  BY <1>0, <1>2, <1>5 DEF DomainsMade
<1> HIDE DEF s, t, d, e
<1>8. /\ DomainInfo(s).shared <=> smidr_sharing(s) = "shared"
      /\ DomainInfo(t).shared <=> smidr_sharing(t) = "shared"
      /\ DomainInfo(s).affinity = smidr_affinity(s)
      /\ DomainInfo(t).affinity = smidr_affinity(t)
      /\ DomainInfo(s).slot_count = IF smidr_sharing(s) = "shared" THEN s.nsmc + 1 ELSE 1
  BY DEF DomainInfo, smidr_smcu_count
<1>9. smidr_affinity(s) = smidr_affinity(t)
      <=> s.affinity = t.affinity /\ s.affinity2 = t.affinity2
  BY <1>4, AffinityParts
<1>10. ASSUME CpuId(k) # CpuId(l)
       PROVE  d = e <=> SameSmcus(s, t)
  <2>1. ASSUME d = e
        PROVE  SameSmcus(s, t)
    BY <1>5, <1>6, <1>8, <1>9, <1>10, <2>1 DEF SameSmcus
  <2>2. ASSUME SameSmcus(s, t)
        PROVE  d = e
    BY <1>5, <1>7, <1>8, <1>9, <2>2 DEF SameSmcus
  <2> QED
    BY <2>1, <2>2
<1> QED
  BY <1>5, <1>8, <1>10 DEF s, t, d, e
-----------------------------------------------------------------------------
(***************************************************************************)
(* read_online_cpu_ids stores exactly as many ids as it allocated room     *)
(* for, for every list, every size_t and every failure.                    *)
(***************************************************************************)
THEOREM IdsFit == DetectSpec => []IdsFitAllocation
<1>1. DetectInv => IdsFitAllocation
  BY FitsAllocation
<1> QED
  BY <1>1, DetectInductive, PTL

(***************************************************************************)
(* populate_domains: two CPUs draw on the same slots exactly when their    *)
(* registers say that they share SMCUs, and on as many as these report.    *)
(***************************************************************************)
THEOREM SharingIsExact == DetectSpec => []DomainsMatchSharing
<1>1. DetectInv => DomainsMatchSharing
  BY SharingMatches
<1> QED
  BY <1>1, DetectInductive, PTL

(***************************************************************************)
(* from_registers: what detection hands to the limiter is a topology it    *)
(* can work on, and allows no CPU that is not in the list.                 *)
(***************************************************************************)
THEOREM DetectsTopology == DetectSpec => []ResultIsTopology
<1>1. DetectInv => ResultIsTopology
  BY DEF DetectInv
<1> QED
  BY <1>1, DetectInductive, PTL
=============================================================================
