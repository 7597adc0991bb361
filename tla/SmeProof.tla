------------------------------ MODULE SmeProof ------------------------------
(***************************************************************************)
(* What decides whether a thread runs SME code.  Proofs about              *)
(* SmeThreadLimiter, for every set of threads, every well-formed topology  *)
(* and any number of calls; and about Dispatch, for every set of           *)
(* functions, whatever backends each was built with, on every machine and  *)
(* in every order in which the initialisers of the library run.            *)
(***************************************************************************)
EXTENDS SmeThreadLimiter, Dispatch, FiniteSetTheorems, SequenceTheorems, TLAPS

Entry == [value : Nat, writer : Threads \cup {NoThread}]

(***************************************************************************)
(* SlotConservation is inductive with TypeOK alone.  RejectedByAnother     *)
(* needs to know where a thread's own writes are: the only one it can      *)
(* still read is its last, and that one is 0 only while it holds the slot. *)
(***************************************************************************)
OwnWrites ==
  \A t \in Threads, d \in Domains : \A i \in seen[t][d]..Len(available_slots[d]) :
    available_slots[d][i].writer = t =>
      \/ available_slots[d][i].value > 0
      \/ pc[t] = "callback" /\ domain[t] = d

InitialWrites ==
  \A d \in Domains : \A i \in 1..Len(available_slots[d]) :
    available_slots[d][i].writer = NoThread => available_slots[d][i].value > 0

LastRead ==
  \A t \in Threads :
    pc[t] = "exchange" =>
      slots[t] = available_slots[domain[t]][seen[t][domain[t]]].value

WriteHistory == OwnWrites /\ InitialWrites /\ LastRead
-----------------------------------------------------------------------------
\* A domain the limiter has a counter for has at least one slot.
LEMMA SlotCountPositive ==
  ASSUME NEW tp, IsTopology(tp), NEW d \in 0..tp.domain_count - 1
  PROVE  slot_count(tp, d) \in Nat /\ slot_count(tp, d) > 0
  BY SizeMaxAssumption DEF IsTopology, slot_count, SmcuDomainInfo, SizeT

\* An admitted attempt has found a domain with a counter.
LEMMA AdmittedDomain ==
  ASSUME TypeOK, NEW cpu \in CpuReadings, Admitted(cpu)
  PROVE  domain_for_cpu(topology, cpu) \in Domains
<1>1. IsTopology(topology)
  BY TopologiesAssumption DEF TypeOK, CountersOK, ThreadsOK
<1>2. cpu \in 0..topology.cpu_count - 1
  BY <1>1, SizeMaxAssumption DEF Admitted, is_cpu_allowed, CpuReadings, IsTopology, SizeT
<1>3. domain_for_cpu(topology, cpu) \in SizeT
  BY <1>1, <1>2, SizeMaxAssumption DEF domain_for_cpu, IsTopology, SizeT
<1> QED
  BY <1>1, <1>3, SizeMaxAssumption DEF Admitted, Domains, SizeT, TypeOK, CountersOK, ThreadsOK, IsTopology

\* What a write does to the counters and to what its thread has seen.
LEMMA WriteEffect ==
  ASSUME TypeOK, NEW t \in Threads, domain[t] \in Domains, NEW v \in Nat, Write(t, v)
  PROVE  /\ available_slots' \in [Domains -> Seq(Entry)]
         /\ \A d \in Domains :
              /\ Len(available_slots'[d]) =
                   IF d = domain[t] THEN Len(available_slots[d]) + 1
                                    ELSE Len(available_slots[d])
              /\ \A i \in 1..Len(available_slots[d]) :
                   available_slots'[d][i] = available_slots[d][i]
         /\ available_slots'[domain[t]][Len(available_slots[domain[t]]) + 1] =
              [value |-> v, writer |-> t]
         /\ seen' \in [Threads -> [Domains -> Nat \ {0}]]
         /\ seen'[t][domain[t]] = Len(available_slots[domain[t]]) + 1
         /\ \A u \in Threads, d \in Domains :
              (u # t \/ d # domain[t]) => seen'[u][d] = seen[u][d]
<1> DEFINE d0 == domain[t]
           e == [value |-> v, writer |-> t]
<1>1. /\ available_slots \in [Domains -> Seq(Entry)]
      /\ e \in Entry
      /\ available_slots[d0] \in Seq(Entry)
  BY DEF TypeOK, CountersOK, ThreadsOK, Entry
<1>2. /\ available_slots' = [available_slots EXCEPT ![d0] = Append(available_slots[d0], e)]
      /\ seen' = [seen EXCEPT ![t][d0] = Len(available_slots[d0]) + 1]
  BY DEF Write
<1>3. /\ Append(available_slots[d0], e) \in Seq(Entry)
      /\ Len(Append(available_slots[d0], e)) = Len(available_slots[d0]) + 1
      /\ \A i \in 1..Len(available_slots[d0]) :
           Append(available_slots[d0], e)[i] = available_slots[d0][i]
      /\ Append(available_slots[d0], e)[Len(available_slots[d0]) + 1] = e
  BY <1>1, AppendProperties
<1>4. \A d \in Domains : available_slots'[d] =
        IF d = d0 THEN Append(available_slots[d0], e) ELSE available_slots[d]
  BY <1>1, <1>2
<1>5. available_slots' \in [Domains -> Seq(Entry)]
  BY <1>1, <1>2, <1>3
<1>6. Len(available_slots[d0]) \in Nat
  BY <1>1, LenProperties
<1>7. /\ seen' \in [Threads -> [Domains -> Nat \ {0}]]
      /\ seen'[t][d0] = Len(available_slots[d0]) + 1
      /\ \A u \in Threads, d \in Domains :
           (u # t \/ d # d0) => seen'[u][d] = seen[u][d]
  BY <1>2, <1>6 DEF TypeOK, CountersOK, ThreadsOK
<1> HIDE DEF d0, e
<1>8. \A d \in Domains :
        /\ Len(available_slots'[d]) = IF d = d0 THEN Len(available_slots[d]) + 1
                                                ELSE Len(available_slots[d])
        /\ \A i \in 1..Len(available_slots[d]) :
             available_slots'[d][i] = available_slots[d][i]
  BY <1>3, <1>4
<1>9. available_slots'[d0][Len(available_slots[d0]) + 1] = e
  BY <1>3, <1>4 DEF d0
<1> QED
  BY <1>5, <1>7, <1>8, <1>9 DEF d0, e

\* What a load of position i does.
LEMMA ReadEffect ==
  ASSUME TypeOK, NEW t \in Threads, domain[t] \in Domains,
         NEW i \in Readable(t), Read(t, i)
  PROVE  /\ i \in 1..Len(available_slots[domain[t]])
         /\ i >= seen[t][domain[t]]
         /\ slots' \in [Threads -> Nat]
         /\ slots'[t] = available_slots[domain[t]][i].value
         /\ \A u \in Threads : u # t => slots'[u] = slots[u]
         /\ seen' \in [Threads -> [Domains -> Nat \ {0}]]
         /\ seen'[t][domain[t]] = i
         /\ \A u \in Threads, d \in Domains :
              (u # t \/ d # domain[t]) => seen'[u][d] = seen[u][d]
<1> DEFINE d0 == domain[t]
<1>1. available_slots[d0] \in Seq(Entry) /\ Len(available_slots[d0]) \in Nat
  BY LenProperties DEF TypeOK, CountersOK, ThreadsOK, Entry
<1>2. i \in 1..Len(available_slots[d0]) /\ i >= seen[t][d0]
  BY <1>1 DEF Readable, TypeOK, CountersOK, ThreadsOK
<1>3. available_slots[d0][i] \in Entry
  BY <1>1, <1>2, ElementOfSeq
<1>4. available_slots[d0][i].value \in Nat
  BY <1>3 DEF Entry
<1> QED
  BY <1>2, <1>4 DEF Read, TypeOK, CountersOK, ThreadsOK

\* The last value of a counter is a natural number.
LEMMA AvailableType ==
  ASSUME TypeOK, NEW d \in Domains
  PROVE  /\ Len(available_slots[d]) \in Nat \ {0}
         /\ Available(d) \in Nat
<1>1. available_slots[d] \in Seq(Entry) /\ available_slots[d] # << >>
  BY DEF TypeOK, CountersOK, ThreadsOK, Entry
<1>2. Len(available_slots[d]) \in Nat \ {0}
  BY <1>1, EmptySeq, LenProperties
<1>3. available_slots[d][Len(available_slots[d])] \in Entry
  BY <1>1, <1>2, ElementOfSeq
<1> QED
  BY <1>2, <1>3 DEF Available, Entry

-----------------------------------------------------------------------------
\* The constructor leaves one counter per domain and idle threads.
LEMMA TypeInit == Init => TypeOK
<1> SUFFICES ASSUME Init PROVE TypeOK
  OBVIOUS
<1>1. IsTopology(topology)
  BY TopologiesAssumption DEF Init
<1>2. \A d \in Domains : slot_count(topology, d) \in Nat
  BY <1>1, SlotCountPositive DEF Init, Domains
<1>3. /\ available_slots \in [Domains -> Seq(Entry)]
      /\ \A d \in Domains : available_slots[d] # << >> /\ Len(available_slots[d]) = 1
  BY <1>2 DEF Init, Entry
<1> QED
  BY <1>3, SizeMaxAssumption, MaxCallsAssumption DEF Init, TypeOK, CountersOK, ThreadsOK, Entry, SizeT

\* Every step of a thread keeps the counters and the threads well-typed.
LEMMA TypeStep == TypeOK /\ [Next]_vars => TypeOK'
<1> SUFFICES ASSUME CountersOK, ThreadsOK, [Next]_vars PROVE CountersOK' /\ ThreadsOK'
  BY DEF TypeOK
<1>t. TypeOK
  BY DEF TypeOK
<1>0. ASSUME UNCHANGED <<topology, slots_size, available_slots, seen>>
      PROVE  CountersOK' /\ Domains' = Domains
  BY <1>0 DEF CountersOK, Domains
<1>1. CASE UNCHANGED vars
  BY <1>1, <1>0 DEF vars, ThreadsOK
<1>2. ASSUME NEW t \in Threads, NEW cpu \in CpuReadings, TryToRun(t, cpu)
      PROVE  CountersOK' /\ ThreadsOK'
  <2>1. CountersOK' /\ Domains' = Domains
    BY <1>2, <1>0 DEF TryToRun
  <2>2. CASE Admitted(cpu)
    <3>1. domain_for_cpu(topology, cpu) \in Domains
      BY <1>t, <2>2, AdmittedDomain
    <3>2. Domains \subseteq SizeT
      <4>1. IsTopology(topology) /\ slots_size \in {0, topology.domain_count}
        BY TopologiesAssumption DEF CountersOK
      <4>2. slots_size \in Nat /\ slots_size <= SizeMax
        BY <4>1, SizeMaxAssumption DEF IsTopology, SizeT
      <4> QED
        BY <4>2, SizeMaxAssumption DEF Domains, SizeT
    <3> QED
      BY <1>2, <2>1, <2>2, <3>1, <3>2, MaxCallsAssumption DEF TryToRun, ThreadsOK
  <2>3. CASE ~Admitted(cpu)
    BY <1>2, <2>1, <2>3, MaxCallsAssumption DEF TryToRun, ThreadsOK
  <2> QED
    BY <2>1, <2>2, <2>3
<1>3. ASSUME NEW t \in Threads, Load(t) \/ ExchangeFails(t)
      PROVE  CountersOK' /\ ThreadsOK'
  <2>1. domain[t] \in Domains
    BY <1>3 DEF Load, ExchangeFails, ThreadsOK
  <2>2. PICK i \in Readable(t) : Read(t, i)
    BY <1>3 DEF Load, ExchangeFails
  <2>3. UNCHANGED <<topology, slots_size, available_slots, domain, calls>>
    BY <1>3 DEF Load, ExchangeFails
  <2>4. Domains' = Domains
    BY <2>3 DEF Domains
  <2>5. CountersOK'
    <3>1. /\ i \in 1..Len(available_slots[domain[t]])
          /\ seen' \in [Threads -> [Domains -> Nat \ {0}]]
          /\ seen'[t][domain[t]] = i
      BY <1>t, <2>1, <2>2, ReadEffect
    <3>2. \A u \in Threads, d \in Domains :
            (u # t \/ d # domain[t]) => seen'[u][d] = seen[u][d]
      BY <1>t, <2>1, <2>2, ReadEffect
    <3>3. \A u \in Threads, d \in Domains :
            seen[u][d] \in Nat /\ seen[u][d] <= Len(available_slots[d])
      BY DEF CountersOK
    <3>4. \A u \in Threads, d \in Domains : seen'[u][d] <= Len(available_slots[d])
      BY <3>1, <3>2, <3>3
    <3> QED
      BY <2>3, <2>4, <3>1, <3>4 DEF CountersOK
  <2>6. slots' \in [Threads -> Nat]
    BY <1>t, <2>1, <2>2, ReadEffect
  <2>7. ThreadsOK'
    BY <1>3, <2>3, <2>4, <2>6 DEF Load, ExchangeFails, ThreadsOK
  <2> QED
    BY <2>5, <2>7
<1>4. ASSUME NEW t \in Threads, Reject(t)
      PROVE  CountersOK' /\ ThreadsOK'
  BY <1>4, <1>0 DEF Reject, ThreadsOK
<1>5. ASSUME NEW t \in Threads, NEW v \in Nat, Write(t, v), domain[t] \in Domains,
             UNCHANGED <<topology, slots_size>>
      PROVE  CountersOK' /\ Domains' = Domains
  <2>1. Domains' = Domains
    BY <1>5 DEF Domains
  <2>2. \A d \in Domains : Len(available_slots[d]) \in Nat \ {0}
    BY <1>t, AvailableType
  <2>3. available_slots' \in [Domains -> Seq(Entry)]
    BY <1>t, <1>5, WriteEffect
  <2>4. \A d \in Domains : /\ Len(available_slots'[d]) \in Nat \ {0}
                           /\ Len(available_slots'[d]) >= Len(available_slots[d])
    <3>1. \A d \in Domains :
            /\ Len(available_slots'[d]) =
                 IF d = domain[t] THEN Len(available_slots[d]) + 1
                                  ELSE Len(available_slots[d])
            /\ \A i \in 1..Len(available_slots[d]) :
                 available_slots'[d][i] = available_slots[d][i]
      BY <1>t, <1>5, WriteEffect
    <3> QED
      BY <2>2, <3>1
  <2>5. \A d \in Domains : available_slots'[d] # << >>
    BY <2>3, <2>4, EmptySeq
  <2>6. seen' \in [Threads -> [Domains -> Nat \ {0}]]
    BY <1>t, <1>5, WriteEffect
  <2>7. \A u \in Threads, d \in Domains : seen'[u][d] <= Len(available_slots'[d])
    <3>1. seen'[t][domain[t]] = Len(available_slots'[domain[t]])
      BY <1>t, <1>5, WriteEffect
    <3>2. \A u \in Threads, d \in Domains :
            (u # t \/ d # domain[t]) => seen'[u][d] = seen[u][d]
      BY <1>t, <1>5, WriteEffect
    <3>3. \A u \in Threads, d \in Domains :
            seen[u][d] \in Nat /\ seen[u][d] <= Len(available_slots[d])
      BY DEF CountersOK
    <3> QED
      BY <1>5, <2>2, <2>4, <3>1, <3>2, <3>3
  <2> QED
    BY <1>5, <2>1, <2>3, <2>5, <2>6, <2>7 DEF CountersOK, Entry
<1>6. ASSUME NEW t \in Threads, ExchangeSucceeds(t)
      PROVE  CountersOK' /\ ThreadsOK'
  <2>1. CountersOK' /\ Domains' = Domains
    BY <1>5, <1>6 DEF ExchangeSucceeds, ThreadsOK
  <2> QED
    BY <1>6, <2>1 DEF ExchangeSucceeds, ThreadsOK
<1>7. ASSUME NEW t \in Threads, Release(t)
      PROVE  CountersOK' /\ ThreadsOK'
  <2>1. domain[t] \in Domains
    BY <1>7 DEF Release, ThreadsOK
  <2>2. Available(domain[t]) + 1 \in Nat
    BY <1>t, <2>1, AvailableType
  <2>3. CountersOK' /\ Domains' = Domains
    BY <1>5, <1>7, <2>1, <2>2 DEF Release
  <2> QED
    BY <1>7, <2>3 DEF Release, ThreadsOK
<1> QED
  BY <1>1, <1>2, <1>3, <1>4, <1>6, <1>7 DEF Next, Step

(***************************************************************************)
(* Type correctness: in particular no read of available_slots_ is out of   *)
(* bounds, although the limiter may have failed to allocate it.            *)
(***************************************************************************)
THEOREM TypeCorrect == Spec => []TypeOK
  BY TypeInit, TypeStep, PTL DEF Spec
-----------------------------------------------------------------------------
\* The callbacks running under a domain's slots are finitely many.
LEMMA HoldersFinite ==
  ASSUME NEW d
  PROVE  IsFiniteSet(Holders(d)) /\ Cardinality(Holders(d)) \in Nat
<1>1. Holders(d) \in SUBSET Threads
  BY DEF Holders
<1> QED
  BY <1>1, ThreadsAssumption, FS_Subset, FS_CardinalityType

\* A write changes the last value of its own counter only.
LEMMA WriteAvailable ==
  ASSUME TypeOK, NEW t \in Threads, domain[t] \in Domains, NEW v \in Nat, Write(t, v),
         NEW d \in Domains
  PROVE  Available(d)' = IF d = domain[t] THEN v ELSE Available(d)
<1>1. CASE d = domain[t]
  <2>1. /\ Len(available_slots'[d]) = Len(available_slots[d]) + 1
        /\ available_slots'[d][Len(available_slots[d]) + 1] = [value |-> v, writer |-> t]
    BY <1>1, WriteEffect
  <2> QED
    BY <1>1, <2>1 DEF Available
<1>2. CASE d # domain[t]
  <2>1. available_slots'[d] = available_slots[d]
    BY <1>2 DEF Write, TypeOK, CountersOK
  <2> QED
    BY <1>2, <2>1 DEF Available
<1> QED
  BY <1>1, <1>2

\* At first every slot is in its counter and no callback runs.
LEMMA ConservationInit == Init => SlotConservation
<1> SUFFICES ASSUME Init, NEW d \in Domains
             PROVE  Available(d) + Cardinality(Holders(d)) = slot_count(topology, d)
  BY DEF SlotConservation
<1>1. Holders(d) = {}
  BY DEF Init, Holders
<1>2. Available(d) = slot_count(topology, d)
  BY DEF Init, Available
<1>3. slot_count(topology, d) \in Nat
  BY SlotCountPositive, TopologiesAssumption DEF Init, Domains
<1> QED
  BY <1>1, <1>2, <1>3, FS_EmptySet

\* An exchange moves one slot to its thread and a release moves it back; no other
\* step writes a counter.
LEMMA ConservationStep ==
  TypeOK /\ SlotConservation /\ [Next]_vars => SlotConservation'
<1> SUFFICES ASSUME TypeOK, SlotConservation, [Next]_vars,
                    NEW d \in Domains'
             PROVE  Available(d)' + Cardinality(Holders(d)') = slot_count(topology, d)'
  BY DEF SlotConservation
<1>1. UNCHANGED <<topology, slots_size>>
  BY DEF Next, Step, vars, TryToRun, Load, Reject, ExchangeSucceeds, ExchangeFails, Release
<1>2. /\ d \in Domains
      /\ slot_count(topology, d)' = slot_count(topology, d)
  BY <1>1 DEF Domains, slot_count
<1>3. Available(d) + Cardinality(Holders(d)) = slot_count(topology, d)
  BY <1>2 DEF SlotConservation
<1>4. Available(d) \in Nat /\ Cardinality(Holders(d)) \in Nat
  BY <1>2, AvailableType, HoldersFinite
<1>5. ASSUME UNCHANGED available_slots, Holders(d)' = Holders(d)
      PROVE  Available(d)' + Cardinality(Holders(d)') = slot_count(topology, d)'
  <2>1. Available(d)' = Available(d)
    BY <1>5 DEF Available
  <2> QED
    BY <1>2, <1>3, <1>5, <2>1
<1>6. CASE UNCHANGED vars
  BY <1>5, <1>6 DEF vars, Holders
<1>7. ASSUME NEW t \in Threads, NEW cpu \in CpuReadings, TryToRun(t, cpu)
      PROVE  Holders(d)' = Holders(d) /\ UNCHANGED available_slots
  BY <1>7 DEF TryToRun, Holders, TypeOK, ThreadsOK
<1>8. ASSUME NEW t \in Threads, Load(t) \/ ExchangeFails(t) \/ Reject(t)
      PROVE  Holders(d)' = Holders(d) /\ UNCHANGED available_slots
  BY <1>8 DEF Load, ExchangeFails, Reject, Holders, TypeOK, ThreadsOK
<1>9. ASSUME NEW t \in Threads, ExchangeSucceeds(t)
      PROVE  Available(d)' + Cardinality(Holders(d)') = slot_count(topology, d)'
  <2>1. /\ domain[t] \in Domains /\ slots[t] - 1 \in Nat /\ Write(t, slots[t] - 1)
        /\ Available(domain[t]) = slots[t]
    BY <1>9 DEF ExchangeSucceeds, TypeOK, ThreadsOK
  <2>2. CASE d = domain[t]
    <3>1. Available(d)' = Available(d) - 1
      BY <1>2, <2>1, <2>2, WriteAvailable
    <3>2. Holders(d)' = Holders(d) \cup {t} /\ t \notin Holders(d)
      BY <1>9, <2>2 DEF ExchangeSucceeds, Holders, TypeOK, ThreadsOK
    <3>3. Cardinality(Holders(d)') = Cardinality(Holders(d)) + 1
      BY <3>2, FS_AddElement, HoldersFinite
    <3> QED
      BY <1>2, <1>3, <1>4, <3>1, <3>3
  <2>3. CASE d # domain[t]
    <3>1. Available(d)' = Available(d)
      BY <1>2, <2>1, <2>3, WriteAvailable
    <3>2. Holders(d)' = Holders(d)
      BY <1>9, <2>3 DEF ExchangeSucceeds, Holders, TypeOK, ThreadsOK
    <3> QED
      BY <1>2, <1>3, <3>1, <3>2
  <2> QED
    BY <2>2, <2>3
<1>10. ASSUME NEW t \in Threads, Release(t)
       PROVE  Available(d)' + Cardinality(Holders(d)') = slot_count(topology, d)'
  <2>1. domain[t] \in Domains
    BY <1>10 DEF Release, TypeOK, ThreadsOK
  <2>2. Available(domain[t]) + 1 \in Nat /\ Write(t, Available(domain[t]) + 1)
    BY <1>10, <2>1, AvailableType DEF Release
  <2>3. CASE d = domain[t]
    <3>1. Available(d)' = Available(d) + 1
      BY <1>2, <2>1, <2>2, <2>3, WriteAvailable
    <3>2. Holders(d)' = Holders(d) \ {t} /\ t \in Holders(d)
      BY <1>10, <2>3 DEF Release, Holders, TypeOK, ThreadsOK
    <3>3. Cardinality(Holders(d)') = Cardinality(Holders(d)) - 1
      BY <3>2, FS_RemoveElement, HoldersFinite
    <3> QED
      BY <1>2, <1>3, <1>4, <3>1, <3>3
  <2>4. CASE d # domain[t]
    <3>1. Available(d)' = Available(d)
      BY <1>2, <2>1, <2>2, <2>4, WriteAvailable
    <3>2. Holders(d)' = Holders(d)
      BY <1>10, <2>4 DEF Release, Holders, TypeOK, ThreadsOK
    <3> QED
      BY <1>2, <1>3, <3>1, <3>2
  <2> QED
    BY <2>3, <2>4
<1> QED
  BY <1>5, <1>6, <1>7, <1>8, <1>9, <1>10 DEF Next, Step

(***************************************************************************)
(* No slot is lost or duplicated by any interleaving of compare-exchange   *)
(* loops and SlotGuard destructors, however stale the values they load.    *)
(***************************************************************************)
THEOREM SlotsConserved == Spec => []SlotConservation
<1>1. TypeOK /\ SlotConservation /\ [Next]_vars => (TypeOK /\ SlotConservation)'
  BY TypeStep, ConservationStep
<1> QED
  BY <1>1, TypeInit, ConservationInit, PTL DEF Spec
-----------------------------------------------------------------------------
\* Under the refinement mapping, the holders of a domain are its callbacks.
LEMMA MappedHolders ==
  ASSUME TypeOK, NEW d \in Domains
  PROVE  Pool!HoldersOf(d) = Holders(d)
<1>1. d # NoDomain
  BY TopologiesAssumption, SizeMaxAssumption
     DEF TypeOK, CountersOK, IsTopology, Domains, SizeT, NoDomain, kNoSmcuDomain
<1> QED
  BY <1>1 DEF Pool!HoldersOf, Holders

\* The first state of the limiter is the first state of the pool.
LEMMA PoolInit == Init => Pool!Init
<1> SUFFICES ASSUME Init PROVE Pool!Init
  OBVIOUS
<1>1. \A d \in Domains : slot_count(topology, d) \in Nat \ {0}
  BY SlotCountPositive, TopologiesAssumption DEF Init, Domains
<1>2. [t \in Threads |-> IF pc[t] = "callback" THEN domain[t] ELSE NoDomain]
        = [t \in Threads |-> NoDomain]
  BY DEF Init
<1> QED
  BY <1>1, <1>2 DEF Pool!Init

\* Every step of the limiter takes a slot, gives one back or leaves the pool alone.
LEMMA PoolStep ==
  TypeOK /\ SlotConservation /\ [Next]_vars => [Pool!Next]_(Pool!vars)
<1> SUFFICES ASSUME TypeOK, SlotConservation, [Next]_vars
             PROVE  Pool!Next \/ UNCHANGED Pool!vars
  OBVIOUS
<1> DEFINE Held == [t \in Threads |-> IF pc[t] = "callback" THEN domain[t] ELSE NoDomain]
           Capacity == [d \in Domains |-> slot_count(topology, d)]
<1>1. UNCHANGED <<topology, slots_size>>
  BY DEF Next, Step, vars, TryToRun, Load, Reject, ExchangeSucceeds, ExchangeFails, Release
<1>2. Capacity' = Capacity
  BY <1>1 DEF Domains, slot_count
<1>3. ASSUME Held' = Held PROVE UNCHANGED Pool!vars
  BY <1>2, <1>3 DEF Pool!vars
<1>4. CASE UNCHANGED vars
  BY <1>3, <1>4 DEF vars
<1>5. ASSUME NEW t \in Threads, NEW cpu \in CpuReadings, TryToRun(t, cpu)
      PROVE  Held' = Held
  BY <1>5 DEF TryToRun, TypeOK, ThreadsOK
<1>6. ASSUME NEW t \in Threads, Load(t) \/ ExchangeFails(t) \/ Reject(t)
      PROVE  Held' = Held
  BY <1>6 DEF Load, ExchangeFails, Reject, TypeOK, ThreadsOK
<1>7. ASSUME NEW t \in Threads, ExchangeSucceeds(t)
      PROVE  Pool!Next
  <2>1. PICK d \in Domains : d = domain[t]
    BY <1>7 DEF ExchangeSucceeds, TypeOK, ThreadsOK
  <2>2. Available(d) = slots[t] /\ slots[t] > 0 /\ slots[t] \in Nat
    BY <1>7, <2>1 DEF ExchangeSucceeds, TypeOK, ThreadsOK
  <2>3. Cardinality(Holders(d)) < slot_count(topology, d)
    BY <2>2, HoldersFinite DEF SlotConservation
  <2>4. Pool!Cardinality(Pool!HoldersOf(d)) < Capacity[d]
    <3>1. Pool!Cardinality(Holders(d)) = Cardinality(Holders(d))
      BY DEF Pool!Cardinality, Cardinality
    <3> QED
      BY <2>3, <3>1, MappedHolders
  <2>5. Held[t] = NoDomain
    BY <1>7 DEF ExchangeSucceeds
  <2>6. Held' = [Held EXCEPT ![t] = d]
    BY <1>7, <2>1 DEF ExchangeSucceeds, TypeOK, ThreadsOK
  <2>7. Pool!Acquire(t, d)
    BY <1>2, <2>4, <2>5, <2>6 DEF Pool!Acquire
  <2> QED
    BY <2>7 DEF Pool!Next
<1>8. ASSUME NEW t \in Threads, Release(t)
      PROVE  Pool!Next
  <2>1. domain[t] \in Domains
    BY <1>8 DEF Release, TypeOK, ThreadsOK
  <2>2. domain[t] # NoDomain
    BY <2>1, TopologiesAssumption, SizeMaxAssumption
       DEF TypeOK, CountersOK, IsTopology, Domains, SizeT, NoDomain, kNoSmcuDomain
  <2>3. Held[t] # NoDomain
    BY <1>8, <2>2 DEF Release
  <2>4. Held' = [Held EXCEPT ![t] = NoDomain]
    BY <1>8 DEF Release, TypeOK, ThreadsOK
  <2>5. Pool!Release(t)
    BY <1>2, <2>3, <2>4 DEF Pool!Release
  <2> QED
    BY <2>5 DEF Pool!Next
<1> QED
  BY <1>3, <1>4, <1>5, <1>6, <1>7, <1>8 DEF Next, Step

(***************************************************************************)
(* The lock-free limiter implements the slot pool: a successful exchange   *)
(* is an Acquire of a free slot, a SlotGuard destructor is a Release, and  *)
(* everything else the limiter does is invisible.                          *)
(***************************************************************************)
THEOREM LimiterImplementsPool == Spec => ImplementsPool
<1>1. TypeOK /\ SlotConservation /\ [Next]_vars => (TypeOK /\ SlotConservation)'
  BY TypeStep, ConservationStep
<1> QED
  BY <1>1, TypeInit, ConservationInit, PoolInit, PoolStep, PTL
     DEF Spec, ImplementsPool, Pool!Spec
-----------------------------------------------------------------------------
\* At first a counter has one value, its slot count, written by no thread.
LEMMA HistoryInit == Init => WriteHistory
<1> SUFFICES ASSUME Init PROVE WriteHistory
  OBVIOUS
<1>1. \A d \in Domains : slot_count(topology, d) \in Nat /\ slot_count(topology, d) > 0
  BY SlotCountPositive, TopologiesAssumption DEF Init, Domains
<1>2. \A d \in Domains : /\ Len(available_slots[d]) = 1
                         /\ available_slots[d][1].writer = NoThread
                         /\ available_slots[d][1].value > 0
  BY <1>1 DEF Init
<1>3. InitialWrites
  BY <1>2 DEF InitialWrites
<1>4. OwnWrites
  BY <1>2, ThreadsAssumption DEF OwnWrites, Init
<1>5. LastRead
  BY DEF LastRead, Init
<1> QED
  BY <1>3, <1>4, <1>5 DEF WriteHistory

\* Every step keeps what a thread may read of its own writes positive, unless it
\* is in its callback.
LEMMA HistoryStep ==
  TypeOK /\ WriteHistory /\ [Next]_vars => WriteHistory'
<1> SUFFICES ASSUME TypeOK, OwnWrites, InitialWrites, LastRead, [Next]_vars
             PROVE  OwnWrites' /\ InitialWrites' /\ LastRead'
  BY DEF WriteHistory
<1>1. Domains' = Domains
  BY DEF Next, Step, vars, TryToRun, Load, Reject, ExchangeSucceeds, ExchangeFails,
         Release, Domains
<1>2. \A d \in Domains : Len(available_slots[d]) \in Nat \ {0}
  BY AvailableType
<1>3. \A u \in Threads, d \in Domains :
        /\ seen[u][d] \in Nat \ {0}
        /\ seen[u][d] <= Len(available_slots[d])
  BY DEF TypeOK, CountersOK
<1>4. CASE UNCHANGED vars
  BY <1>4, <1>1 DEF vars, OwnWrites, InitialWrites, LastRead
<1>5. ASSUME NEW t \in Threads, NEW cpu \in CpuReadings, TryToRun(t, cpu)
      PROVE  OwnWrites' /\ InitialWrites' /\ LastRead'
  BY <1>5, <1>1 DEF TryToRun, OwnWrites, InitialWrites, LastRead, TypeOK, ThreadsOK
<1>6. ASSUME NEW t \in Threads, Reject(t)
      PROVE  OwnWrites' /\ InitialWrites' /\ LastRead'
  BY <1>6, <1>1 DEF Reject, OwnWrites, InitialWrites, LastRead, TypeOK, ThreadsOK
<1>7. ASSUME NEW t \in Threads, Load(t) \/ ExchangeFails(t)
      PROVE  OwnWrites' /\ InitialWrites' /\ LastRead'
  <2>1. domain[t] \in Domains /\ pc[t] # "callback"
    BY <1>7 DEF Load, ExchangeFails, TypeOK, ThreadsOK
  <2>2. PICK i \in Readable(t) : Read(t, i)
    BY <1>7 DEF Load, ExchangeFails
  <2>3. /\ UNCHANGED <<available_slots, domain>>
        /\ \A u \in Threads : u # t => pc'[u] = pc[u]
        /\ pc'[t] # "callback"
    BY <1>7 DEF Load, ExchangeFails, TypeOK, ThreadsOK
  <2>4. /\ i >= seen[t][domain[t]] /\ i \in 1..Len(available_slots[domain[t]])
        /\ seen'[t][domain[t]] = i
        /\ slots'[t] = available_slots[domain[t]][i].value
    BY <2>1, <2>2, ReadEffect
  <2>5. /\ \A u \in Threads, d \in Domains :
             (u # t \/ d # domain[t]) => seen'[u][d] = seen[u][d]
        /\ \A u \in Threads : u # t => slots'[u] = slots[u]
    BY <2>1, <2>2, ReadEffect
  <2>6. \A u \in Threads, d \in Domains :
          seen'[u][d] \in Nat /\ seen'[u][d] >= seen[u][d]
    BY <1>3, <2>4, <2>5
  <2>7. OwnWrites'
    <3> SUFFICES ASSUME NEW u \in Threads, NEW d \in Domains,
                        NEW k \in seen'[u][d]..Len(available_slots[d]),
                        available_slots[d][k].writer = u
                 PROVE  \/ available_slots[d][k].value > 0
                        \/ pc'[u] = "callback" /\ domain[u] = d
      BY <1>1, <2>3 DEF OwnWrites
    <3>1. k \in seen[u][d]..Len(available_slots[d])
      BY <1>2, <1>3, <2>6
    <3> QED
      BY <2>1, <2>3, <3>1 DEF OwnWrites
  <2>8. InitialWrites'
    BY <1>1, <2>3 DEF InitialWrites
  <2>9. LastRead'
    BY <2>3, <2>4, <2>5 DEF LastRead, TypeOK, ThreadsOK
  <2> QED
    BY <2>7, <2>8, <2>9
<1>8. ASSUME NEW t \in Threads, NEW v \in Nat, Write(t, v), domain[t] \in Domains,
             UNCHANGED <<domain, slots>>,
             \A u \in Threads : u # t => pc'[u] = pc[u],
             pc'[t] # "exchange",
             v > 0 \/ pc'[t] = "callback"
      PROVE  OwnWrites' /\ InitialWrites' /\ LastRead'
  <2> DEFINE n == Len(available_slots[domain[t]]) + 1
  <2>0. \A d \in Domains :
          /\ Len(available_slots'[d]) =
               IF d = domain[t] THEN Len(available_slots[d]) + 1
                                ELSE Len(available_slots[d])
          /\ \A i \in 1..Len(available_slots[d]) :
               available_slots'[d][i] = available_slots[d][i]
    BY <1>8, WriteEffect
  <2>1. \A d \in Domains : Len(available_slots'[d]) =
          IF d = domain[t] THEN Len(available_slots[d]) + 1 ELSE Len(available_slots[d])
    BY <2>0
  <2>2. \A d \in Domains : \A k \in 1..Len(available_slots[d]) :
          available_slots'[d][k] = available_slots[d][k]
    BY <2>0
  <2>3. available_slots'[domain[t]][n] = [value |-> v, writer |-> t] /\ seen'[t][domain[t]] = n
    BY <1>8, WriteEffect
  <2>4. \A u \in Threads, d \in Domains :
          (u # t \/ d # domain[t]) => seen'[u][d] = seen[u][d]
    BY <1>8, WriteEffect
  <2>5. ASSUME NEW d \in Domains, NEW k \in 1..Len(available_slots'[d])
        PROVE  \/ k \in 1..Len(available_slots[d])
               \/ d = domain[t] /\ k = n
    BY <1>2, <2>1
  <2>6. n \in Nat
    BY <1>2, <1>8
  <2> HIDE DEF n
  <2>7. OwnWrites'
    <3> SUFFICES ASSUME NEW u \in Threads, NEW d \in Domains,
                        NEW k \in seen'[u][d]..Len(available_slots'[d]),
                        available_slots'[d][k].writer = u
                 PROVE  \/ available_slots'[d][k].value > 0
                        \/ pc'[u] = "callback" /\ domain[u] = d
      BY <1>1, <1>8 DEF OwnWrites
    <3>1. CASE d = domain[t] /\ k = n
      BY <1>8, <2>3, <3>1
    <3>2. CASE ~(d = domain[t] /\ k = n)
      <4>1. u # t \/ d # domain[t]
        BY <2>1, <2>3, <2>6, <3>2, <1>2 DEF n
      <4>2. k \in seen[u][d]..Len(available_slots[d])
        BY <1>2, <1>3, <2>1, <2>4, <2>6, <3>2, <4>1, SMTT(30) DEF n
      <4>3. k \in 1..Len(available_slots[d])
        BY <1>2, <1>3, <4>2
      <4>4. available_slots'[d][k] = available_slots[d][k]
        BY <2>2, <4>3
      <4>5. \/ available_slots[d][k].value > 0
            \/ pc[u] = "callback" /\ domain[u] = d
        BY <4>2, <4>4 DEF OwnWrites
      <4>6. CASE u # t
        BY <1>8, <4>4, <4>5, <4>6
      <4>7. CASE u = t
        BY <4>1, <4>4, <4>5, <4>7
      <4> QED
        BY <4>6, <4>7
    <3> QED
      BY <3>1, <3>2
  <2>8. InitialWrites'
    <3> SUFFICES ASSUME NEW d \in Domains, NEW k \in 1..Len(available_slots'[d]),
                        available_slots'[d][k].writer = NoThread
                 PROVE  available_slots'[d][k].value > 0
      BY <1>1 DEF InitialWrites
    <3>1. CASE k \in 1..Len(available_slots[d])
      BY <2>2, <3>1 DEF InitialWrites
    <3>2. CASE d = domain[t] /\ k = n
      BY <2>3, <3>2, ThreadsAssumption
    <3> QED
      BY <2>5, <3>1, <3>2
  <2>9. LastRead'
    <3> SUFFICES ASSUME NEW u \in Threads, pc'[u] = "exchange"
                 PROVE  slots[u] = available_slots'[domain[u]][seen'[u][domain[u]]].value
      BY <1>8 DEF LastRead
    <3>1. u # t /\ pc[u] = "exchange" /\ domain[u] \in Domains
      BY <1>8 DEF TypeOK, ThreadsOK
    <3>2. seen'[u][domain[u]] = seen[u][domain[u]]
          /\ seen[u][domain[u]] \in 1..Len(available_slots[domain[u]])
      BY <1>2, <1>3, <2>4, <3>1
    <3> QED
      BY <2>2, <3>1, <3>2 DEF LastRead
  <2> QED
    BY <2>7, <2>8, <2>9
<1>9. ASSUME NEW t \in Threads, ExchangeSucceeds(t)
      PROVE  OwnWrites' /\ InitialWrites' /\ LastRead'
  BY <1>8, <1>9 DEF ExchangeSucceeds, TypeOK, ThreadsOK
<1>10. ASSUME NEW t \in Threads, Release(t)
       PROVE  OwnWrites' /\ InitialWrites' /\ LastRead'
  <2>1. domain[t] \in Domains
    BY <1>10 DEF Release, TypeOK, ThreadsOK
  <2>2. Available(domain[t]) + 1 \in Nat /\ Available(domain[t]) + 1 > 0
    BY <2>1, AvailableType
  <2> QED
    BY <1>8, <1>10, <2>1, <2>2 DEF Release, TypeOK, ThreadsOK
<1> QED
  BY <1>4, <1>5, <1>6, <1>7, <1>9, <1>10 DEF Next, Step

\* What the history of writes means for a thread that is about to give up.
LEMMA HistoryImpliesRejected ==
  TypeOK /\ WriteHistory => RejectedByAnother
<1> SUFFICES ASSUME TypeOK, WriteHistory, NEW t \in Threads,
                    pc[t] = "exchange", slots[t] = 0
             PROVE  available_slots[domain[t]][seen[t][domain[t]]].writer
                      \notin {t, NoThread}
  BY DEF RejectedByAnother
<1>1. domain[t] \in Domains
  BY DEF TypeOK, ThreadsOK
<1>2. /\ Len(available_slots[domain[t]]) \in Nat
      /\ seen[t][domain[t]] \in Nat \ {0}
      /\ seen[t][domain[t]] <= Len(available_slots[domain[t]])
  BY <1>1, AvailableType DEF TypeOK, CountersOK
<1>3. seen[t][domain[t]] \in seen[t][domain[t]]..Len(available_slots[domain[t]])
      /\ seen[t][domain[t]] \in 1..Len(available_slots[domain[t]])
  BY <1>2
<1>4. available_slots[domain[t]][seen[t][domain[t]]].value = 0
  BY DEF WriteHistory, LastRead
<1> QED
  BY <1>1, <1>3, <1>4 DEF WriteHistory, OwnWrites, InitialWrites

(***************************************************************************)
(* A rejection is always another thread's doing: however stale a relaxed   *)
(* load is, a thread cannot be turned away by a counter value it wrote     *)
(* itself or by the initial one.                                           *)
(***************************************************************************)
THEOREM RejectionsCausedByOthers == Spec => []RejectedByAnother
<1>1. TypeOK /\ WriteHistory /\ [Next]_vars => (TypeOK /\ WriteHistory)'
  BY TypeStep, HistoryStep
<1> QED
  BY <1>1, TypeInit, HistoryInit, HistoryImpliesRejected, PTL DEF Spec
-----------------------------------------------------------------------------
(***************************************************************************)
(* The choice of backends.                                                 *)
(***************************************************************************)
Sme == {"sme", "sme2"}

(***************************************************************************)
(* The inductive invariant: it is the pointers that have to be right, at   *)
(* any time, since a batch runs what they point to.                        *)
(***************************************************************************)
PointersSupported ==
  \A a \in Apis : /\ api[a] \in machine.features \cup {"neon"}
                  /\ api_sme[a] \in machine.features \cup {"neon"}

DefaultWithoutSme == ~prefer_sme => \A a \in Apis : api[a] \notin Sme

DispatchInv ==
  /\ DispatchTypeOK /\ PointersSupported /\ DefaultWithoutSme
  /\ BackendSupported /\ SmeOnlyWithSlot /\ HybridHasLimiter
-----------------------------------------------------------------------------
\* A resolver returns Neon or a usable backend of its list.
LEMMA FirstUsableResult ==
  ASSUME NEW a, NEW order \in {<<"sve2">>, <<"sme2", "sme", "sve2">>}
  PROVE  \/ FirstUsable(a, order) = "neon"
         \/ \E i \in 1..Len(order) : /\ FirstUsable(a, order) = order[i]
                                     /\ Usable(a, order[i])
<1> DEFINE usable == {i \in 1..Len(order) : Usable(a, order[i])}
           first == CHOOSE i \in usable : \A j \in usable : i <= j
<1>1. CASE usable = {}
  BY <1>1 DEF FirstUsable
<1>2. CASE usable # {}
  <2>1. Len(order) \in 1..3
    OBVIOUS
  <2>2. usable \subseteq 1..3
    BY <2>1
  <2> HIDE DEF usable
  <2>3. \E i \in usable : \A j \in usable : i <= j
    <3>1. CASE 1 \in usable
      BY <2>2, <3>1
    <3>2. CASE 1 \notin usable /\ 2 \in usable
      BY <2>2, <3>2
    <3>3. CASE 1 \notin usable /\ 2 \notin usable
      <4>1. \A i \in usable : i = 3
        BY <2>2, <3>3
      <4> QED
        BY <1>2, <4>1
    <3> QED
      BY <3>1, <3>2, <3>3
  <2>4. first \in usable
    BY <2>3
  <2>5. first \in 1..Len(order) /\ Usable(a, order[first])
    BY <2>4 DEF usable
  <2>6. FirstUsable(a, order) = order[first]
    BY <1>2 DEF FirstUsable, usable
  <2> QED
    BY <2>5, <2>6
<1> QED
  BY <1>1, <1>2

\* So it returns a backend the machine has, and the default resolver no SME
\* backend unless those are preferred.
LEMMA ResolverResults ==
  ASSUME DispatchTypeOK, NEW a \in Apis
  PROVE  /\ resolver_default(a) \in Backends
         /\ resolver_default(a) \in machine.features \cup {"neon"}
         /\ ~prefer_sme => resolver_default(a) \notin Sme
         /\ resolver_for_sme(a) \in Backends
         /\ resolver_for_sme(a) \in machine.features \cup {"neon"}
<1> DEFINE cpu == <<"sve2">>
           sme == <<"sme2", "sme", "sve2">>
<1>1. /\ Len(cpu) = 1 /\ cpu[1] = "sve2"
      /\ Len(sme) = 3 /\ sme[1] = "sme2" /\ sme[2] = "sme" /\ sme[3] = "sve2"
  OBVIOUS
<1>2. /\ FirstUsable(a, cpu) \in {"neon", "sve2"}
      /\ FirstUsable(a, cpu) # "neon" => Usable(a, FirstUsable(a, cpu))
  <2>1. \/ FirstUsable(a, cpu) = "neon"
        \/ \E i \in 1..Len(cpu) : FirstUsable(a, cpu) = cpu[i] /\ Usable(a, cpu[i])
    BY FirstUsableResult
  <2> HIDE DEF cpu
  <2> QED
    BY <1>1, <2>1
<1>3. /\ FirstUsable(a, sme) \in Backends
      /\ FirstUsable(a, sme) # "neon" => Usable(a, FirstUsable(a, sme))
  <2>1. \/ FirstUsable(a, sme) = "neon"
        \/ \E i \in 1..Len(sme) : FirstUsable(a, sme) = sme[i] /\ Usable(a, sme[i])
    BY FirstUsableResult
  <2> HIDE DEF sme
  <2> QED
    BY <1>1, <2>1 DEF Backends
<1>4. /\ resolver_for_sme(a) = FirstUsable(a, sme)
      /\ resolver_default(a) = IF prefer_sme THEN FirstUsable(a, sme) ELSE FirstUsable(a, cpu)
  BY DEF resolver_for_sme, resolver_default
<1> HIDE DEF cpu, sme
<1>5. \A b : Usable(a, b) => b \in machine.features
  BY DEF Usable
<1> QED
  BY <1>2, <1>3, <1>4, <1>5 DEF Backends, Sme

\* Before any initialiser has run everything is Neon.
LEMMA DispatchInvInit == DispatchInit => DispatchInv
<1> SUFFICES ASSUME DispatchInit PROVE DispatchInv
  OBVIOUS
<1>1. DispatchTypeOK
  BY DEF DispatchInit, DispatchTypeOK, Backends
<1>2. PointersSupported /\ DefaultWithoutSme
  BY DEF DispatchInit, PointersSupported, DefaultWithoutSme, Sme
<1>3. BackendSupported /\ SmeOnlyWithSlot /\ HybridHasLimiter
  BY <1>1 DEF DispatchInit, BackendSupported, SmeOnlyWithSlot, HybridHasLimiter
<1> QED
  BY <1>1, <1>2, <1>3 DEF DispatchInv

\* Initialisers, in any order, and batches between them keep the invariant.
LEMMA DispatchInvStep == DispatchInv /\ [DispatchNext]_dispatchVars => DispatchInv'
<1> SUFFICES ASSUME DispatchInv, [DispatchNext]_dispatchVars PROVE DispatchInv'
  OBVIOUS
<1> USE DEF DispatchInv, DispatchTypeOK, PointersSupported, DefaultWithoutSme, BackendSupported,
            SmeOnlyWithSlot, HybridHasLimiter
<1>1. ASSUME NEW a \in Apis, InitialiseApi(a) PROVE DispatchInv'
  <2>1. /\ resolver_default(a) \in Backends
        /\ resolver_default(a) \in machine.features \cup {"neon"}
        /\ ~prefer_sme => resolver_default(a) \notin Sme
        /\ resolver_for_sme(a) \in Backends
        /\ resolver_for_sme(a) \in machine.features \cup {"neon"}
    BY ResolverResults
  <2>2. /\ api' = [api EXCEPT ![a] = resolver_default(a)]
        /\ api_sme' = [api_sme EXCEPT ![a] = resolver_for_sme(a)]
        /\ initialised' \subseteq Apis
        /\ UNCHANGED <<machine, prefer_sme, limiter, dispatch, thread_init, last>>
    BY <1>1 DEF InitialiseApi
  <2> QED
    BY <2>1, <2>2
<1>2. CASE InitialiseLimiter
  BY <1>2 DEF InitialiseLimiter
<1>3. CASE InitialiseDispatch
  BY <1>3 DEF InitialiseDispatch, resolve_parallel_batches_dispatch
<1>4. ASSUME NEW a \in Apis, NEW accepted \in BOOLEAN, RunBatch(a, accepted)
      PROVE  DispatchInv'
  BY <1>4 DEF RunBatch, Sme
<1>5. CASE UNCHANGED dispatchVars
  BY <1>5 DEF dispatchVars
<1> QED
  BY <1>1, <1>2, <1>3, <1>4, <1>5 DEF DispatchNext

\* The invariant of the pointers holds at any time.
LEMMA DispatchInvariant == DispatchSpec => []DispatchInv
  BY DispatchInvInit, DispatchInvStep, PTL DEF DispatchSpec

(***************************************************************************)
(* A batch never runs code the machine cannot execute, at whatever point   *)
(* of the library's initialisation it runs.                                *)
(***************************************************************************)
THEOREM BackendIsSupported == DispatchSpec => []BackendSupported
<1>1. DispatchInv => BackendSupported
  BY DEF DispatchInv
<1> QED
  BY <1>1, DispatchInvariant, PTL

(***************************************************************************)
(* A batch runs SME code only under a slot, unless SME is preferred for    *)
(* single-threaded calls too; and no batch asks a limiter that is missing. *)
(***************************************************************************)
THEOREM SmeNeedsSlot == DispatchSpec => []SmeOnlyWithSlot
<1>1. DispatchInv => SmeOnlyWithSlot
  BY DEF DispatchInv
<1> QED
  BY <1>1, DispatchInvariant, PTL
=============================================================================
