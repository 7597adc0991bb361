------------------------------ MODULE SmeSlots ------------------------------
(***************************************************************************)
(* What the SME thread limiter promises (doc/overview.md, "Multithreaded   *)
(* APIs"): each SMCU domain has a fixed number of slots, SME work runs     *)
(* only while it holds one of them, and never more work items hold a       *)
(* domain's slots than the domain has.  How a slot is found, and when an   *)
(* attempt gives up, is left to the implementation.                        *)
(***************************************************************************)
EXTENDS Naturals, FiniteSets

CONSTANTS Threads,      \* threads that run work items
          NoDomain      \* the value of held[t] when t runs no SME work

VARIABLES capacity,     \* slots of each domain, fixed when the limiter is built
          held          \* domain whose slot each thread holds, or NoDomain

vars == <<capacity, held>>

HoldersOf(d) == {t \in Threads : held[t] = d}

Init ==
  /\ \A d \in DOMAIN capacity : capacity[d] \in Nat \ {0}
  /\ held = [t \in Threads |-> NoDomain]

Acquire(t, d) ==
  /\ held[t] = NoDomain
  /\ Cardinality(HoldersOf(d)) < capacity[d]
  /\ held' = [held EXCEPT ![t] = d]
  /\ UNCHANGED capacity

Release(t) ==
  /\ held[t] # NoDomain
  /\ held' = [held EXCEPT ![t] = NoDomain]
  /\ UNCHANGED capacity

Next ==
  \E t \in Threads : \/ \E d \in DOMAIN capacity : Acquire(t, d)
                     \/ Release(t)

Spec == Init /\ [][Next]_vars
=============================================================================
