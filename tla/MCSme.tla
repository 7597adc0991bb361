------------------------------- MODULE MCSme -------------------------------
(***************************************************************************)
(* What decides where SME code runs: the limiter, the detection of the     *)
(* topology it works on, and the choice of backends.  A behaviour is about *)
(* one of them, named by component; the others rest.  Three threads        *)
(* compete for the slots of three topologies.  A size_t is 0..5; detection *)
(* has lists that are well formed, sparse, malformed, duplicated or too    *)
(* large to count, and the register values that its cases tell apart;      *)
(* dispatch has one function per kind of registration, on machines with    *)
(* every combination of features.                                          *)
(***************************************************************************)
EXTENDS SmeThreadLimiter, SmcuTopologyDetect, Dispatch, TLC

VARIABLE component

allVars == <<component, vars, detectVars, dispatchVars>>
-----------------------------------------------------------------------------
Info(affinity, count, shared) ==
  [affinity |-> affinity, slot_count |-> count, shared |-> shared]

\* CPUs 0 and 2 share a domain of two slots, CPU 1 is absent, CPU 3 has a
\* domain of its own and CPU 4 is not allowed.
Mixed ==
  [cpu_count |-> 5,
   cpu_to_domain |-> (0 :> 0 @@ 1 :> kNoSmcuDomain @@ 2 :> 0 @@ 3 :> 1 @@ 4 :> 1),
   cpu_allowed |-> (0 :> TRUE @@ 1 :> FALSE @@ 2 :> TRUE @@ 3 :> TRUE @@ 4 :> FALSE),
   domain_count |-> 2,
   domains |-> (0 :> Info(4, 2, TRUE) @@ 1 :> Info(0, 1, FALSE))]

\* One CPU, one slot: every pair of attempts competes.
Single ==
  [cpu_count |-> 1, cpu_to_domain |-> (0 :> 0), cpu_allowed |-> (0 :> TRUE),
   domain_count |-> 1, domains |-> (0 :> Info(0, 1, FALSE))]

\* One shared domain with two slots.
Pair ==
  [cpu_count |-> 1, cpu_to_domain |-> (0 :> 0), cpu_allowed |-> (0 :> TRUE),
   domain_count |-> 1, domains |-> (0 :> Info(7, 2, TRUE))]

MCTopologies == {Mixed, Single, Pair}

MCOnlineFiles ==
  { << >>,                   \* cannot be read
    << <<0, 2>> >>,          \* 0-2
    << <<0, 1>>, <<4>> >>,   \* 0-1,4
    << <<3>>, <<1>> >>,      \* 3,1
    << <<0>>, <<0>> >>,      \* 0,0
    << <<1>>, << >> >>,      \* 1,x
    << <<2, 1>> >>,          \* 2-1
    << <<0, 5>> >>,          \* the span is SIZE_MAX
    << <<0, 4>>, <<2>> >>,   \* more ids than a size_t counts
    << <<5>> >> }            \* the id is SIZE_MAX

MCMidrs == {[implementer |-> 65, part |-> 3467],   \* Arm C1-Pro
            [implementer |-> 65, part |-> 3468],   \* Arm C1-Ultra
            [implementer |-> 81, part |-> 1]}

Smidr(sh, affinity, affinity2, nsmc) ==
  [sh |-> sh, affinity |-> affinity, affinity2 |-> affinity2, nsmc |-> nsmc]

MCSmidrs ==
  { Smidr(3, 1, 0, 0),    \* shared
    Smidr(3, 1, 1, 0),    \* shared, same low affinity, other SMCUs
    Smidr(3, 1, 0, 1),    \* shared with the first, conflicting count
    Smidr(3, 0, 0, 1),    \* shared, affinity zero
    Smidr(2, 1, 0, 1),    \* unshared, nonzero affinity
    Smidr(0, 0, 1, 0),    \* legacy encoding, unshared
    Smidr(0, 1, 0, 0),    \* legacy encoding, shared with the first
    Smidr(1, 1, 0, 0),    \* reserved sharing
    Smidr(3, 1, 0, 15) }  \* reserved count

MCApis == {"exp", "min_max", "resize_stripe"}
MCImpls == [a \in MCApis |->
              CASE a = "exp" -> {"sve2", "sme", "sme2"}
                [] a = "min_max" -> {"sme"}
                [] OTHER -> {"sve2", "sme", "sme2"}]
MCVeclen == {"resize_stripe"}
MCMachines ==
  {m \in [features : SUBSET {"sve2", "sme", "sme2"},
          lengths_match : {{}, {"sve2"}, {"sme"}, {"sme", "sme2"}}] :
     /\ m.lengths_match \subseteq m.features
     /\ "sme2" \in m.features => "sme" \in m.features}
-----------------------------------------------------------------------------
\* The limiter after its last call, detection before its first step, and
\* dispatch before any initialiser on a machine without extensions.
LimiterRests ==
  /\ topology = Single /\ slots_size = 1
  /\ available_slots = [d \in {0} |-> <<[value |-> 1, writer |-> NoThread]>>]
  /\ seen = [t \in Threads |-> [d \in {0} |-> 1]]
  /\ pc = [t \in Threads |-> "idle"]
  /\ domain = [t \in Threads |-> 0] /\ slots = [t \in Threads |-> 0]
  /\ calls = MaxCalls
DetectRests == file = << >> /\ DetectInit
DispatchRests ==
  /\ machine = [features |-> {}, lengths_match |-> {}] /\ prefer_sme = FALSE
  /\ DispatchInit

MCInit ==
  \/ component = "limiter" /\ Init /\ DetectRests /\ DispatchRests
  \/ component = "detect" /\ LimiterRests /\ DetectInit /\ DispatchRests
  \/ component = "dispatch" /\ LimiterRests /\ DetectRests /\ DispatchInit

LimiterStep ==
  /\ component = "limiter" /\ Next
  /\ UNCHANGED <<component, detectVars, dispatchVars>>
DetectStep ==
  /\ component = "detect" /\ DetectNext
  /\ UNCHANGED <<component, vars, dispatchVars>>
DispatchStep ==
  /\ component = "dispatch" /\ DispatchNext
  /\ UNCHANGED <<component, vars, detectVars>>

MCSpec ==
  /\ MCInit
  /\ [][LimiterStep \/ DetectStep \/ DispatchStep]_allVars
  /\ Fairness
=============================================================================
