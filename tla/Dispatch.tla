------------------------------ MODULE Dispatch ------------------------------
(***************************************************************************)
(* Backend selection.  Every multiversioned C API function is a pointer    *)
(* that is constant-initialised to its Neon implementation and overwritten *)
(* by a dynamic initialiser when the library is loaded (kleidicv/include/  *)
(* kleidicv/dispatch.h); so is the pointer that decides whether threaded   *)
(* calls may try SME at all (kleidicv_thread.cpp).  Initialisers of        *)
(* different translation units run in no particular order, and another     *)
(* library's initialiser may call KleidiCV in between.                     *)
(***************************************************************************)
EXTENDS Integers, Sequences

CONSTANTS
  Apis,         \* multiversioned functions
  Impls,        \* Impls[a]: the backends but Neon that a was built with
  Veclen,       \* the functions whose vector backends need one vector length
  Machines      \* [features, lengths_match]: sets of backends

Backends == {"neon", "sve2", "sme", "sme2"}

ASSUME DispatchAssumption ==
  /\ Impls \in [Apis -> SUBSET (Backends \ {"neon"})]
  /\ Veclen \subseteq Apis
  \* is_sme2_supported checks is_sme_supported too.
  /\ \A m \in Machines : /\ m.features \subseteq Backends \ {"neon"}
                         /\ m.lengths_match \subseteq m.features
                         /\ "sme2" \in m.features => "sme" \in m.features

VARIABLES
  machine,        \* what getauxval, svcntb_sve and svcntb_sme tell
  prefer_sme,     \* KLEIDICV_PREFER_SME_BACKEND is "ON"
  api,            \* api_name
  api_sme,        \* api_name_sme
  initialised,    \* functions whose initialiser has run
  limiter,        \* kSmeThreadLimiter: "zero" before its initialiser has run
  dispatch,       \* kParallelBatchesDispatch
  thread_init,    \* kParallelBatchesDispatchInitializer has run
  last            \* the last batch of a threaded call: [backend, accepted]

dispatchVars == <<machine, prefer_sme, api, api_sme, initialised, limiter,
                  dispatch, thread_init, last>>
-----------------------------------------------------------------------------

\* Mutant: SME2 is selected on every machine with SME.
Usable_Sme2IfSme(a, b) ==
  /\ b \in Impls[a]
  /\ (IF b = "sme2" THEN "sme" ELSE b) \in machine.features
  /\ a \in Veclen => b \in machine.lengths_match

\* KLEIDICV_*_RESOLVE and KLEIDICV_*_RESOLVE_VECLEN: b is built, supported by
\* the machine and, where it matters, has the vector length it was built for.
Usable(a, b) ==
  /\ b \in Impls[a]
  /\ b \in machine.features
  /\ a \in Veclen => b \in machine.lengths_match

\* The resolvers try backends in order and end with Neon.
FirstUsable(a, order) ==
  LET usable == {i \in 1..Len(order) : Usable(a, order[i])}
  IN  IF usable = {} THEN "neon"
                     ELSE order[CHOOSE i \in usable : \A j \in usable : i <= j]

\* Mutant: the default form prefers SME.
resolver_default_Sme(a) == FirstUsable(a, <<"sme2", "sme", "sve2">>)

resolver_default(a) ==
  FirstUsable(a, IF prefer_sme THEN <<"sme2", "sme", "sve2">> ELSE <<"sve2">>)

resolver_for_sme(a) == FirstUsable(a, <<"sme2", "sme", "sve2">>)

DispatchInit ==
  /\ machine \in Machines
  /\ prefer_sme \in BOOLEAN
  /\ api = [a \in Apis |-> "neon"]
  /\ api_sme = [a \in Apis |-> "neon"]
  /\ initialised = {}
  /\ limiter = "zero"
  /\ dispatch = "cpu_only"
  /\ thread_init = FALSE
  /\ last = [backend |-> "neon", accepted |-> FALSE]

\* api_name_dispatch_initializer
InitialiseApi(a) ==
  /\ a \notin initialised
  /\ api' = [api EXCEPT ![a] = resolver_default(a)]
  /\ api_sme' = [api_sme EXCEPT ![a] = resolver_for_sme(a)]
  /\ initialised' = initialised \cup {a}
  /\ UNCHANGED <<machine, prefer_sme, limiter, dispatch, thread_init, last>>

\* kSmeThreadLimiter = create_sme_thread_limiter(), see SmcuTopologyDetect.
InitialiseLimiter ==
  /\ limiter = "zero"
  /\ limiter' \in {"null", "created"}
  /\ UNCHANGED <<machine, prefer_sme, api, api_sme, initialised, dispatch, thread_init,
                 last>>

\* kParallelBatchesDispatchInitializer.  It is defined after kSmeThreadLimiter
\* in the same translation unit, so it is initialised after it.
resolve_parallel_batches_dispatch ==
  IF "sme" \in machine.features /\ limiter = "created" THEN "hybrid" ELSE "cpu_only"

InitialiseDispatch ==
  /\ limiter # "zero"
  /\ ~thread_init
  /\ dispatch' = resolve_parallel_batches_dispatch
  /\ thread_init' = TRUE
  /\ UNCHANGED <<machine, prefer_sme, api, api_sme, initialised, limiter, last>>

\* A batch of a threaded call of a, at any time.  Under parallel_batches_hybrid
\* the limiter is asked, and may accept or not.
RunBatch(a, accepted) ==
  /\ accepted => dispatch = "hybrid"
  /\ last' = [backend |-> IF accepted THEN api_sme[a] ELSE api[a], accepted |-> accepted]
  /\ UNCHANGED <<machine, prefer_sme, api, api_sme, initialised, limiter, dispatch,
                 thread_init>>

DispatchNext ==
  \/ \E a \in Apis : InitialiseApi(a)
  \/ InitialiseLimiter
  \/ InitialiseDispatch
  \/ \E a \in Apis, accepted \in BOOLEAN : RunBatch(a, accepted)

DispatchSpec == DispatchInit /\ [][DispatchNext]_dispatchVars
-----------------------------------------------------------------------------
DispatchTypeOK ==
  /\ machine \in Machines
  /\ prefer_sme \in BOOLEAN
  /\ api \in [Apis -> Backends]
  /\ api_sme \in [Apis -> Backends]
  /\ initialised \subseteq Apis
  /\ limiter \in {"zero", "null", "created"}
  /\ dispatch \in {"cpu_only", "hybrid"}
  /\ thread_init \in BOOLEAN
  /\ last \in [backend : Backends, accepted : BOOLEAN]

(***************************************************************************)
(* A batch never runs code the machine cannot execute, at whatever point   *)
(* of the library's initialisation it runs.                                *)
(***************************************************************************)
BackendSupported ==
  /\ DispatchTypeOK
  /\ last.backend \in machine.features \cup {"neon"}

(***************************************************************************)
(* The hybrid dispatcher dereferences the limiter without a check: it must *)
(* never be selected while the limiter is missing or not initialised yet.  *)
(***************************************************************************)
HybridHasLimiter == dispatch = "hybrid" => limiter = "created"

(***************************************************************************)
(* doc/overview.md: threaded work uses SME only under a slot.  The CPU     *)
(* path of a batch that was not accepted never runs SME code, unless       *)
(* KLEIDICV_PREFER_SME_BACKEND is set, which the doc advises against.  And *)
(* there is always a limiter to ask for the slot.                          *)
(***************************************************************************)
SmeOnlyWithSlot ==
  /\ last.backend \in {"sme", "sme2"} /\ ~prefer_sme => last.accepted
  /\ HybridHasLimiter
=============================================================================
