-------------------------- MODULE MCParallelBatches --------------------------
(***************************************************************************)
(* Small instances of ParallelBatches.                                     *)
(***************************************************************************)
EXTENDS ParallelBatches, TLC

\* One domain with one slot, which the batches of all calls compete for.
MCOneSlot == {(0 :> 1)}

\* Or no domain: the limiter could not allocate its counters.
MCSlots == MCOneSlot \cup {<< >>}
=============================================================================
