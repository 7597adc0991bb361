----------------------------- MODULE LifoStack -----------------------------
(***************************************************************************)
(* What a stack promises: the container that Canny's hysteresis relies on. *)
(***************************************************************************)
EXTENDS Integers, Sequences

CONSTANT Values

VARIABLE items

Init == items = << >>

Push(v) == items' = Append(items, v)

Pop == items # << >> /\ items' = SubSeq(items, 1, Len(items) - 1)

Next == Pop \/ \E v \in Values : Push(v)

Spec == Init /\ [][Next]_items
=============================================================================
