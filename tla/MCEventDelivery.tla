--------------------------- MODULE MCEventDelivery ---------------------------
(* Small instances of EventDelivery for TLC. *)
EXTENDS EventDeliveryProperties

CONSTANTS e1, e2

AllInOne == [e \in Events |-> 1]

Alike == Permutations(Workers) \cup Permutations(Events)
=============================================================================
