----------------------------- MODULE MCShipment -----------------------------
(* Small instances of Shipment.                                            *)
EXTENDS Shipment, Naturals, TLC

CONSTANT MaxBacklog  \* BOUND: verbs committed and not yet executed

\* The ids of a table's rows are random uuids: interchangeable.
RowSymmetry == Permutations(StayId) \cup Permutations(LegId) \cup Permutations(ClaimId)

\* One event commits at most four verbs; a longer backlog is only the product
\* of several closed legs whose verbs all wait.
ShortBacklog == Cardinality(intents) <= MaxBacklog
=============================================================================
