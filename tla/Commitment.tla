----------------------------- MODULE Commitment -----------------------------
(***************************************************************************)
(* What the coordinator promises of one conditional payment               *)
(* (packages/escrow/src/coordinator.ts, header): a payment goes            *)
(* created -> held -> settled or dead, where dead is cancelled or expired, *)
(* and may resolve straight from created.  Every transition that changes   *)
(* committed funds has its entry in the shadow ledger, posted before the   *)
(* row moves: the ledger may run ahead of the row by one transition, never *)
(* behind it, and never in two directions.                                 *)
(***************************************************************************)
VARIABLES
  status,  \* the payment's row
  ledger   \* its journal entries

vars == <<status, ledger>>

Open == {"created", "held"}

Init == status = "none" /\ ledger = {}

Create == status = "none" /\ status' = "created" /\ UNCHANGED ledger

RecordHeld == status = "created" /\ ledger = {} /\ ledger' = {"held"} /\ UNCHANGED status

Hold == status = "created" /\ "held" \in ledger /\ status' = "held" /\ UNCHANGED ledger

RecordOutcome ==
  /\ status \in Open
  /\ ledger = {"held"}
  /\ \E e \in {"settled", "refunded"} : ledger' = ledger \cup {e}
  /\ UNCHANGED status

Settle == status \in Open /\ "settled" \in ledger /\ status' = "settled" /\ UNCHANGED ledger

Die ==
  /\ status \in Open
  /\ ledger = {} \/ "refunded" \in ledger
  /\ status' = "dead"
  /\ UNCHANGED ledger

Next == Create \/ RecordHeld \/ Hold \/ RecordOutcome \/ Settle \/ Die

Spec == Init /\ [][Next]_vars
=============================================================================
