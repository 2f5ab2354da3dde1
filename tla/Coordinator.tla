---------------------------- MODULE Coordinator -----------------------------
(***************************************************************************)
(* One conditional payment in the hands of the preimage coordinator        *)
(* (packages/escrow/src/coordinator.ts): its row, its journal entries, the *)
(* hold invoice at the payee's wallet, and the calls that work on them.    *)
(* A call runs from one await to the next, so another process may act in   *)
(* between, and whatever it read before is stale by then.  Payments do     *)
(* not interact in this code.                                              *)
(*                                                                         *)
(* The observers run pollOnce and the two verbs (the worker, and every API *)
(* process that waits for a hold, reconciles or executes its intents); the *)
(* creators run createConditionalPayment.  A call may be cut short by a    *)
(* crash of its process or by a wallet that does not answer.               *)
(***************************************************************************)
EXTENDS Naturals

CONSTANTS
  Observer,     \* processes that poll and execute verbs
  Creator,      \* processes that create the payment
  HoldsDieLate, \* may a hold die although its release is committed?
  MaxFailures   \* BOUND: calls cut short

ASSUME ProcessesDisjoint == Observer \cap Creator = {}
ASSUME Bounds == MaxFailures \in Nat /\ HoldsDieLate \in BOOLEAN

VARIABLES
  row,         \* conditional_payments.state; "none" before the insert
  bolt11,      \* is the invoice stored in the row?
  ledger,      \* journal entries cp:<id>:<kind>
  wallet,      \* the invoice at the payee's wallet
  moved,       \* has the payee connected another wallet since it was issued?
  dispatched,  \* has the payer's wallet been told to pay?
  closed,      \* is the hold window over, grace included?
  decided,     \* the verb the executor committed for the payment
  intent,      \* is its escrow_intents row still there?
  task,        \* the call each process is in
  pc,          \* where it is in that call
  seen,        \* the row state the call has read
  cause,       \* what a resolution will be recorded as
  failures     \* calls cut short so far

payment == <<row, bolt11, ledger>>
outside == <<wallet, moved, dispatched, closed>>
orders  == <<decided, intent>>
locals  == <<task, pc, seen, cause>>
vars    == <<payment, outside, orders, locals, failures>>

Process  == Observer \cup Creator
Open     == {"created", "held"}
Dead     == {"cancelled", "expired"}
RowState == {"none", "settled"} \cup Open \cup Dead
Invoice  == {"none", "open", "held", "settled", "cancelled", "expired"}
Entry    == {"held", "settled", "refunded"}
Verb     == {"release", "refund"}
Task     == {"none", "create", "poll"} \cup Verb
Step     == {"idle", "make", "store", "pay", "lookup", "close", "reveal", "cancel",
             "post_held", "flip_held", "commit_first", "post_settled", "flip_settled",
             "was_held", "post_refunded", "flip_dead", "forget"}

-----------------------------------------------------------------------------
(* Control of a call *)

Goto(a, step) == pc' = [pc EXCEPT ![a] = step]
At(a, step)   == pc[a] = step

\* The calls of the executor and of the retry delete the intent when the verb
\* has returned; a poll just ends.
Finish(a) == IF task[a] \in Verb THEN "forget" ELSE "idle"

\* A wallet is resolved by its user at the moment of the call.
Reachable == wallet # "none" /\ ~ moved

\* A call begins by reading the row.
Begin(a, call, step) ==
  /\ At(a, "idle")
  /\ task' = [task EXCEPT ![a] = call]
  /\ seen' = [seen EXCEPT ![a] = row']
  /\ Goto(a, step)

-----------------------------------------------------------------------------
(* createConditionalPayment, resumable under its idempotency key *)

\* The insert does nothing when the key exists, and then the row is read.
Create(a) ==
  /\ a \in Creator
  /\ row' = IF row = "none" THEN "created" ELSE row
  /\ Begin(a, "create", IF bolt11 THEN "pay" ELSE "make")
  /\ UNCHANGED <<bolt11, ledger, outside, orders, cause, failures>>

\* A wallet refuses a second invoice with the same payment hash.
MakeInvoice(a) ==
  /\ At(a, "make")
  /\ \/ wallet = "none" /\ wallet' = "open" /\ Goto(a, "store")
     \/ wallet # "none" /\ UNCHANGED wallet /\ Goto(a, "idle")
  /\ UNCHANGED <<payment, moved, dispatched, closed, orders, task, seen, cause, failures>>

StoreInvoice(a) ==
  /\ At(a, "store")
  /\ bolt11' = TRUE
  /\ Goto(a, "pay")
  /\ UNCHANGED <<row, ledger, outside, orders, task, seen, cause, failures>>

\* A failed dispatch does not fail the creation.
Pay(a) ==
  /\ At(a, "pay")
  /\ dispatched' = (dispatched \/ seen[a] = "created")
  /\ Goto(a, "idle")
  /\ UNCHANGED <<payment, wallet, moved, closed, orders, task, seen, cause, failures>>

-----------------------------------------------------------------------------
(* pollOnce and observe *)

Poll(a) ==
  /\ a \in Observer
  /\ row \in Open
  /\ UNCHANGED <<payment, outside, orders, cause, failures>>
  /\ Begin(a, "poll", "lookup")

\* Fault: a hold seen cancelled by its payee is dropped without a refund.
Observed_forgets_refund(a) ==
  IF ~ Reachable THEN "idle" ELSE
  CASE wallet = "held" /\ seen[a] = "created" -> "post_held"
    [] wallet = "settled" -> "commit_first"
    [] wallet \in Dead -> "flip_dead"
    [] wallet = "open" /\ closed -> "close"
    [] OTHER -> "idle"
\* Fault: an unpaid invoice is left to the wallet's own expiry.
Observed_never_closes(a) ==
  IF ~ Reachable THEN "idle" ELSE
  CASE wallet = "held" /\ seen[a] = "created" -> "post_held"
    [] wallet = "settled" -> "commit_first"
    [] wallet \in Dead -> "was_held"
    [] OTHER -> "idle"
\* What the state of the invoice makes of the row; an unknown invoice throws.
Observed(a) ==
  IF ~ Reachable THEN "idle" ELSE
  CASE wallet = "held" /\ seen[a] = "created" -> "post_held"
    [] wallet = "settled" -> "commit_first"
    [] wallet \in Dead -> "was_held"
    [] wallet = "open" /\ closed -> "close"
    [] OTHER -> "idle"

\* What a payment that dies now is recorded as.
Cause == IF wallet = "cancelled" /\ ~ closed THEN "cancelled" ELSE "expired"

Lookup(a) ==
  /\ At(a, "lookup")
  /\ Goto(a, Observed(a))
  /\ cause' = [cause EXCEPT ![a] = Cause]
  /\ UNCHANGED <<payment, outside, orders, task, seen, failures>>

\* Fault: the refund flips the row and leaves the hold at the wallet.
Cancelled_row_only == wallet
\* Cancelling is idempotent at the wallet; a hold that is settled stays so.
Cancelled == IF wallet \in {"open", "held"} THEN "cancelled" ELSE wallet

\* The wallet is lazy about expiry: the door is closed before the expiry is
\* recorded, and an error of the wallet is swallowed.
CloseLazy(a) ==
  /\ At(a, "close")
  /\ \/ ~ moved /\ wallet' = Cancelled /\ UNCHANGED failures
     \/ moved /\ UNCHANGED <<wallet, failures>>
     \/ failures < MaxFailures /\ failures' = failures + 1 /\ UNCHANGED wallet
  /\ Goto(a, "was_held")
  /\ UNCHANGED <<payment, moved, dispatched, closed, orders, task, seen, cause>>

-----------------------------------------------------------------------------
(* The two verbs *)

\* Fault: releasing what is settled already throws.
ReleaseFrom_held_only == IF row = "held" THEN "reveal" ELSE "idle"
\* Nothing to do for a settled payment; one that is not held throws.
ReleaseFrom ==
  CASE row = "settled" -> "forget" [] row = "held" -> "reveal" [] OTHER -> "idle"

Release(a) ==
  /\ a \in Observer
  /\ intent /\ decided = "release"
  /\ UNCHANGED <<payment, outside, orders, cause, failures>>
  /\ Begin(a, "release", ReleaseFrom)

\* Settling is idempotent at the wallet; a hold that is gone refuses.
Revealed == ~ moved /\ wallet \in {"held", "settled"}

Reveal(a) ==
  /\ At(a, "reveal")
  /\ wallet' = IF wallet = "held" /\ ~ moved THEN "settled" ELSE wallet
  /\ Goto(a, IF Revealed THEN "commit_first" ELSE "idle")
  /\ UNCHANGED <<payment, moved, dispatched, closed, orders, task, seen, cause, failures>>

Refund(a) ==
  /\ a \in Observer
  /\ intent /\ decided = "refund"
  /\ UNCHANGED <<payment, outside, orders, cause, failures>>
  /\ Begin(a, "refund",
           CASE row \in Dead -> "forget" [] row = "settled" -> "idle" [] OTHER -> "cancel")

CancelInvoice(a) ==
  /\ At(a, "cancel")
  /\ \/ Reachable /\ wallet # "settled" /\ wallet' = Cancelled /\ Goto(a, "was_held")
     \/ ~ (Reachable /\ wallet # "settled") /\ UNCHANGED wallet /\ Goto(a, "idle")
  /\ cause' = [cause EXCEPT ![a] = "cancelled"]
  /\ UNCHANGED <<payment, moved, dispatched, closed, orders, task, seen, failures>>

\* The verb has returned: its escrow_intents row is deleted.
Forget(a) ==
  /\ At(a, "forget")
  /\ intent' = FALSE
  /\ Goto(a, "idle")
  /\ UNCHANGED <<payment, outside, decided, task, seen, cause, failures>>

-----------------------------------------------------------------------------
(* markHeld, markSettled, markResolved: entries first, then the row *)

Post(a, entry, step) ==
  /\ ledger' = ledger \cup {entry}
  /\ Goto(a, step)
  /\ UNCHANGED <<row, bolt11, outside, orders, task, seen, cause, failures>>

\* A guarded update: it does nothing when another process has moved the row.
Flip(a, from, to, step) ==
  /\ row' = IF row \in from THEN to ELSE row
  /\ Goto(a, step)
  /\ UNCHANGED <<bolt11, ledger, outside, orders, task, seen, cause, failures>>

PostHeld(a)    == At(a, "post_held") /\ Post(a, "held", "flip_held")
FlipHeld(a)    == At(a, "flip_held") /\ Flip(a, {"created"}, "held", "idle")

CommitFirst(a) == At(a, "commit_first") /\ Post(a, "held", "post_settled")
PostSettled(a) == At(a, "post_settled") /\ Post(a, "settled", "flip_settled")
FlipSettled(a) == At(a, "flip_settled") /\ Flip(a, Open, "settled", Finish(a))

\* Fault: the row alone decides whether the hold was ever a commitment.
WasHeld_row_only(a) == seen[a] = "held"
WasHeld(a) == seen[a] = "held" \/ "held" \in ledger

CheckHeld(a) ==
  /\ At(a, "was_held")
  /\ Goto(a, IF WasHeld(a) THEN "post_refunded" ELSE "flip_dead")
  /\ UNCHANGED <<payment, outside, orders, task, seen, cause, failures>>

PostRefunded(a) == At(a, "post_refunded") /\ Post(a, "refunded", "flip_dead")
FlipDead(a)     == At(a, "flip_dead") /\ Flip(a, Open, cause[a], Finish(a))

-----------------------------------------------------------------------------
(* The executor's transaction: the intent with the machine's own entry *)

\* A release is committed for a hold that was recognised, alive unless
\* HoldsDieLate; a refund posts the entry of a hold that was recognised.
Decide(v) ==
  /\ decided = "none"
  /\ decided' = v
  /\ intent' = TRUE
  /\ \/ v = "release" /\ row = "held" /\ (HoldsDieLate \/ wallet = "held") /\ ledger' = ledger \cup {"settled"}
     \/ v = "refund" /\ row = "held" /\ ledger' = ledger \cup {"refunded"}
     \/ v = "refund" /\ row # "none" /\ UNCHANGED ledger
  /\ UNCHANGED <<row, bolt11, outside, locals, failures>>

-----------------------------------------------------------------------------
(* The world *)

HtlcArrives ==
  /\ dispatched /\ wallet = "open"
  /\ wallet' = "held"
  /\ UNCHANGED <<payment, moved, dispatched, closed, orders, locals, failures>>

\* The invoice's own expiry, counted from its issue, comes before or after
\* the coordinator's, counted from the row with a grace on top.
InvoiceExpires ==
  /\ wallet = "open"
  /\ wallet' = "expired"
  /\ UNCHANGED <<payment, moved, dispatched, closed, orders, locals, failures>>

\* The payee's own right, or the end of the HTLC's time lock.
HoldEnds ==
  /\ wallet \in {"open", "held"}
  /\ HoldsDieLate \/ decided # "release"
  /\ wallet' = "cancelled"
  /\ UNCHANGED <<payment, moved, dispatched, closed, orders, locals, failures>>

WindowCloses ==
  /\ row # "none" /\ ~ closed
  /\ closed' = TRUE
  /\ UNCHANGED <<payment, wallet, moved, dispatched, orders, locals, failures>>

\* POST /me/wallet: a new connection supersedes the one the invoice is at.
\* (Before the invoice is stored nobody can pay it, and a new one is issued.)
Reconnect ==
  /\ bolt11 /\ ~ moved
  /\ moved' = TRUE
  /\ UNCHANGED <<payment, wallet, dispatched, closed, orders, locals, failures>>

\* A crash, or a wallet that does not answer, ends the call where it stands.
CutShort(a) ==
  /\ pc[a] # "idle"
  /\ failures < MaxFailures
  /\ failures' = failures + 1
  /\ Goto(a, "idle")
  /\ UNCHANGED <<payment, outside, orders, task, seen, cause>>

-----------------------------------------------------------------------------

Init ==
  /\ row = "none" /\ bolt11 = FALSE /\ ledger = {}
  /\ wallet = "none" /\ moved = FALSE /\ dispatched = FALSE /\ closed = FALSE
  /\ decided = "none" /\ intent = FALSE
  /\ task = [a \in Process |-> "none"]
  /\ pc = [a \in Process |-> "idle"]
  /\ seen = [a \in Process |-> "none"]
  /\ cause = [a \in Process |-> "expired"]
  /\ failures = 0

\* The rest of a call once it has begun.
Proceed(a) ==
  \/ MakeInvoice(a) \/ StoreInvoice(a) \/ Pay(a)
  \/ Lookup(a) \/ CloseLazy(a) \/ Reveal(a) \/ CancelInvoice(a) \/ Forget(a)
  \/ PostHeld(a) \/ FlipHeld(a)
  \/ CommitFirst(a) \/ PostSettled(a) \/ FlipSettled(a)
  \/ CheckHeld(a) \/ PostRefunded(a) \/ FlipDead(a)

Next ==
  \/ \E a \in Process :
       Create(a) \/ Poll(a) \/ Release(a) \/ Refund(a) \/ Proceed(a) \/ CutShort(a)
  \/ \E v \in Verb : Decide(v)
  \/ HtlcArrives \/ InvoiceExpires \/ HoldEnds \/ WindowCloses \/ Reconnect

Spec == Init /\ [][Next]_vars

\* Calls end; the pump and the retry are scheduled again and again, each on a
\* queue of its own; the hold window passes.
Fairness ==
  /\ \A a \in Process : WF_vars(Proceed(a))
  /\ \A a \in Observer : SF_vars(Poll(a)) /\ SF_vars(Release(a)) /\ SF_vars(Refund(a))
  /\ WF_vars(WindowCloses)

FairSpec == Spec /\ Fairness

-----------------------------------------------------------------------------
(* Properties *)

\* Every variable holds what its column or local may hold.
TypeOK ==
  /\ row \in RowState /\ bolt11 \in BOOLEAN /\ ledger \subseteq Entry
  /\ wallet \in Invoice /\ moved \in BOOLEAN /\ dispatched \in BOOLEAN /\ closed \in BOOLEAN
  /\ decided \in {"none"} \cup Verb /\ intent \in BOOLEAN
  /\ task \in [Process -> Task] /\ pc \in [Process -> Step]
  /\ seen \in [Process -> RowState]
  /\ cause \in [Process -> Dead]
  /\ failures \in 0..MaxFailures

\* The coordinator keeps the promise of Commitment.
Promise == INSTANCE Commitment WITH
  status <- IF row \in Dead THEN "dead" ELSE row
KeepsPromise == Promise!Spec

\* "the ledger can run ahead of the row by one transition, never behind and
\* never twice": a row's state has its entries, and a dead row's pair up.
LedgerNeverBehind ==
  /\ row = "held" => "held" \in ledger
  /\ row = "settled" => {"held", "settled"} \subseteq ledger
  /\ row \in Dead => ("held" \in ledger <=> "refunded" \in ledger)

\* The row says what the wallet did: a cancelled payment has no hold left, a
\* settled one is settled, and only for a release that was committed.
WalletAgrees ==
  /\ row = "cancelled" => wallet \in Dead
  /\ row = "settled" => wallet = "settled"
  /\ wallet = "settled" => decided = "release"

\* A payment whose invoice was issued does not stay unpaid for ever, while the
\* payee keeps its wallet.
InvoicedResolves == row = "created" /\ wallet # "none" ~> row # "created" \/ moved

\* A committed verb is carried out and its intent goes away, while holds do not
\* die late and the payee keeps its wallet.
VerbCarriedOut ==
  /\ decided = "release" ~> (wallet = "settled" /\ row = "settled" /\ ~ intent) \/ moved
  /\ decided = "refund" /\ wallet # "none" ~> (row \in Dead /\ ~ intent) \/ moved
=============================================================================
