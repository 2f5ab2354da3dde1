------------------------------ MODULE Executor ------------------------------
(***************************************************************************)
(* Invocations of the effect executor that overlap on one shipment         *)
(* (apps/api/src/shipments/executor.ts, pump.ts, timers.ts), seen through  *)
(* one deposit request.  Shipment takes every event as one atomic step;    *)
(* here an invocation is what it is in the code: a snapshot of the         *)
(* shipment, wallet calls outside any transaction (phase 1), one           *)
(* transaction that locks the shipment, recomputes the transition and      *)
(* gives up if its effects are no longer those of the snapshot (phase 2),  *)
(* and compensation of what phase 1 created when it gives up.              *)
(*                                                                         *)
(* The leg's own payments (the sender's payment and the carrier's bond)    *)
(* refer to the leg, so every accept of the request names the same         *)
(* payments by the same idempotency keys; they stand or fall together and  *)
(* are one payment here.  The arrival hub's bond refers to a stay id       *)
(* minted by the invocation, and so does each accept's own bond here.      *)
(* Events without phase 1 and with a single outcome are one step.          *)
(***************************************************************************)
EXTENDS Naturals

CONSTANTS
  Acceptor,    \* invocations of deposit_accept (BOUND)
  NoOne,       \* no accept has committed
  Overlap,     \* may an accept begin while another is under way?
  MaxFailures  \* BOUND: wallet calls that fail and processes that die

ASSUME OverlapFlag == Overlap \in BOOLEAN
ASSUME FailureBound == MaxFailures \in Nat
ASSUME NoOneIsNobody == NoOne \notin Acceptor

VARIABLES
  board,     \* the shipment at the hub and its one leg request
  arrival,   \* the accept whose stay is the leg's arrival stay
  pay,       \* conditional_payments.state
  intents,   \* payments with a committed refund not yet executed
  timers,    \* shipment_timers rows, by kind
  due,       \* the timers whose fireAt has come
  pc,        \* where each accept is
  minted,    \* createdIds: the payments each accept's phase 1 returned
  firing,    \* the timer row the sweep is firing, or "none"
  snapshot,  \* the shipment as the sweep loaded it for that timer
  pump,      \* where the wallet pump is
  observed,  \* has the pump's poll returned a payment_held event?
  failures   \* failures so far

shipment == <<board, arrival>>
deadlines == <<timers, due>>
accepts == <<pc, minted>>
sweep == <<firing, snapshot>>
pumping == <<pump, observed>>
vars == <<shipment, pay, intents, deadlines, accepts, sweep, pumping, failures>>

LegPayment == <<"leg_payment", NoOne>>
HubBond(a) == <<"custody_bond", a>>
Payment    == {LegPayment} \cup {HubBond(a) : a \in Acceptor}
Open       == {"created", "held"}

\* "open": on the board with no request; the rest are the leg's own statuses.
Board == {"open", "requested", "pending_funding", "booked", "forfeited"}
Timer == {"storage", "deposit_response", "leg_funding"}
Step  == {"idle", "create_leg", "create_bond", "commit", "undo", "done"}

Goto(a, step) == pc' = [pc EXCEPT ![a] = step]

\* The timers left armed lose their due mark when they are cancelled.
Arm(armed) == timers' = armed /\ due' = due \cap armed

LegHolds == {LegPayment} \cup {HubBond(a) : a \in {arrival} \ {NoOne}}

-----------------------------------------------------------------------------
(* deposit_accept: snapshot, phase 1, phase 2, compensation *)

\* The event carries the instant of the request, so that the deadline is
\* judged now, however long phase 1 takes.
BeginAccept(a) ==
  /\ pc[a] = "idle"
  /\ Overlap \/ \A b \in Acceptor : pc[b] \in {"idle", "done"}
  /\ board = "requested" /\ "deposit_response" \notin due
  /\ Goto(a, "create_leg")
  /\ UNCHANGED <<shipment, pay, intents, deadlines, minted, sweep, pumping, failures>>

\* createConditionalPayment returns the row its idempotency key already has.
CreateHold(a, p, from, to) ==
  /\ pc[a] = from
  /\ pay' = [pay EXCEPT ![p] = IF pay[p] = "none" THEN "created" ELSE pay[p]]
  /\ minted' = [minted EXCEPT ![a] = @ \cup {p}]
  /\ Goto(a, to)
  /\ UNCHANGED <<shipment, intents, deadlines, sweep, pumping, failures>>

CreateLegPayment(a) == CreateHold(a, LegPayment, "create_leg", "create_bond")
CreateHubBond(a) == CreateHold(a, HubBond(a), "create_bond", "commit")

\* A wallet is unavailable: the invocation gives up.
CreateFails(a) ==
  /\ pc[a] \in {"create_leg", "create_bond"}
  /\ failures < MaxFailures
  /\ failures' = failures + 1
  /\ Goto(a, "undo")
  /\ UNCHANGED <<shipment, pay, intents, deadlines, minted, sweep, pumping>>

\* Fault: nothing bounds the funding window.
AcceptTimers_unbounded == timers \ {"deposit_response"}
AcceptTimers == (timers \ {"deposit_response"}) \cup {"leg_funding"}

CommitAccept(a) ==
  /\ pc[a] = "commit"
  /\ \/ /\ board = "requested"
        /\ board' = "pending_funding" /\ arrival' = a
        /\ Arm(AcceptTimers)
        /\ Goto(a, "done")
     \/ /\ board # "requested"
        /\ Goto(a, "undo")
        /\ UNCHANGED <<shipment, deadlines>>
  /\ UNCHANGED <<pay, intents, minted, sweep, pumping, failures>>

Refunded(p) == [pay EXCEPT ![p] = IF pay[p] \in Open THEN "cancelled" ELSE pay[p]]

\* compensateCreatedPayments: one refund after the other, best effort.
Undo(a) ==
  /\ pc[a] = "undo"
  /\ \E p \in minted[a] :
       /\ minted' = [minted EXCEPT ![a] = @ \ {p}]
       /\ \/ pay' = Refunded(p) /\ UNCHANGED failures
          \/ failures < MaxFailures /\ failures' = failures + 1 /\ UNCHANGED pay
  /\ UNCHANGED <<shipment, intents, deadlines, pc, sweep, pumping>>

\* Fault: the last payment created is not compensated.
Undone_but_one(a) == minted[a] \subseteq {HubBond(a)}
Undone(a) == minted[a] = {}

EndUndo(a) ==
  /\ pc[a] = "undo"
  /\ Undone(a)
  /\ Goto(a, "done")
  /\ UNCHANGED <<shipment, pay, intents, deadlines, minted, sweep, pumping, failures>>

\* The process dies: nobody compensates.
Crash(a) ==
  /\ pc[a] \notin {"idle", "done"}
  /\ failures < MaxFailures
  /\ failures' = failures + 1
  /\ Goto(a, "done")
  /\ UNCHANGED <<shipment, pay, intents, deadlines, minted, sweep, pumping>>

\* deposit_reject, or the carrier's own deposit_request_cancel.
CloseRequest ==
  /\ board = "requested"
  /\ board' = "open"
  /\ Arm(timers \ {"deposit_response"})
  /\ UNCHANGED <<arrival, pay, intents, accepts, sweep, pumping, failures>>

-----------------------------------------------------------------------------
(* The timer sweep *)

\* What the machine accepts each timeout in.
Applies(t, b) ==
  CASE t = "deposit_response" -> b = "requested"
    [] t = "leg_funding" -> b = "pending_funding"
    [] t = "storage" -> b \in {"open", "requested", "pending_funding"}

LoadDueTimer(t) ==
  /\ firing = "none"
  /\ t \in timers \cap due
  /\ Applies(t, board)
  /\ firing' = t /\ snapshot' = board
  /\ UNCHANGED <<shipment, pay, intents, deadlines, accepts, pumping, failures>>

TimeoutOutcome(t) == IF t = "storage" THEN "forfeited" ELSE "open"

\* Fault: the window closes and its holds are left to themselves.
TimeoutRefunds_none == {}
\* A leg in its funding window has its holds dissolved.
TimeoutRefunds == IF board = "pending_funding" THEN LegHolds ELSE {}

\* The recomputed effects are those of the snapshot.
FireTimer ==
  /\ firing # "none"
  /\ Applies(firing, board) /\ board = snapshot
  /\ board' = TimeoutOutcome(firing)
  /\ intents' = intents \cup TimeoutRefunds
  /\ Arm(IF firing = "storage" THEN {} ELSE timers \ {firing})
  /\ firing' = "none" /\ UNCHANGED snapshot
  /\ UNCHANGED <<arrival, pay, accepts, pumping, failures>>

\* ConflictError: the reminder is consumed, its event or not.
TimerConflicts ==
  /\ firing # "none"
  /\ ~ (Applies(firing, board) /\ board = snapshot)
  /\ Arm(timers \ {firing})
  /\ firing' = "none" /\ UNCHANGED snapshot
  /\ UNCHANGED <<shipment, pay, intents, accepts, pumping, failures>>

-----------------------------------------------------------------------------
(* The wallet pump *)

SeenHeld(p) == pay[p] = "created" /\ pay' = [pay EXCEPT ![p] = "held"]

PumpPoll(p) ==
  /\ pump = "idle"
  /\ SeenHeld(p)
  /\ observed' = TRUE
  /\ UNCHANGED <<shipment, intents, deadlines, accepts, sweep, pump, failures>>

\* An API request that waits for a hold, or the reconciliation, polls too:
\* the event goes to it, and not to the pump.
OtherPoll(p) ==
  /\ SeenHeld(p)
  /\ UNCHANGED <<shipment, intents, deadlines, accepts, sweep, pumping, failures>>

\* Fault: the check looks at the leg's own payments only.
Funded_leg_only == pay[LegPayment] = "held"
Funded == \A p \in LegHolds : pay[p] = "held"

\* Only the shipments with an event of this poll are looked at.
PumpCheck ==
  /\ pump = "idle" /\ observed
  /\ observed' = FALSE
  /\ pump' = IF board = "pending_funding" /\ Funded /\ "leg_funding" \notin due
             THEN "book" ELSE "idle"
  /\ UNCHANGED <<shipment, pay, intents, deadlines, accepts, sweep, failures>>

\* leg_funded, in its own transaction; a rejection or a conflict is benign.
PumpBook ==
  /\ pump = "book"
  /\ pump' = "idle"
  /\ \/ /\ board = "pending_funding"
        /\ board' = "booked"
        /\ Arm(timers \ {"leg_funding", "storage"})
     \/ /\ board # "pending_funding"
        /\ UNCHANGED <<board, deadlines>>
  /\ UNCHANGED <<arrival, pay, intents, accepts, sweep, observed, failures>>

-----------------------------------------------------------------------------
(* Verbs, wallets and the clock *)

\* Phase 3, or its retry.
ExecuteRefund(p) ==
  /\ p \in intents
  /\ pay' = Refunded(p)
  /\ intents' = intents \ {p}
  /\ UNCHANGED <<shipment, deadlines, accepts, sweep, pumping, failures>>

\* Never paid: the hold window closes.  An accepted hold that secures a leg
\* is taken not to die.
HoldLapses(p) ==
  /\ pay[p] = "created" \/ (pay[p] = "held" /\ p \notin LegHolds)
  /\ pay' = [pay EXCEPT ![p] = "cancelled"]
  /\ UNCHANGED <<shipment, intents, deadlines, accepts, sweep, pumping, failures>>

Elapse(t) ==
  /\ t \in timers \ due
  /\ due' = due \cup {t}
  /\ UNCHANGED <<shipment, pay, intents, timers, accepts, sweep, pumping, failures>>

-----------------------------------------------------------------------------

\* A carrier's request has just reached a hub that answers by hand.
Init ==
  /\ board = "requested" /\ arrival = NoOne
  /\ pay = [p \in Payment |-> "none"] /\ intents = {}
  /\ timers = {"storage", "deposit_response"} /\ due = {}
  /\ pc = [a \in Acceptor |-> "idle"] /\ minted = [a \in Acceptor |-> {}]
  /\ firing = "none" /\ snapshot = "open"
  /\ pump = "idle" /\ observed = FALSE
  /\ failures = 0

Proceed(a) ==
  CreateLegPayment(a) \/ CreateHubBond(a) \/ CommitAccept(a) \/ Undo(a) \/ EndUndo(a)

Sweep == (\E t \in Timer : LoadDueTimer(t)) \/ FireTimer \/ TimerConflicts

Pump == PumpCheck \/ PumpBook

Next ==
  \/ \E a \in Acceptor : BeginAccept(a) \/ CreateFails(a) \/ Crash(a) \/ Proceed(a)
  \/ CloseRequest
  \/ Sweep \/ Pump
  \/ \E p \in Payment : PumpPoll(p) \/ OtherPoll(p) \/ ExecuteRefund(p) \/ HoldLapses(p)
  \/ \E t \in Timer : Elapse(t)

Spec == Init /\ [][Next]_vars

\* Invocations end; the cron runs the sweep, the pump and the retries; time
\* passes.  Nobody has to accept, to pay or to give up a hold.
Fairness ==
  /\ \A a \in Acceptor : WF_vars(Proceed(a))
  /\ WF_vars(Sweep) /\ WF_vars(Pump)
  /\ \A p \in Payment : WF_vars(ExecuteRefund(p))
  /\ \A t \in Timer : WF_vars(Elapse(t))

FairSpec == Spec /\ Fairness

-----------------------------------------------------------------------------
(* Properties *)

\* Every variable holds what its column or local may hold.
TypeOK ==
  /\ board \in Board /\ arrival \in Acceptor \cup {NoOne}
  /\ pay \in [Payment -> {"none", "cancelled"} \cup Open] /\ intents \subseteq Payment
  /\ timers \subseteq Timer /\ due \subseteq timers
  /\ pc \in [Acceptor -> Step] /\ minted \in [Acceptor -> SUBSET Payment]
  /\ firing \in Timer \cup {"none"} /\ snapshot \in Board
  /\ pump \in {"idle", "book"} /\ observed \in BOOLEAN
  /\ failures \in 0..MaxFailures

\* A booked leg has its money locked: what the pump checked before its
\* transaction is still so after it, whatever ran in between.
BookedIsBonded == board = "booked" => \A p \in LegHolds : pay[p] = "held"

\* "Losing a sweep tick delays a timeout, never loses it": a parcel that rests
\* at the hub with no carrier booked has its storage deadline armed.
StorageIsTimed == board \in {"open", "requested", "pending_funding"} => "storage" \in timers

\* An accept that gave up leaves no hold of its own behind, if no refund failed.
GivesBackItsOwn ==
  failures = 0 =>
    \A a \in Acceptor : pc[a] = "done" /\ arrival # a => pay[HubBond(a)] \notin Open

\* Every wait of the request ends: it is answered or dissolved, and its leg is
\* booked or dissolved.
RequestEnds == board \in {"requested", "pending_funding"} ~> board \in {"open", "booked", "forfeited"}

\* The holds of a leg that was accepted and not booked come home.
DissolvedLegComesHome ==
  arrival # NoOne /\ board \in {"open", "forfeited"} ~> \A p \in LegHolds : pay[p] \notin Open

=============================================================================
