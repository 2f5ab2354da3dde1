------------------------------ MODULE Shipment ------------------------------
(***************************************************************************)
(* The life of one shipment: the transition function of the state machine  *)
(* (packages/core/src/state-machine/state-machine.ts) together with what   *)
(* the effect executor commits for it in one database transaction          *)
(* (apps/api/src/shipments/executor.ts): the shipment's status, the rows   *)
(* of its hub stays, legs and claims, the timer facts, the journal entries *)
(* of the shadow ledger and the escrow intents.  One action is one         *)
(* committed event.  The wallets act in between, as the coordinator        *)
(* observes them (packages/escrow/src/coordinator.ts), and the committed   *)
(* verbs reach them later, one at a time.                                  *)
(*                                                                         *)
(* Shipments do not interact in this code: every row and every lock is     *)
(* the shipment's own, so one shipment is the whole system.  Amounts,      *)
(* parties and photos are left to other modules.                           *)
(*                                                                         *)
(* Time.  A row waits on one deadline at a time; `due` says where the      *)
(* clock stands with respect to it.  "now" is the instant of the deadline  *)
(* itself, at which the machine accepts both the event and its timeout.    *)
(* No window length is fixed and no two deadlines are ordered.             *)
(***************************************************************************)
EXTENDS FiniteSets

CONSTANTS
  Hub,          \* hubs a shipment may rest at
  OriginHub,    \* shipments.origin_hub_id
  StayId,       \* ids of hub_stays rows (BOUND: stays per shipment)
  LegId,        \* ids of legs rows (BOUND: leg requests per shipment)
  ClaimId,      \* ids of shipment_claims rows (BOUND: claims per shipment)
  NoStay,       \* the hubStayId of a claim row not written yet
  HoldsMayDie   \* may a hold that was accepted die at the wallet?

ASSUME IdsDisjoint ==
  /\ StayId \cap LegId = {}
  /\ StayId \cap ClaimId = {}
  /\ LegId \cap ClaimId = {}

ASSUME HubsAndFlag ==
  /\ OriginHub \in Hub
  /\ NoStay \notin StayId
  /\ HoldsMayDie \in BOOLEAN

VARIABLES
  state,       \* the machine's state; "NONE" before create
  dest,        \* shipments.dest_hub_id
  stay,        \* hub_stays rows
  leg,         \* legs rows
  claim,       \* shipment_claims rows
  due,         \* the clock against the deadline each row waits on
  timers,      \* shipment_timers rows, by their unique key (kind, ref)
  pay,         \* conditional_payments.state, by idempotency key
  journal,     \* journal_entries, by idempotency key
  intents      \* escrow_intents rows

rows  == <<stay, leg, claim>>
money == <<pay, journal, intents>>
vars  == <<state, dest, rows, due, timers, money>>

-----------------------------------------------------------------------------
(* Vocabulary *)

AtHubStates == {"AT_HUB", "LEG_BOOKED", "AWAITING_PICKUP", "CLAIMED"}
TerminalStates == {"DELIVERED", "CANCELLED", "FORFEITED", "LOST"}
ShipmentState ==
  {"NONE", "DRAFT", "AWAITING_DROPOFF", "IN_TRANSIT"} \cup AtHubStates \cup TerminalStates

StayStatus  == {"none", "reserved", "active", "released", "expired"}
LegStatus   == {"none", "requested", "pending_funding", "booked", "picked_up",
                "completed", "returned", "expired", "failed"}
ClaimStatus == {"none", "pending_funding", "funded", "completed", "expired"}

Row   == StayId \cup LegId \cup ClaimId
Phase == {"ahead", "now", "past"}
Timer == ({"storage"} \X StayId)
    \cup ({"deposit_response", "leg_funding", "pickup", "transit"} \X LegId)
    \cup ({"claim_funding"} \X ClaimId)

\* A conditional payment is named by its purpose and the row it refers to,
\* which is how the executor builds its idempotency key.
HubBond(s)      == <<"custody_bond", s>>
HubBonus(s)     == <<"finalization_bonus", s>>
LegPayment(l)   == <<"leg_payment", l>>
CarrierBond(l)  == <<"custody_bond", l>>
ClaimPayment(c) == <<"claim_payment", c>>
ClaimBonus(c)   == <<"finalization_bonus", c>>

Payment == ({"custody_bond", "finalization_bonus"} \X StayId)
      \cup ({"leg_payment", "custody_bond"} \X LegId)
      \cup ({"claim_payment", "finalization_bonus"} \X ClaimId)

Open     == {"created", "held"}
PayState == {"none", "settled", "cancelled"} \cup Open
Entry    == {"held", "settled", "refunded"}
Verb     == {"release", "refund"}

-----------------------------------------------------------------------------
(* What the context builder reads back from the rows *)

IsCurrentStay(s) ==
  \/ state = "AWAITING_DROPOFF" /\ stay[s].status = "reserved"
  \/ state \in AtHubStates /\ stay[s].status = "active"

IsActiveLeg(l) == leg[l].status \in {"pending_funding", "booked", "picked_up"}
IsArrival(a)   == stay[a].status = "reserved"
IsLiveClaim(c) == claim[c].status \in {"pending_funding", "funded"}

NoLeg     == \A l \in LegId : ~ IsActiveLeg(l)
NoRequest == \A l \in LegId : leg[l].status # "requested"
NoClaim   == \A c \in ClaimId : ~ IsLiveClaim(c)

\* The stays whose leg-side hub bonus is still an open hold.
BonusStays == {s \in StayId : pay[HubBonus(s)] \in Open}
BonusHold  == {HubBonus(s) : s \in BonusStays}

\* The rows with a deadline some guard or the sweep may still read.
Watched(r) ==
  \/ r \in StayId /\ stay[r].status = "active"
  \/ r \in LegId /\ (leg[r].status = "requested" \/ IsActiveLeg(r))
  \/ r \in ClaimId /\ claim[r].status = "pending_funding"

\* The rows in `fresh` get a new deadline; one that is closed has none any more.
Clocks(fresh) ==
  due' = [r \in Row |-> IF r \in fresh \/ ~ Watched(r)' THEN "ahead" ELSE due[r]]

WithinDeadline(r) == due[r] # "past"
DeadlinePassed(r) == due[r] # "ahead"

\* The timer sweep fires a row of shipment_timers once its fireAt has come.
Fires(kind, r) == <<kind, r>> \in timers /\ DeadlinePassed(r)

-----------------------------------------------------------------------------
(* What a transaction does to the money *)

Entries(P, kind) == P \X {kind}

\* Verbs are committed as intents; a release posts the settled entry and the
\* refund of a recognised commitment posts the refunded one, while holds that
\* never became a commitment are dissolved without an entry.
Commit(released, refunded, dissolved, recognised) ==
  /\ intents' = intents \cup (released \X {"release"})
                        \cup ((refunded \cup dissolved) \X {"refund"})
  /\ journal' = journal \cup Entries(released, "settled")
                        \cup Entries(refunded, "refunded")
                        \cup Entries(recognised, "held")

NoVerbs == UNCHANGED <<intents, journal>>

CreateHolds(P, as) ==
  pay' = [p \in Payment |-> IF p \in P THEN as ELSE pay[p]]

LegHolds(l, a) == {LegPayment(l), CarrierBond(l), HubBond(a)}
ClaimHolds(c)  == {ClaimPayment(c)} \cup (IF claim[c].bonus THEN {ClaimBonus(c)} ELSE {})

-----------------------------------------------------------------------------
(* From creation to the board *)

create(d) ==
  /\ state = "NONE"
  /\ d # OriginHub
  /\ state' = "DRAFT"
  /\ dest' = d
  /\ UNCHANGED <<rows, due, timers, money>>

\* Phase 1 has already waited for the bond to be held.
origin_hub_accept(s) ==
  /\ state = "DRAFT"
  /\ stay[s].status = "none"
  /\ state' = "AWAITING_DROPOFF"
  /\ stay' = [stay EXCEPT ![s] = [status |-> "reserved", hub |-> OriginHub]]
  /\ CreateHolds({HubBond(s)}, "held")
  /\ Commit({}, {}, {}, {HubBond(s)})
  /\ UNCHANGED <<dest, leg, claim, due, timers>>

origin_checkin ==
  \E s \in StayId :
    /\ state = "AWAITING_DROPOFF"
    /\ IsCurrentStay(s)
    /\ state' = "AT_HUB"
    /\ stay' = [stay EXCEPT ![s].status = "active"]
    /\ timers' = timers \cup {<<"storage", s>>}
    /\ UNCHANGED <<dest, leg, claim, money>>
    /\ Clocks({s})

-----------------------------------------------------------------------------
(* The deposit request: board-exclusive, and no money moves for it *)

leg_request(l, h, b) ==
  \E s \in StayId :
    /\ state = "AT_HUB"
    /\ IsCurrentStay(s)
    /\ NoLeg /\ NoRequest /\ NoClaim
    /\ h # stay[s].hub
    /\ b => h = dest
    /\ BonusHold = {}
    /\ leg[l].status = "none"
    /\ leg' = [leg EXCEPT ![l] =
         [status |-> "requested", from |-> stay[s].hub, to |-> h, bonus |-> b]]
    /\ timers' = timers \cup {<<"deposit_response", l>>}
    /\ UNCHANGED <<state, dest, stay, claim, money>>
    /\ Clocks({l})

AcceptedHolds(l, a) == LegHolds(l, a) \cup (IF leg[l].bonus THEN {HubBonus(a)} ELSE {})

deposit_accept(l, a) ==
  /\ state = "AT_HUB"
  /\ \E s \in StayId : IsCurrentStay(s)
  /\ leg[l].status = "requested"
  /\ NoLeg
  /\ WithinDeadline(l)
  /\ BonusHold = {}
  /\ stay[a].status = "none"
  /\ leg' = [leg EXCEPT ![l].status = "pending_funding"]
  /\ stay' = [stay EXCEPT ![a] = [status |-> "reserved", hub |-> leg[l].to]]
  /\ CreateHolds(AcceptedHolds(l, a), "created")
  /\ NoVerbs
  /\ timers' = (timers \ {<<"deposit_response", l>>}) \cup {<<"leg_funding", l>>}
  /\ UNCHANGED <<state, dest, claim>>
  /\ Clocks({l})

CloseRequest(l) ==
  /\ state = "AT_HUB"
  /\ leg[l].status = "requested"
  /\ leg' = [leg EXCEPT ![l].status = "expired"]
  /\ timers' = timers \ {<<"deposit_response", l>>}
  /\ UNCHANGED <<state, dest, stay, claim, money>>
  /\ Clocks({})

deposit_reject(l) == CloseRequest(l)

deposit_request_cancel(l) == CloseRequest(l)

deposit_request_expired(l) == Fires("deposit_response", l) /\ CloseRequest(l)

-----------------------------------------------------------------------------
(* Funding, pickup, transit *)

\* Fault: the funding check looks at the carrier's side only.
FundingHeld_skips_arrival_bond(l, a) ==
  \A p \in {LegPayment(l), CarrierBond(l)} : pay[p] = "held"
\* The pump's check: every hold of the funding window is observed held.
FundingHeld(l, a) == \A p \in LegHolds(l, a) \cup BonusHold : pay[p] = "held"

\* Fault: booking a leg leaves the storage countdown running.
BookedTimers_storage_runs(l, s) ==
  (timers \ {<<"leg_funding", l>>}) \cup {<<"pickup", l>>}
\* Fault: nothing bounds the wait for a booked carrier.
BookedTimers_no_pickup(l, s) == timers \ {<<"leg_funding", l>>, <<"storage", s>>}
BookedTimers(l, s) ==
  (timers \ {<<"leg_funding", l>>, <<"storage", s>>}) \cup {<<"pickup", l>>}

leg_funded ==
  \E l \in LegId, s, a \in StayId :
    /\ state = "AT_HUB"
    /\ IsCurrentStay(s) /\ IsArrival(a)
    /\ leg[l].status = "pending_funding"
    /\ FundingHeld(l, a)
    /\ WithinDeadline(l)
    /\ state' = "LEG_BOOKED"
    /\ leg' = [leg EXCEPT ![l].status = "booked"]
    /\ Commit({}, {}, {}, LegHolds(l, a) \cup BonusHold)
    /\ timers' = BookedTimers(l, s)
    /\ UNCHANGED <<dest, stay, claim, pay>>
    /\ Clocks({l})

\* Fault: the leg is closed and its arrival stay left reserved.
CloseLeg_keeps_arrival(l, a, as) ==
  /\ leg' = [leg EXCEPT ![l].status = as]
  /\ UNCHANGED stay
CloseLeg(l, a, as) ==
  /\ leg' = [leg EXCEPT ![l].status = as]
  /\ stay' = [stay EXCEPT ![a].status = "expired"]

\* Fault: the holds of an unfunded leg are journalled as if recognised.
DissolveLeg_posts_entries(l, a) == Commit({}, LegHolds(l, a) \cup BonusHold, {}, {})
DissolveLeg(l, a) == Commit({}, {}, LegHolds(l, a) \cup BonusHold, {})

leg_funding_expired(l) ==
  \E a \in StayId :
    /\ Fires("leg_funding", l)
    /\ state = "AT_HUB"
    /\ IsArrival(a)
    /\ leg[l].status = "pending_funding"
    /\ DissolveLeg(l, a)
    /\ CloseLeg(l, a, "expired")
    /\ timers' = timers \ {<<"leg_funding", l>>}
    /\ UNCHANGED <<state, dest, claim, pay>>
    /\ Clocks({})

pickup_checkout ==
  \E l \in LegId, s \in StayId :
    /\ state = "LEG_BOOKED"
    /\ IsCurrentStay(s)
    /\ leg[l].status = "booked"
    /\ WithinDeadline(l)
    /\ state' = "IN_TRANSIT"
    /\ leg' = [leg EXCEPT ![l].status = "picked_up"]
    /\ stay' = [stay EXCEPT ![s].status = "released"]
    /\ Commit({}, {HubBond(s)}, {}, {})
    /\ timers' = (timers \ {<<"pickup", l>>}) \cup {<<"transit", l>>}
    /\ UNCHANGED <<dest, claim, pay>>
    /\ Clocks({l})

\* Fault: a failed final leg forgets the hub's bonus hold.
FailLeg_keeps_bonus(l, a) == Commit({CarrierBond(l)}, {LegPayment(l), HubBond(a)}, {}, {})
\* The carrier's bond goes to the sender and every other hold goes back.
FailLeg(l, a) ==
  Commit({CarrierBond(l)}, {LegPayment(l), HubBond(a)} \cup BonusHold, {}, {})

\* Fault: the parcel returns to the board with a fresh storage deadline.
ResumedClock_fresh(s) == Clocks({s})
\* The storage countdown resumes with the deadline the stay already had.
ResumedClock(s) == Clocks({})

pickup_timeout(l) ==
  \E s, a \in StayId :
    /\ Fires("pickup", l)
    /\ state = "LEG_BOOKED"
    /\ IsCurrentStay(s) /\ IsArrival(a)
    /\ leg[l].status = "booked"
    /\ state' = "AT_HUB"
    /\ FailLeg(l, a)
    /\ CloseLeg(l, a, "failed")
    /\ timers' = (timers \ {<<"pickup", l>>}) \cup {<<"storage", s>>}
    /\ UNCHANGED <<dest, claim, pay>>
    /\ ResumedClock(s)

leg_checkin ==
  \E l \in LegId, a \in StayId :
    /\ state = "IN_TRANSIT"
    /\ IsArrival(a)
    /\ leg[l].status = "picked_up"
    /\ WithinDeadline(l)
    /\ state' = IF leg[l].to = dest THEN "AWAITING_PICKUP" ELSE "AT_HUB"
    /\ leg' = [leg EXCEPT ![l].status = "completed"]
    /\ stay' = [stay EXCEPT ![a].status = "active"]
    /\ Commit({LegPayment(l)}, {CarrierBond(l)}, {}, {})
    /\ timers' = (timers \ {<<"transit", l>>}) \cup {<<"storage", a>>}
    /\ UNCHANGED <<dest, claim, pay>>
    /\ Clocks({a})

\* Fault: the returning carrier's payment is settled instead of refunded.
ReturnLeg_pays_carrier(l, a, r) ==
  Commit({LegPayment(l)}, {CarrierBond(l), HubBond(a)} \cup BonusHold, {}, {HubBond(r)})
ReturnLeg(l, a, r) ==
  Commit({}, LegHolds(l, a) \cup BonusHold, {}, {HubBond(r)})

leg_return(r) ==
  \E l \in LegId, a \in StayId :
    /\ state = "IN_TRANSIT"
    /\ IsArrival(a)
    /\ stay[r].status = "none"
    /\ leg[l].status = "picked_up"
    /\ WithinDeadline(l)
    /\ state' = "AT_HUB"
    /\ leg' = [leg EXCEPT ![l].status = "returned"]
    /\ stay' = [stay EXCEPT ![a].status = "expired",
                            ![r] = [status |-> "active", hub |-> leg[l].from]]
    /\ CreateHolds({HubBond(r)}, "held")
    /\ ReturnLeg(l, a, r)
    /\ timers' = (timers \ {<<"transit", l>>}) \cup {<<"storage", r>>}
    /\ UNCHANGED <<dest, claim>>
    /\ Clocks({r})

transit_timeout(l) ==
  \E a \in StayId :
    /\ Fires("transit", l)
    /\ state = "IN_TRANSIT"
    /\ IsArrival(a)
    /\ leg[l].status = "picked_up"
    /\ state' = "LOST"
    /\ FailLeg(l, a)
    /\ CloseLeg(l, a, "failed")
    /\ timers' = timers \ {<<"transit", l>>}
    /\ UNCHANGED <<dest, claim, pay>>
    /\ Clocks({})

-----------------------------------------------------------------------------
(* Handing the parcel to the recipient *)

EndStay(s) ==
  /\ stay' = [stay EXCEPT ![s].status = "released"]
  /\ timers' = timers \ {<<"storage", s>>}

recipient_pickup ==
  \E s \in StayId :
    /\ state = "AWAITING_PICKUP"
    /\ IsCurrentStay(s)
    /\ state' = "DELIVERED"
    /\ Commit(BonusHold, {HubBond(s)}, {}, {})
    /\ EndStay(s)
    /\ UNCHANGED <<dest, leg, claim, pay>>
    /\ Clocks({})

\* Fault: a claim is taken while a carrier's deposit request is pending.
ClaimGuard_ignores_request == NoLeg /\ NoClaim
ClaimGuard == NoLeg /\ NoRequest /\ NoClaim

recipient_claim(c, b) ==
  \E s \in StayId :
    /\ state = "AT_HUB"
    /\ IsCurrentStay(s)
    /\ ClaimGuard
    /\ BonusHold = {}
    /\ claim[c].status = "none"
    /\ claim' = [claim EXCEPT ![c] =
         [status |-> "pending_funding", stay |-> s, bonus |-> b]]
    /\ CreateHolds({ClaimPayment(c)} \cup (IF b THEN {ClaimBonus(c)} ELSE {}), "created")
    /\ NoVerbs
    /\ timers' = timers \cup {<<"claim_funding", c>>}
    /\ UNCHANGED <<state, dest, stay, leg>>
    /\ Clocks({c})

claim_funded ==
  \E c \in ClaimId :
    /\ state = "AT_HUB"
    /\ claim[c].status = "pending_funding"
    /\ \A p \in ClaimHolds(c) : pay[p] = "held"
    /\ WithinDeadline(c)
    /\ state' = "CLAIMED"
    /\ claim' = [claim EXCEPT ![c].status = "funded"]
    /\ Commit({}, {}, {}, ClaimHolds(c))
    /\ timers' = timers \ {<<"claim_funding", c>>}
    /\ UNCHANGED <<dest, stay, leg, pay>>
    /\ Clocks({})

claim_funding_expired(c) ==
  /\ Fires("claim_funding", c)
  /\ state = "AT_HUB"
  /\ claim[c].status = "pending_funding"
  /\ claim' = [claim EXCEPT ![c].status = "expired"]
  /\ Commit({}, {}, ClaimHolds(c), {})
  /\ timers' = timers \ {<<"claim_funding", c>>}
  /\ UNCHANGED <<state, dest, stay, leg, pay>>
  /\ Clocks({})

recipient_claimed_pickup ==
  \E c \in ClaimId, s \in StayId :
    /\ state = "CLAIMED"
    /\ IsCurrentStay(s)
    /\ claim[c].status = "funded"
    /\ claim[c].stay = s
    /\ state' = "DELIVERED"
    /\ claim' = [claim EXCEPT ![c].status = "completed"]
    /\ Commit(ClaimHolds(c), {HubBond(s)}, {}, {})
    /\ EndStay(s)
    /\ UNCHANGED <<dest, leg, pay>>
    /\ Clocks({})

-----------------------------------------------------------------------------
(* Storage expiry, reroute, cancellation *)

PendingLegs   == {l \in LegId : IsActiveLeg(l)}
RequestedLegs == {l \in LegId : leg[l].status = "requested"}
LiveClaims    == {c \in ClaimId : IsLiveClaim(c)}
Arrivals      == {a \in StayId : IsArrival(a) /\ PendingLegs # {}}

\* The holds of a leg in its funding window and those of a live claim.
PendingHolds ==
  {p \in Payment : \E l \in PendingLegs :
     p \in BonusHold \/ \E a \in Arrivals : p \in LegHolds(l, a)}
ClaimedHolds == {p \in Payment : \E c \in LiveClaims : p \in ClaimHolds(c)}

\* Fault: a claim that was never funded survives the storage expiry.
ForfeitDissolves_forgets_claim == IF state = "AT_HUB" THEN PendingHolds ELSE {}
\* The holds of what was still pending: never commitments, so no entries.
ForfeitDissolves == IF state = "AT_HUB" THEN PendingHolds \cup ClaimedHolds ELSE {}

\* The commitments an expired parcel gives back besides the hub's own bond.
ForfeitRefunds ==
  CASE state = "CLAIMED" -> ClaimedHolds
    [] state = "AWAITING_PICKUP" -> BonusHold
    [] OTHER -> {}

storage_expiry(s) ==
  /\ Fires("storage", s)
  /\ state \in {"AT_HUB", "AWAITING_PICKUP", "CLAIMED"}
  /\ IsCurrentStay(s)
  /\ state' = "FORFEITED"
  /\ Commit({}, {HubBond(s)} \cup ForfeitRefunds, ForfeitDissolves, {})
  /\ timers' = timers \ ({<<"storage", s>>} \cup
       ({"leg_funding", "deposit_response"} \X (PendingLegs \cup RequestedLegs)) \cup
       ({"claim_funding"} \X LiveClaims))
  /\ stay' = [t \in StayId |->
       IF t = s \/ t \in Arrivals THEN [stay[t] EXCEPT !.status = "expired"] ELSE stay[t]]
  /\ leg' = [l \in LegId |->
       IF l \in PendingLegs \cup RequestedLegs
       THEN [leg[l] EXCEPT !.status = "expired"] ELSE leg[l]]
  /\ claim' = [c \in ClaimId |->
       IF c \in LiveClaims THEN [claim[c] EXCEPT !.status = "expired"] ELSE claim[c]]
  /\ UNCHANGED <<dest, pay>>
  /\ Clocks({})

\* Fault: the destination may be moved to the hub the parcel rests at.
NewDestination_any(d, s) == TRUE
NewDestination(d, s) == d # stay[s].hub

\* A change of recipient alone moves neither the parcel nor any money.
reroute(d) ==
  \E s \in StayId :
    /\ state \in {"AT_HUB", "AWAITING_PICKUP"}
    /\ IsCurrentStay(s)
    /\ NoLeg /\ NoClaim /\ NoRequest
    /\ NewDestination(d, s)
    /\ state' = "AT_HUB"
    /\ dest' = d
    /\ Commit({}, IF state = "AWAITING_PICKUP" THEN BonusHold ELSE {}, {}, {})
    /\ UNCHANGED <<rows, due, timers, pay>>

cancel_draft ==
  /\ state = "DRAFT"
  /\ state' = "CANCELLED"
  /\ UNCHANGED <<dest, rows, due, timers, money>>

cancel ==
  \E s \in StayId :
    /\ \/ state = "AWAITING_DROPOFF"
       \/ /\ state = "AT_HUB"
          /\ NoLeg /\ NoClaim /\ NoRequest
          /\ stay[s].hub = OriginHub
    /\ IsCurrentStay(s)
    /\ state' = "CANCELLED"
    /\ Commit({}, {HubBond(s)}, {}, {})
    /\ EndStay(s)
    /\ UNCHANGED <<dest, leg, claim, pay>>
    /\ Clocks({})

-----------------------------------------------------------------------------
(* The wallets, as the coordinator observes them, and the verbs *)

PaymentUnchanged ==
  UNCHANGED <<state, dest, rows, due, timers>>

\* pollOnce sees the payer's HTLC accepted: entry first, then the row.
PaymentHeld(p) ==
  /\ pay[p] = "created"
  /\ pay' = [pay EXCEPT ![p] = "held"]
  /\ journal' = journal \cup {<<p, "held">>}
  /\ UNCHANGED intents
  /\ PaymentUnchanged

\* Never paid, and the window closed or the payee withdrew the invoice.
HoldLapses(p) ==
  /\ pay[p] = "created"
  /\ pay' = [pay EXCEPT ![p] = "cancelled"]
  /\ UNCHANGED <<journal, intents>>
  /\ PaymentUnchanged

\* An accepted hold dies at the payee's wallet with no verb of ours.
HoldDies(p) ==
  /\ HoldsMayDie
  /\ pay[p] = "held"
  /\ pay' = [pay EXCEPT ![p] = "cancelled"]
  /\ journal' = journal \cup {<<p, "refunded">>}
  /\ UNCHANGED intents
  /\ PaymentUnchanged

\* Phase 3 or the worker's retry.  The verb throws, and its intent stays,
\* unless the payment is held or already settled.
ExecuteRelease(p) ==
  /\ <<p, "release">> \in intents
  /\ pay[p] \in {"held", "settled"}
  /\ pay' = [pay EXCEPT ![p] = "settled"]
  /\ journal' = IF pay[p] = "held"
                THEN journal \cup {<<p, "held">>, <<p, "settled">>} ELSE journal
  /\ intents' = intents \ {<<p, "release">>}
  /\ PaymentUnchanged

\* markResolved posts the refund if the hold ever became a commitment.
RefundEntries(p) ==
  IF pay[p] = "held" \/ (pay[p] = "created" /\ <<p, "held">> \in journal)
  THEN {<<p, "refunded">>} ELSE {}

\* Fault: refunding a hold that is already gone throws.
Refundable_open_only(p) == pay[p] \in Open
\* refund() returns at once for a hold that is gone, throws for a settled one.
Refundable(p) == pay[p] \in Open \cup {"cancelled"}

ExecuteRefund(p) ==
  /\ <<p, "refund">> \in intents
  /\ Refundable(p)
  /\ pay' = [pay EXCEPT ![p] = "cancelled"]
  /\ journal' = journal \cup RefundEntries(p)
  /\ intents' = intents \ {<<p, "refund">>}
  /\ PaymentUnchanged

Elapse(r) ==
  /\ Watched(r)
  /\ \/ due[r] = "ahead" /\ due' = [due EXCEPT ![r] = "now"]
     \/ due[r] = "now" /\ due' = [due EXCEPT ![r] = "past"]
  /\ UNCHANGED <<state, dest, rows, timers, money>>

-----------------------------------------------------------------------------

Init ==
  /\ state = "NONE"
  /\ dest = OriginHub
  /\ stay = [s \in StayId |-> [status |-> "none", hub |-> OriginHub]]
  /\ leg = [l \in LegId |->
       [status |-> "none", from |-> OriginHub, to |-> OriginHub, bonus |-> FALSE]]
  /\ claim = [c \in ClaimId |-> [status |-> "none", stay |-> NoStay, bonus |-> FALSE]]
  /\ due = [r \in Row |-> "ahead"]
  /\ timers = {}
  /\ pay = [p \in Payment |-> "none"]
  /\ journal = {}
  /\ intents = {}

\* What people do, in the order and number they please.
User ==
  \/ \E d \in Hub : create(d) \/ reroute(d)
  \/ \E s \in StayId : origin_hub_accept(s) \/ leg_return(s)
  \/ origin_checkin
  \/ \E l \in LegId, h \in Hub, b \in BOOLEAN : leg_request(l, h, b)
  \/ \E l \in LegId, a \in StayId : deposit_accept(l, a)
  \/ \E l \in LegId : deposit_reject(l) \/ deposit_request_cancel(l)
  \/ pickup_checkout \/ leg_checkin
  \/ recipient_pickup \/ recipient_claimed_pickup
  \/ \E c \in ClaimId, b \in BOOLEAN : recipient_claim(c, b)
  \/ cancel_draft \/ cancel

\* What the timer sweep fires.
Sweep ==
  \/ \E s \in StayId : storage_expiry(s)
  \/ \E l \in LegId : \/ deposit_request_expired(l)
                      \/ leg_funding_expired(l)
                      \/ pickup_timeout(l)
                      \/ transit_timeout(l)
  \/ \E c \in ClaimId : claim_funding_expired(c)

Pump == leg_funded \/ claim_funded

Wallets == \E p \in Payment : PaymentHeld(p) \/ HoldLapses(p) \/ HoldDies(p)

Verbs == \E p \in Payment : ExecuteRelease(p) \/ ExecuteRefund(p)

Clock == \E r \in Row : Elapse(r)

Next == User \/ Sweep \/ Pump \/ Wallets \/ Verbs \/ Clock

Spec == Init /\ [][Next]_vars

\* Time passes, and the worker's cron runs the sweep and the intent retries
\* again and again; a retry that throws leaves its intent, so it is not a step.
\* Nobody obliges a user, a wallet or the pump to do anything.
Fairness == WF_vars(Clock) /\ WF_vars(Sweep) /\ WF_vars(Verbs)

FairSpec == Spec /\ Fairness

-----------------------------------------------------------------------------
(* Properties *)

RowsTyped ==
  /\ state \in ShipmentState
  /\ dest \in Hub
  /\ stay \in [StayId -> [status : StayStatus, hub : Hub]]
  /\ leg \in [LegId -> [status : LegStatus, from : Hub, to : Hub, bonus : BOOLEAN]]
  /\ claim \in [ClaimId -> [status : ClaimStatus, stay : StayId \cup {NoStay},
                             bonus : BOOLEAN]]

TimeTyped == due \in [Row -> Phase] /\ timers \subseteq Timer

MoneyTyped ==
  /\ pay \in [Payment -> PayState]
  /\ journal \subseteq Payment \X Entry
  /\ intents \subseteq Payment \X Verb

\* Every variable holds what its column may hold.
TypeOK == RowsTyped /\ TimeTyped /\ MoneyTyped

\* The board is exclusive: the shipment has one custodian's stay, one
\* reservation and at most one of a deposit request, a leg and a recipient
\* claim, so that the rows the context builder picks are the only ones.
BoardExclusive ==
  /\ \A s, t \in StayId :
       stay[s].status \in {"reserved", "active"} /\ stay[t].status = stay[s].status => s = t
  /\ \A k, l \in LegId :
       leg[k].status = "requested" \/ IsActiveLeg(k) =>
         /\ leg[l].status = "requested" \/ IsActiveLeg(l) => k = l
         /\ NoClaim
  /\ \A c, d \in ClaimId : IsLiveClaim(c) /\ IsLiveClaim(d) => c = d

\* Which rows are open in which state: what the context builder relies on
\* when it takes "the" reserved stay for the arrival of the active leg.
RowsMatchState ==
  /\ (\E s \in StayId : stay[s].status = "active") <=> state \in AtHubStates
  /\ (\E s \in StayId : stay[s].status = "reserved") <=>
       (state = "AWAITING_DROPOFF" \/ \E l \in LegId : IsActiveLeg(l))
  /\ \A l \in LegId :
       /\ leg[l].status \in {"requested", "pending_funding"} => state = "AT_HUB"
       /\ leg[l].status = "booked" => state = "LEG_BOOKED"
       /\ leg[l].status = "picked_up" => state = "IN_TRANSIT"
  /\ state = "LEG_BOOKED" => \E l \in LegId : leg[l].status = "booked"
  /\ state = "IN_TRANSIT" => \E l \in LegId : leg[l].status = "picked_up"
  /\ \A c \in ClaimId :
       /\ claim[c].status = "pending_funding" => state = "AT_HUB"
       /\ claim[c].status = "funded" => state = "CLAIMED"
       /\ IsLiveClaim(c) => \A s \in StayId : stay[s].status = "active" => claim[c].stay = s
  /\ state = "CLAIMED" => \E c \in ClaimId : claim[c].status = "funded"

\* The armed timers are exactly the deadlines somebody waits on: no wait is
\* left without its timeout, no timer outlives its wait, and storage is
\* armed wherever the parcel rests except while a carrier is committed.
TimersMatchWaits ==
  /\ \A s \in StayId :
       <<"storage", s>> \in timers <=> stay[s].status = "active" /\ state # "LEG_BOOKED"
  /\ \A l \in LegId :
       /\ <<"deposit_response", l>> \in timers <=> leg[l].status = "requested"
       /\ <<"leg_funding", l>> \in timers <=> leg[l].status = "pending_funding"
       /\ <<"pickup", l>> \in timers <=> leg[l].status = "booked"
       /\ <<"transit", l>> \in timers <=> leg[l].status = "picked_up"
  /\ \A c \in ClaimId :
       <<"claim_funding", c>> \in timers <=> claim[c].status = "pending_funding"

\* While no hold dies at a wallet, whoever has the parcel is bonded, and a
\* carrier moves only with the leg's payment and the next hub's bond locked
\* (docs/ARCHITECTURE.md section 5, invariant 4).
BondedCustodian ==
  ~ HoldsMayDie =>
    /\ \A s \in StayId : IsCurrentStay(s) => pay[HubBond(s)] = "held"
    /\ \A l \in LegId, a \in StayId :
         leg[l].status \in {"booked", "picked_up"} /\ IsArrival(a) =>
           \A p \in LegHolds(l, a) : pay[p] = "held"
    /\ \A c \in ClaimId : claim[c].status = "funded" =>
         \A p \in ClaimHolds(c) : pay[p] = "held"

\* The payments that secure an open row.
Securing ==
  {HubBond(s) : s \in {t \in StayId : stay[t].status \in {"reserved", "active"}}}
  \cup {HubBonus(s) : s \in {t \in StayId :
         IsArrival(t) \/ (stay[t].status = "active" /\ state = "AWAITING_PICKUP")}}
  \cup (UNION {{LegPayment(l), CarrierBond(l)} : l \in PendingLegs})
  \cup ClaimedHolds

\* No hold is ever orphaned: an open one secures an open row or a committed
\* verb is on its way to resolve it; in particular nothing stays locked
\* after a terminal state but for the verbs still to be executed
\* (docs/ARCHITECTURE.md section 5, invariant 2).
OpenHoldsAccounted ==
  LET secured == Securing
  IN  \A p \in Payment :
        pay[p] \in Open => p \in secured \/ \E v \in Verb : <<p, v>> \in intents

\* Money settles toward the payee only for what actually happened: a leg is
\* paid iff it was completed, a carrier's bond is slashed iff the leg failed,
\* a hub's bond never is, and the bonus and the claim reward a delivery.
SettlementMatchesOutcome ==
  /\ \A l \in LegId :
       /\ <<LegPayment(l), "settled">> \in journal <=> leg[l].status = "completed"
       /\ <<CarrierBond(l), "settled">> \in journal <=> leg[l].status = "failed"
  /\ \A s \in StayId :
       /\ <<HubBond(s), "settled">> \notin journal
       /\ <<HubBonus(s), "settled">> \in journal => state = "DELIVERED"
  /\ \A c \in ClaimId :
       <<ClaimPayment(c), "settled">> \in journal <=> claim[c].status = "completed"

\* The audit the nightly reconciliation makes of one payment.
Audit(p) ==
  LET posted(kind) == <<p, kind>> \in journal
  IN  CASE pay[p] \in {"none", "created"} -> \A k \in Entry : ~ posted(k)
        [] pay[p] = "held" -> posted("held") /\ ~ posted("settled") /\ ~ posted("refunded")
        [] pay[p] = "settled" -> posted("held") /\ posted("settled") /\ ~ posted("refunded")
        [] pay[p] = "cancelled" -> ~ posted("settled") /\ (posted("held") <=> posted("refunded"))

\* The machine's entries and the coordinator's add up: once no verb is
\* outstanding for a payment, its journal passes the audit.
JournalPassesAudit ==
  ~ HoldsMayDie =>
    \A p \in Payment : (\A v \in Verb : <<p, v>> \notin intents) => Audit(p)

\* A parcel on the board is never at its own destination, from where no leg
\* with progress exists; one that awaits pickup always is.
NeverIdleAtDestination ==
  \A s \in StayId : stay[s].status = "active" =>
    (stay[s].hub = dest <=> state = "AWAITING_PICKUP")

\* A stay's storage deadline is fixed at its check-in: whatever carriers book
\* and abandon meanwhile, the clock never moves back while the parcel rests.
StorageClockMonotone ==
  [][\A s \in StayId : stay[s].status = "active" /\ stay'[s].status = "active" =>
       /\ due[s] = "past" => due'[s] = "past"
       /\ due[s] = "now" => due'[s] # "ahead"]_vars

\* No wait lasts for ever: a deposit request, a funding window, a booked or a
\* travelling leg, a parcel on a hub's shelf all end, by somebody's act or by
\* the timeout that was armed for them.
EveryWaitEnds == \A r \in Row : Watched(r) ~> ~ Watched(r)

\* After a terminal state every hold is eventually released or refunded.
MoneyComesHome ==
  state \in TerminalStates ~> \A p \in Payment : pay[p] \notin Open

\* A committed refund is eventually carried out, whatever became of its hold.
RefundsConverge ==
  \A p \in Payment : <<p, "refund">> \in intents ~> <<p, "refund">> \notin intents

=============================================================================
