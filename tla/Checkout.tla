------------------------------- MODULE Checkout -------------------------------
(***************************************************************************)
(* Handing the parcel over against an instant fee: the double confirmation *)
(* of a pickup, the check-in at the arrival hub and the sender's           *)
(* cancellation, each of which pays a fee from wallet to wallet before its *)
(* transaction, with the pickup timeout and other requests in between.     *)
(*                                                                         *)
(* Sources: the pickup-checkout, checkin and cancel handlers of            *)
(* apps/api/src/routes/shipment-lifecycle.ts, shipments/instant.ts, and    *)
(* the phases of shipments/executor.ts around it.  One parcel with legs    *)
(* one after the other; holds and bonds are the subject of Shipment.       *)
(***************************************************************************)
EXTENDS Integers, FiniteSets, Sequences

CONSTANTS
  Caller,       \* HTTP requests that may be in flight at once
  Role,         \* [Caller -> {"hub", "carrier", "arrival", "sender"}]
  Legs,         \* bound: legs are numbered 1 .. Legs
  Window,       \* CHECKOUT_CONFIRMATION_WINDOW_MINUTES
  PickupAfter,  \* time from the booking of a leg to its pickup deadline
  MaxTime,      \* bound: the clock
  MaxInvoices,  \* bound: invoices issued
  MaxRequests,  \* [Caller -> Nat], bound: requests that a caller makes
  PayersAtOnce, \* how many requests may be between their snapshot and their end
  MayReroute,   \* whether the sender reroutes (and so changes the compensation)
  MayStall      \* whether a request may stall until another leg is booked

ASSUME RolesKnown == Role \in [Caller -> {"hub", "carrier", "arrival", "sender"}]
ASSUME WindowsPositive == Window \in Nat \ {0} /\ PickupAfter \in Nat \ {0}
ASSUME CallersAreMany == IsFiniteSet(Caller) /\ Legs \in Nat \ {0}

VARIABLES
  now,
  state,      \* AT_HUB, LEG_BOOKED, IN_TRANSIT or CANCELLED
  leg,        \* the current or the last leg
  deadline,   \* pickup deadline of the leg
  confirmed,  \* per leg and party, when it confirmed the checkout; 0 is null
  work,       \* which commitment the compensation is computed from
  row,        \* instant_payments by idempotency key, or NoRow
  invoice,    \* the invoices issued at payees' wallets, in order
  request,    \* what each HTTP request in flight has read and does next
  made,       \* requests made per caller
  pickedUp    \* legs whose pickup_checkout committed

vars == <<now, state, leg, deadline, confirmed, work, row, invoice, request,
          made, pickedUp>>
wallets == <<row, invoice>>

Leg == 1 .. Legs
Key == ({"dep_hub_fee", "arr_hub_fee"} \X Leg) \cup {<<"cancellation_compensation", 0>>}
NoRow == [state |-> "none"]
Idle == [pc |-> "idle"]

Init ==
  /\ now = 1
  /\ state = "LEG_BOOKED" /\ leg = 1 /\ deadline = 1 + PickupAfter
  /\ confirmed = [l \in Leg |-> [hub |-> 0, carrier |-> 0]]
  /\ work = 1
  /\ row = [k \in Key |-> NoRow]
  /\ invoice = <<>>
  /\ request = [c \in Caller |-> Idle]
  /\ made = [c \in Caller |-> 0]
  /\ pickedUp = {}

At(c, pc) == request[c].pc = pc
Goto(c, pc) == request' = [request EXCEPT ![c].pc = pc]
Answer(c) == request' = [request EXCEPT ![c] = Idle]

Paying == {c \in Caller : request[c].pc \in {"findRow", "invoice", "pay", "lookup", "commit"}}

----------------------------------------------------------------------------
(* The handlers up to the executor.                                        *)

Begin(c) ==
  /\ At(c, "idle") /\ made[c] < MaxRequests[c]
  /\ made' = [made EXCEPT ![c] = @ + 1]

(* POST pickup-checkout: the leg is read with the bundle ...                *)
CheckoutRequest(c) ==
  /\ Begin(c) /\ Role[c] \in {"hub", "carrier"}
  /\ state = "LEG_BOOKED"
  /\ request' = [request EXCEPT ![c] =
                   [pc |-> "confirm", event |-> "pickup_checkout", now |-> now, leg |-> leg]]
  /\ UNCHANGED <<now, state, leg, deadline, confirmed, work, wallets, pickedUp>>

(* ... its row updated without looking at it again ...                      *)
Confirm(c) ==
  /\ At(c, "confirm")
  /\ confirmed' = [confirmed EXCEPT ![request[c].leg][Role[c]] = request[c].now]
  /\ Goto(c, "fresh")
  /\ UNCHANGED <<now, state, leg, deadline, work, wallets, made, pickedUp>>

\* Fault: the confirmation of the caller alone is enough.
BothIn_either(l) == confirmed[l].hub > 0 \/ confirmed[l].carrier > 0
BothIn(l) ==
  LET t == confirmed[l] IN
  /\ t.hub > 0 /\ t.carrier > 0
  /\ t.hub - t.carrier \in -Window .. Window

(* ... and read back, to see whether the other party is in.                 *)
ReadFresh(c) ==
  /\ At(c, "fresh")
  /\ IF BothIn(request[c].leg)
     THEN Goto(c, "snapshot")
     ELSE Answer(c)
  /\ UNCHANGED <<now, state, leg, deadline, confirmed, work, wallets, made, pickedUp>>

CheckinRequest(c) ==
  /\ Begin(c) /\ Role[c] = "arrival"
  /\ state \in {"LEG_BOOKED", "IN_TRANSIT"}
  /\ request' = [request EXCEPT ![c] = [pc |-> "snapshot", event |-> "leg_checkin", now |-> now]]
  /\ UNCHANGED <<now, state, leg, deadline, confirmed, work, wallets, pickedUp>>

CancelRequest(c) ==
  /\ Begin(c) /\ Role[c] = "sender"
  /\ request' = [request EXCEPT ![c] = [pc |-> "snapshot", event |-> "cancel", now |-> now]]
  /\ UNCHANGED <<now, state, leg, deadline, confirmed, work, wallets, pickedUp>>

----------------------------------------------------------------------------
(* The executor: the transition on a snapshot, the fee, the transaction.   *)

Legal(event, t) ==
  CASE event = "pickup_checkout" -> state = "LEG_BOOKED" /\ t <= deadline
    [] event = "leg_checkin"     -> state = "IN_TRANSIT"
    [] event = "cancel"          -> state = "AT_HUB" /\ pickedUp = {}  \* at the origin

\* The request_instant_payment of the event in this state: its key and amount.
Fee(event) ==
  CASE event = "pickup_checkout" -> [key |-> <<"dep_hub_fee", leg>>, amount |-> 1]
    [] event = "leg_checkin"     -> [key |-> <<"arr_hub_fee", leg>>, amount |-> 1]
    [] event = "cancel"          ->
         [key |-> <<"cancellation_compensation", 0>>, amount |-> work]

Snapshot(c) ==
  /\ At(c, "snapshot")
  /\ IF Legal(request[c].event, request[c].now)
     THEN /\ Cardinality(Paying) < PayersAtOnce
          /\ request' = [request EXCEPT ![c] = [pc |-> "findRow", event |-> @.event,
                           now |-> @.now, fee |-> Fee(@.event), hash |-> 0]]
     ELSE Answer(c)
  /\ UNCHANGED <<now, state, leg, deadline, confirmed, work, wallets, made, pickedUp>>

findOrCreateRow(c) ==
  LET fee == request[c].fee
      found == IF row[fee.key] # NoRow THEN row[fee.key]
               ELSE [state |-> "pending", amount |-> fee.amount, hash |-> 0]
  IN
  /\ At(c, "findRow")
  /\ row' = [row EXCEPT ![fee.key] = found]
  /\ IF found.amount # fee.amount
     THEN Answer(c)
     ELSE /\ request' = [request EXCEPT
                           ![c].pc = IF found.state = "settled" THEN "commit"
                                     ELSE IF found.hash = 0 THEN "invoice" ELSE "pay",
                           ![c].hash = found.hash]
  /\ UNCHANGED <<now, state, leg, deadline, confirmed, work, invoice, made, pickedUp>>

\* Fault: the invoice is not stored, so that a retry issues another.
StoredHash_not(old, hash) == old
StoredHash(old, hash) == hash

(* makeInvoice and the update of the row, with a crash or an error between. *)
MakeInvoice(c) ==
  LET hash == Len(invoice) + 1
      key == request[c].fee.key
  IN
  /\ At(c, "invoice")
  /\ hash <= MaxInvoices
  /\ invoice' = Append(invoice, [key |-> key, state |-> "open"])
  /\ row' = [row EXCEPT ![key].hash = StoredHash(@, hash)]
  /\ request' = [request EXCEPT ![c].pc = "pay", ![c].hash = hash]
  /\ UNCHANGED <<now, state, leg, deadline, confirmed, work, made, pickedUp>>

InvoiceFails(c) ==
  /\ At(c, "invoice")
  /\ Answer(c)
  /\ UNCHANGED <<now, state, leg, deadline, confirmed, work, wallets, made, pickedUp>>

(* payInvoice: dispatched or refused, the settlement is looked up either    *)
(* way; a wallet refuses what it already pays or paid.                      *)
PayInvoice(c) ==
  /\ At(c, "pay")
  /\ \/ /\ invoice[request[c].hash].state = "open"
        /\ invoice' = [invoice EXCEPT ![request[c].hash].state = "inflight"]
     \/ UNCHANGED invoice
  /\ Goto(c, "lookup")
  /\ UNCHANGED <<now, state, leg, deadline, confirmed, work, row, made, pickedUp>>

\* Fault: a dispatched payment counts as settled.
Observed_dispatched(hash) == invoice[hash].state \in {"inflight", "settled"}
Observed(hash) == invoice[hash].state = "settled"

LookupInvoice(c) ==
  /\ At(c, "lookup")
  /\ IF Observed(request[c].hash)
     THEN /\ row' = [row EXCEPT ![request[c].fee.key].state = "settled"]
          /\ Goto(c, "commit")
     ELSE Answer(c) /\ UNCHANGED row
  /\ UNCHANGED <<now, state, leg, deadline, confirmed, work, invoice, made, pickedUp>>

After(event) ==
  CASE event = "pickup_checkout" -> "IN_TRANSIT"
    [] event = "leg_checkin"     -> "AT_HUB"
    [] event = "cancel"          -> "CANCELLED"

Unchanged(r) == r.fee = Fee(r.event)

(* The transaction: the transition again, under the lock, with the same     *)
(* effects; the checkout handler answers a conflict as done.                *)
Commit(c) ==
  LET r == request[c] IN
  /\ At(c, "commit")
  /\ IF Legal(r.event, r.now) /\ Unchanged(r)
     THEN /\ state' = After(r.event)
          /\ pickedUp' = IF r.event = "pickup_checkout" THEN pickedUp \cup {leg} ELSE pickedUp
     ELSE UNCHANGED <<state, pickedUp>>
  /\ Answer(c)
  /\ UNCHANGED <<now, leg, deadline, confirmed, work, wallets, made>>

----------------------------------------------------------------------------
(* What else happens.                                                      *)

\* The process ends, or the caller gives up and the request with it.
Crash(c) ==
  /\ ~At(c, "idle")
  /\ request' = [request EXCEPT ![c] = Idle]
  /\ UNCHANGED <<now, state, leg, deadline, confirmed, work, wallets, made, pickedUp>>

\* A payment in flight arrives, or fails back and may be tried again.
Settle(i) ==
  /\ invoice[i].state = "inflight"
  /\ \E s \in {"settled", "open"} : invoice' = [invoice EXCEPT ![i].state = s]
  /\ UNCHANGED <<now, state, leg, deadline, confirmed, work, row, request, made, pickedUp>>

pickup_timeout ==
  /\ state = "LEG_BOOKED" /\ now >= deadline
  /\ state' = "AT_HUB"
  /\ UNCHANGED <<now, leg, deadline, confirmed, work, wallets, request, made, pickedUp>>

\* Another carrier requests a leg, is accepted and funded, which takes minutes.
BookLeg ==
  /\ state = "AT_HUB" /\ leg < Legs
  /\ MayStall \/ \A c \in Caller : request[c].pc \notin {"confirm", "fresh", "snapshot"}
  /\ state' = "LEG_BOOKED" /\ leg' = leg + 1 /\ deadline' = now + PickupAfter
  /\ UNCHANGED <<now, confirmed, work, wallets, request, made, pickedUp>>

\* The sender reroutes: the commitment of the new segment is another amount.
Reroute ==
  /\ MayReroute /\ state = "AT_HUB" /\ work = 1
  /\ work' = 2
  /\ UNCHANGED <<now, state, leg, deadline, confirmed, wallets, request, made, pickedUp>>

Tick ==
  /\ now < MaxTime
  /\ now' = now + 1
  /\ UNCHANGED <<state, leg, deadline, confirmed, work, wallets, request, made, pickedUp>>

Next ==
  \/ \E c \in Caller :
       \/ CheckoutRequest(c) \/ Confirm(c) \/ ReadFresh(c)
       \/ CheckinRequest(c) \/ CancelRequest(c)
       \/ Snapshot(c) \/ findOrCreateRow(c) \/ MakeInvoice(c) \/ InvoiceFails(c)
       \/ PayInvoice(c) \/ LookupInvoice(c) \/ Commit(c)
       \/ Crash(c)
  \/ \E i \in DOMAIN invoice : Settle(i)
  \/ pickup_timeout \/ BookLeg \/ Reroute \/ Tick

Spec == Init /\ [][Next]_vars

----------------------------------------------------------------------------
(* Properties.                                                             *)

PaidOrPaying(k) ==
  {i \in DOMAIN invoice : invoice[i].key = k /\ invoice[i].state \in {"inflight", "settled"}}

\* instant.ts: however often a handoff is retried, after errors, crashes and
\* payments that settle late, no more than one payment of its fee is under way.
FeePaidOnce == \A k \in Key : Cardinality(PaidOrPaying(k)) <= 1

\* ESCROW.md: certification unlocks on payment.  A leg is picked up, and a
\* shipment cancelled, only after the payee's wallet holds the fee of that leg.
CertifiedIsPaid ==
  LET Paid(k) == \E i \in DOMAIN invoice : invoice[i] = [key |-> k, state |-> "settled"]
  IN /\ \A l \in pickedUp : Paid(<<"dep_hub_fee", l>>)
     /\ state = "CANCELLED" => Paid(<<"cancellation_compensation", 0>>)

\* A leg is picked up only after both parties have confirmed that very leg,
\* whatever payments for an earlier leg are still in flight.
PickedUpWasConfirmed ==
  \A l \in pickedUp : confirmed[l].hub > 0 /\ confirmed[l].carrier > 0
=============================================================================
