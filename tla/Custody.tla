-------------------------------- MODULE Custody --------------------------------
(***************************************************************************)
(* Who may say what, and who holds the parcel and its secrets.  A route    *)
(* verifies the session, the one-time code or the claim token against the  *)
(* rows it reads (apps/api/src/routes/shipment-lifecycle.ts) and hands the *)
(* machine an event with what it found; the executor applies the event to  *)
(* the rows as they are by then (shipments/executor.ts), in a transaction  *)
(* that also appends to the custody chain, rotates the secrets and queues  *)
(* the mails that carry them.  Other requests and the worker's timeouts    *)
(* commit in between.                                                      *)
(*                                                                         *)
(* Holds, deadlines and prices are left to Shipment, Executor and Pricing. *)
(* The QR code on the parcel never changes and tells nobody apart who has  *)
(* had it in hands, so it is left out.                                     *)
(***************************************************************************)
EXTENDS Integers, FiniteSets

CONSTANTS
  User,
  Hub,
  Owner,       \* hubs.user_id: [Hub -> User]
  Sender,
  Origin, Dest, Recipient,  \* of the shipment as it was created
  AutoAccept,  \* hubs.auto_accept: a subset of Hub
  Nobody, NoHub,
  Racing,      \* the events whose requests may overlap with other requests
  MaxPending,  \* bound: requests between verification and commit
  MaxLegs,     \* bound: leg requests committed
  MaxSecret,   \* bound: one-time codes, and claim tokens, minted
  MaxEvents    \* bound: rows of the custody chain

\* POST /shipments refuses a sender who owns one of the two hubs.
ASSUME SenderOwnsNoEnd ==
  /\ Owner \in [Hub -> User] /\ Origin \in Hub /\ Dest \in Hub /\ Sender \in User
  /\ Owner[Origin] # Sender /\ Owner[Dest] # Sender /\ Origin # Dest
  /\ Nobody \notin User /\ NoHub \notin Hub

VARIABLES
  state, dest, recipient,  \* shipments: status, dest_hub_id, recipient_email
  otp, token,   \* which code, which claim token the stored hashes are of; 0 is null
  here,         \* hub of the current stay
  leg,          \* the requested or active leg row
  claim,        \* the live claim row
  asked,        \* legs requested so far
  mail,         \* secrets sent: [to, template, secret]
  chain,        \* custody_events: how many, whether they fork, the last custodian
  pending,      \* requests verified by their route and not committed yet
  collected     \* who walked away with the parcel

vars == <<state, dest, recipient, otp, token, here, leg, claim, asked, mail,
          chain, pending, collected>>
secrets == <<otp, token, mail>>
parcel == <<state, dest, recipient, here>>

NoLeg == [status |-> "none"]
NoClaim == [status |-> "none"]
AtHub == {"AT_HUB", "LEG_BOOKED", "AWAITING_PICKUP", "CLAIMED"}
ActiveLeg == leg.status \in {"pending_funding", "booked", "picked_up"}
Requested == leg.status = "requested"

Event(type, u) == [type |-> type, by |-> u, tail |-> 0]

\* POST /shipments, once its first transaction has committed: an origin hub that
\* accepts automatically is about to be answered for, by another transition.
Init ==
  /\ state = "DRAFT" /\ dest = Dest /\ recipient = Recipient
  /\ otp = 0 /\ token = 0
  /\ here = NoHub
  /\ leg = NoLeg /\ claim = NoClaim
  /\ asked = 0
  /\ mail = {}
  /\ chain = [length |-> 1, forked |-> FALSE, custodian |-> Sender]
  /\ pending = IF Origin \in AutoAccept
               THEN {[Event("origin_hub_accept", Owner[Origin]) EXCEPT !.tail = 1]} ELSE {}
  /\ collected = Nobody

----------------------------------------------------------------------------
(* The routes: what is checked on the rows they read.                      *)

\* Who owns the hub of the current stay.
currentHubOf == IF here \in Hub THEN Owner[here] ELSE Nobody

\* A secret in a mail that somebody received; a forwarded mail is theirs alone.
Holds(u, template, secret) ==
  secret > 0 /\ [to |-> u, template |-> template, secret |-> secret] \in mail

Send(event) ==
  /\ \/ pending = {}
     \/ /\ Cardinality(pending) < MaxPending
        /\ event.type \in Racing /\ \A r \in pending : r.type \in Racing
  /\ pending' = pending \cup {[event EXCEPT !.tail = chain.length]}
  /\ UNCHANGED <<parcel, secrets, leg, claim, asked, chain, collected>>

\* What a route checks has a name of its own, for Pages to compare with.
MayAcceptParcel(u) == state = "DRAFT" /\ u = Owner[Origin]
OriginAccept(u) == MayAcceptParcel(u) /\ Send(Event("origin_hub_accept", u))

MayCheckInOrigin(u) == state = "AWAITING_DROPOFF" /\ u = currentHubOf
OriginCheckin(u) == MayCheckInOrigin(u) /\ Send(Event("origin_checkin", u))

\* Fault: the arrival hub's owner may carry the leg.
DisjointRoles_to(u, h) ==
  u \notin {Sender, Owner[here]} /\ Owner[h] # Sender
DisjointRoles(u, h) ==
  u \notin {Sender, Owner[here], Owner[h]} /\ Owner[h] # Sender

RequestLeg(u, h) ==
  /\ here \in Hub /\ state \in AtHub
  /\ DisjointRoles(u, h)
  /\ Send([type |-> "leg_request", by |-> u, to |-> h, tail |-> 0])

\* The answers look the pending request up and name it no more.
MayAnswer(u) == Requested /\ u = Owner[leg.to]
AcceptDeposit(u) == MayAnswer(u) /\ Send(Event("deposit_accept", u))
RejectDeposit(u) == MayAnswer(u) /\ Send(Event("deposit_reject", u))

WithdrawDeposit(u) ==
  /\ Requested /\ u = leg.carrier
  /\ Send(Event("deposit_request_cancel", u))

\* The second confirmation of two, whoever gives it; see Checkout.
MayCheckOut(u) == state = "LEG_BOOKED" /\ u \in {leg.carrier, currentHubOf}
PickupCheckout(u) == MayCheckOut(u) /\ Send(Event("pickup_checkout", u))

Checkin(u) == [type |-> "leg_checkin", by |-> u, hub |-> leg.to, tail |-> 0]
MayCheckIn(u) == ActiveLeg /\ u = Owner[leg.to]
LegCheckin(u) == MayCheckIn(u) /\ Send(Checkin(u))

Return(u) == [type |-> "leg_return", by |-> u, hub |-> leg.from, tail |-> 0]
MayReturn(u) == ActiveLeg /\ u = Owner[leg.from]
LegReturn(u) == MayReturn(u) /\ Send(Return(u))

\* Somebody at the counter shows a code, which the hub's owner types in.
MayHandOver(u, w) ==
  /\ here \in Hub /\ u = currentHubOf
  /\ Holds(w, "parcel_arrived", otp)
RecipientPickup(u, w) == MayHandOver(u, w) /\ Send(Event("recipient_pickup", w))

MayClaim(u) ==
  /\ Holds(u, "parcel_tracking", token)
  /\ here \in Hub /\ u \notin {Sender, Owner[here]}
RecipientClaim(u) == MayClaim(u) /\ Send(Event("recipient_claim", u))

MayHandOverClaimed(u, w) ==
  /\ here \in Hub /\ u = currentHubOf
  /\ Holds(w, "parcel_tracking", token)
ClaimedPickup(u, w) ==
  MayHandOverClaimed(u, w) /\ Send(Event("recipient_claimed_pickup", w))

\* Who is being handed the parcel may refuse it; so may the hub for the recipient.
MayReject(u, stage) ==
  CASE stage = "pickup_checkout" -> ActiveLeg /\ u = leg.carrier
    [] stage = "hub_checkin" -> ActiveLeg /\ u = Owner[leg.to]
    [] stage = "recipient_pickup" -> u = currentHubOf
Rejection(u, stage) == [type |-> "handoff_reject", by |-> u, stage |-> stage, tail |-> 0]
HandoffReject(u, stage) == MayReject(u, stage) /\ Send(Rejection(u, stage))

MayReroute(h, w) ==
  /\ here \in Hub
  /\ h # NoHub \/ w # Nobody
  /\ h # NoHub => Owner[h] # Sender
Change(h, w) == [type |-> "reroute", by |-> Sender, to |-> h, recipient |-> w, tail |-> 0]
RerouteTo(h, w) == MayReroute(h, w) /\ Send(Change(h, w))

CancelShipment == Send(Event("cancel", Sender))

Route ==
  \/ \E u \in User :
       \/ OriginAccept(u) \/ OriginCheckin(u)
       \/ AcceptDeposit(u) \/ RejectDeposit(u) \/ WithdrawDeposit(u)
       \/ PickupCheckout(u) \/ LegCheckin(u) \/ LegReturn(u)
       \/ RecipientClaim(u)
       \/ \E h \in Hub : RequestLeg(u, h)
       \/ \E w \in User : RecipientPickup(u, w) \/ ClaimedPickup(u, w)
       \/ \E stage \in {"pickup_checkout", "hub_checkin", "recipient_pickup"} :
            HandoffReject(u, stage)
  \/ \E h \in Hub \cup {NoHub}, w \in User \cup {Nobody} : RerouteTo(h, w)
  \/ CancelShipment

----------------------------------------------------------------------------
(* The transaction: the transition on the rows as they are, and its effects. *)

\* Fault: a request appends behind the tail that its route had read.
ChainTail_of_bundle(tail) == tail
ChainTail(tail) == chain.length

\* Each row names the hash of the row before it.
verifyCustodyChain(tail) == ~chain.forked /\ ChainTail(tail) = chain.length

AppendEvent(tail, custodian) ==
  /\ chain.length < MaxEvents
  /\ chain' = [length    |-> chain.length + 1,
               forked    |-> ~verifyCustodyChain(tail),
               custodian |-> custodian]

OnTheBoard == state = "AT_HUB" /\ leg = NoLeg /\ claim = NoClaim

\* The guards of the machine: what it takes on the rows as they are.
Legal(r) ==
  \/ r.type = "origin_hub_accept" /\ state = "DRAFT"
  \/ r.type = "origin_checkin" /\ state = "AWAITING_DROPOFF"
  \/ r.type = "leg_request" /\ OnTheBoard /\ r.to # here
  \/ /\ r.type \in {"deposit_accept", "deposit_reject", "deposit_request_cancel"}
     /\ state = "AT_HUB" /\ Requested
  \/ r.type = "pickup_checkout" /\ state = "LEG_BOOKED"
  \/ r.type = "leg_checkin" /\ state = "IN_TRANSIT" /\ r.hub = leg.to
  \/ r.type = "leg_return" /\ state = "IN_TRANSIT" /\ r.hub = leg.from
  \/ r.type = "recipient_pickup" /\ state = "AWAITING_PICKUP"
  \/ r.type = "recipient_claim" /\ OnTheBoard /\ r.by \notin {Sender, Owner[here]}
  \/ r.type = "recipient_claimed_pickup" /\ state = "CLAIMED"
  \/ /\ r.type = "handoff_reject"
     /\ \/ r.stage = "pickup_checkout" /\ state = "LEG_BOOKED"
        \/ r.stage = "hub_checkin" /\ state = "IN_TRANSIT"
        \/ r.stage = "recipient_pickup" /\ state \in {"AWAITING_PICKUP", "CLAIMED"}
  \/ /\ r.type = "reroute" /\ state \in {"AT_HUB", "AWAITING_PICKUP"}
     /\ leg = NoLeg /\ claim = NoClaim /\ r.to # here
  \/ /\ r.type = "cancel"
     /\ state \in {"DRAFT", "AWAITING_DROPOFF"} \/ (OnTheBoard /\ here = Origin)

Take(r, type) ==
  /\ r.type = type /\ Legal(r)
  /\ pending' = pending \ {r}

rotateOtp == otp < MaxSecret /\ otp' = otp + 1
rotateClaimToken == token < MaxSecret /\ token' = token + 1

\* Fault: only the destination's change reissues the one-time code.
ReissuedCode_on_move(to, w) == IF to = NoHub THEN UNCHANGED otp ELSE rotateOtp
ReissuedCode(to, w) == rotateOtp
\* The claim token is the old recipient's: it goes with them.
ReissuedToken(w) == IF w = Nobody THEN UNCHANGED token ELSE rotateClaimToken

\* The mails that carry a secret, minted in the same transaction.
Arrived(to) == [to |-> to, template |-> "parcel_arrived", secret |-> otp']
Tracking(to) == [to |-> to, template |-> "parcel_tracking", secret |-> token']

origin_hub_accept(r) ==
  /\ Take(r, "origin_hub_accept")
  /\ state' = "AWAITING_DROPOFF" /\ here' = Origin
  /\ AppendEvent(r.tail, chain.custodian)
  /\ UNCHANGED <<dest, recipient, secrets, leg, claim, asked, collected>>

origin_checkin(r) ==
  /\ Take(r, "origin_checkin")
  /\ state' = "AT_HUB"
  /\ AppendEvent(r.tail, Owner[here])
  /\ rotateClaimToken /\ mail' = mail \cup {Tracking(recipient)}
  /\ UNCHANGED <<dest, recipient, here, otp, leg, claim, asked, collected>>

\* A hub that accepts automatically is answered for at once, by another
\* transition of the same request.
leg_request(r) ==
  /\ r.type = "leg_request" /\ Legal(r)
  /\ asked < MaxLegs
  /\ leg' = [status |-> "requested", carrier |-> r.by, from |-> here, to |-> r.to]
  /\ asked' = asked + 1
  /\ AppendEvent(r.tail, chain.custodian)
  /\ pending' = (pending \ {r}) \cup
       IF r.to \in AutoAccept
       THEN {[type |-> "deposit_accept", by |-> Owner[r.to], tail |-> chain.length]}
       ELSE {}
  /\ UNCHANGED <<parcel, secrets, claim, collected>>

deposit_accept(r) ==
  /\ Take(r, "deposit_accept")
  /\ leg' = [leg EXCEPT !.status = "pending_funding"]
  /\ AppendEvent(r.tail, chain.custodian)
  /\ UNCHANGED <<parcel, secrets, claim, asked, collected>>

deposit_refused(r) ==
  /\ \E type \in {"deposit_reject", "deposit_request_cancel"} : Take(r, type)
  /\ leg' = NoLeg
  /\ AppendEvent(r.tail, chain.custodian)
  /\ UNCHANGED <<parcel, secrets, claim, asked, collected>>

pickup_checkout(r) ==
  /\ Take(r, "pickup_checkout")
  /\ state' = "IN_TRANSIT" /\ here' = NoHub
  /\ leg' = [leg EXCEPT !.status = "picked_up"]
  /\ AppendEvent(r.tail, leg.carrier)
  /\ UNCHANGED <<dest, recipient, secrets, claim, asked, collected>>

\* A journey takes longer than a request: none that was verified at the hub the
\* parcel has left is still under way when it arrives.
leg_checkin(r) ==
  /\ Take(r, "leg_checkin")
  /\ \A q \in pending : q.type \in {"leg_checkin", "leg_return", "handoff_reject", "cancel"}
  /\ here' = leg.to /\ leg' = NoLeg
  /\ AppendEvent(r.tail, Owner[leg.to])
  /\ IF leg.to = dest
     THEN /\ state' = "AWAITING_PICKUP"
          /\ rotateOtp /\ mail' = mail \cup {Arrived(recipient)}
     ELSE state' = "AT_HUB" /\ UNCHANGED <<otp, mail>>
  /\ UNCHANGED <<dest, recipient, token, claim, asked, collected>>

leg_return(r) ==
  /\ Take(r, "leg_return")
  /\ state' = "AT_HUB" /\ here' = leg.from /\ leg' = NoLeg
  /\ AppendEvent(r.tail, Owner[leg.from])
  /\ UNCHANGED <<dest, recipient, secrets, claim, asked, collected>>

recipient_pickup(r) ==
  /\ Take(r, "recipient_pickup")
  /\ state' = "DELIVERED" /\ here' = NoHub /\ collected' = r.by
  /\ AppendEvent(r.tail, r.by)
  /\ UNCHANGED <<dest, recipient, secrets, leg, claim, asked>>

recipient_claim(r) ==
  /\ Take(r, "recipient_claim")
  /\ claim' = [status |-> "pending_funding", claimant |-> r.by]
  /\ AppendEvent(r.tail, chain.custodian)
  /\ UNCHANGED <<parcel, secrets, leg, asked, collected>>

recipient_claimed_pickup(r) ==
  /\ Take(r, "recipient_claimed_pickup")
  /\ state' = "DELIVERED" /\ here' = NoHub /\ collected' = r.by
  /\ claim' = [claim EXCEPT !.status = "completed"]
  /\ AppendEvent(r.tail, r.by)
  /\ UNCHANGED <<dest, recipient, secrets, leg, asked>>

handoff_reject(r) ==
  /\ Take(r, "handoff_reject")
  /\ AppendEvent(r.tail, chain.custodian)
  /\ UNCHANGED <<parcel, secrets, leg, claim, asked, collected>>

\* Fault: a new recipient of a parcel at its destination is not invited.
Invites_not(w) == IF w = Nobody THEN {} ELSE {Tracking(w)}
Invites(w) ==
  (IF w = Nobody THEN {} ELSE {Tracking(w)})
  \cup (IF state' = "AWAITING_PICKUP" THEN {Arrived(recipient')} ELSE {})

reroute(r) ==
  /\ Take(r, "reroute")
  /\ dest' = IF r.to = NoHub THEN dest ELSE r.to
  /\ recipient' = IF r.recipient = Nobody THEN recipient ELSE r.recipient
  /\ state' = IF state = "AWAITING_PICKUP" /\ r.to = NoHub THEN state ELSE "AT_HUB"
  /\ ReissuedCode(r.to, r.recipient)
  /\ ReissuedToken(r.recipient)
  /\ mail' = mail \cup Invites(r.recipient)
  /\ AppendEvent(r.tail, chain.custodian)
  /\ UNCHANGED <<here, leg, claim, asked, collected>>

cancel(r) ==
  /\ Take(r, "cancel")
  /\ state' = "CANCELLED" /\ here' = NoHub
  /\ AppendEvent(r.tail, chain.custodian)
  /\ UNCHANGED <<dest, recipient, secrets, leg, claim, asked, collected>>

\* The machine refuses, the transaction conflicts, or an error ends the request.
Refused(r) ==
  /\ pending' = pending \ {r}
  /\ UNCHANGED <<parcel, secrets, leg, claim, asked, chain, collected>>

Transaction ==
  \E r \in pending :
    \/ origin_hub_accept(r) \/ origin_checkin(r)
    \/ leg_request(r) \/ deposit_accept(r) \/ deposit_refused(r)
    \/ pickup_checkout(r) \/ leg_checkin(r) \/ leg_return(r)
    \/ recipient_pickup(r) \/ recipient_claim(r) \/ recipient_claimed_pickup(r)
    \/ handoff_reject(r) \/ reroute(r) \/ cancel(r)
    \/ Refused(r)

----------------------------------------------------------------------------
(* The worker: holds observed and deadlines passed.  A request does not    *)
(* stay between its route and its transaction for as long as these take,   *)
(* but for an answer that comes in the last second of its window.          *)

leg_funded ==
  /\ pending = {} /\ leg.status = "pending_funding"
  /\ state' = "LEG_BOOKED" /\ leg' = [leg EXCEPT !.status = "booked"]
  /\ AppendEvent(chain.length, chain.custodian)
  /\ UNCHANGED <<dest, recipient, here, secrets, claim, asked, pending, collected>>

claim_funded ==
  /\ pending = {} /\ claim.status = "pending_funding"
  /\ state' = "CLAIMED" /\ claim' = [claim EXCEPT !.status = "funded"]
  /\ AppendEvent(chain.length, chain.custodian)
  /\ UNCHANGED <<dest, recipient, here, secrets, leg, asked, pending, collected>>

\* deposit_request_expired, leg_funding_expired, pickup_timeout, claim_funding_expired.
Expired ==
  /\ \/ Requested
     \/ pending = {} /\ leg.status \in {"pending_funding", "booked"}
     \/ pending = {} /\ claim.status = "pending_funding"
  /\ state' = "AT_HUB" /\ leg' = NoLeg /\ claim' = NoClaim
  /\ AppendEvent(chain.length, chain.custodian)
  /\ UNCHANGED <<dest, recipient, here, secrets, asked, pending, collected>>

storage_expiry ==
  /\ pending = {} /\ state \in {"AT_HUB", "AWAITING_PICKUP", "CLAIMED"}
  /\ state' = "FORFEITED" /\ here' = NoHub /\ leg' = NoLeg /\ claim' = NoClaim
  /\ AppendEvent(chain.length, chain.custodian)
  /\ UNCHANGED <<dest, recipient, secrets, asked, pending, collected>>

transit_timeout ==
  /\ pending = {} /\ state = "IN_TRANSIT"
  /\ state' = "LOST" /\ leg' = NoLeg
  /\ AppendEvent(chain.length, chain.custodian)
  /\ UNCHANGED <<dest, recipient, here, secrets, claim, asked, pending, collected>>

Next ==
  Route \/ Transaction \/ leg_funded \/ claim_funded \/ Expired \/ storage_expiry \/ transit_timeout

Spec == Init /\ [][Next]_vars

----------------------------------------------------------------------------
(* Properties.                                                             *)

\* Payer and payee of everything that is, or is about to be, paid or held.
Payments ==
  (IF here \in Hub THEN {<<Owner[here], Sender>>} ELSE {})
  \cup (IF leg = NoLeg THEN {}
        ELSE {<<Sender, leg.carrier>>, <<leg.carrier, Sender>>, <<Owner[leg.to], Sender>>,
              <<Sender, Owner[leg.to]>>, <<leg.carrier, Owner[leg.from]>>,
              <<leg.carrier, Owner[leg.to]>>})
  \cup (IF claim = NoClaim THEN {}
        ELSE {<<Sender, claim.claimant>>})

\* The routes keep the parties apart, because a hold or a fee from somebody to
\* himself cannot exist: no commit finds payer and payee the same, wherever the
\* parcel was rerouted or returned to since the check.
SelfPaymentImpossible == \A p \in Payments : p[1] # p[2]

\* The custody chain stays one line: a fork would make every later load throw.
\* Its last custodian is the party that the rows say has the parcel.
ChainAgreesWithRows ==
  /\ ~chain.forked
  /\ state \in AtHub => chain.custodian = Owner[here]
  /\ state = "IN_TRANSIT" => chain.custodian = leg.carrier

\* Whoever is the recipient now has been sent the secrets that open the parcel now.
RecipientHoldsLiveSecrets ==
  /\ state = "AWAITING_PICKUP" => Holds(recipient, "parcel_arrived", otp)
  /\ state \in AtHub \cup {"IN_TRANSIT"} => Holds(recipient, "parcel_tracking", token)

\* Comment at `case 'reroute'`: the code is reissued so that the old recipient's
\* mail can no longer collect.  Who collects is the recipient, and the claimant
\* who is paid for it.
CollectedByRecipient ==
  collected # Nobody =>
    collected = recipient /\ (claim # NoClaim => claim.claimant = collected)
=============================================================================
