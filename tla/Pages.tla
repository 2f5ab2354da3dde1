-------------------------------- MODULE Pages --------------------------------
(***************************************************************************)
(* What the pages show and offer.  The web client cannot ask the machine   *)
(* what is legal: each page works out from the detail it loaded which      *)
(* operations to offer (apps/web/app), a second statement of the rules the *)
(* routes and the state machine enforce.  The detail is read from closed   *)
(* rows too, and from the custody chain where it has no row for a fact:    *)
(* which legs there were and how they ended, which hubs had the parcel,    *)
(* what became of each claim.  Those are the variables added here; they    *)
(* are written by the same transactions as Custody's.                      *)
(*                                                                         *)
(* A page is taken as it is right after loading; what happens between that *)
(* and the request is Custody's interleaving of routes and transactions.   *)
(***************************************************************************)
EXTENDS Custody, Sequences, SequencesExt

CONSTANT MaxTold  \* bound: events about claims in the custody chain

\* hubs.user_id is unique; whom a shipment is for is one of the people there are.
ASSUME OneHubEach ==
  /\ \A g, h \in Hub : Owner[g] = Owner[h] => g = h
  /\ Recipient \in User

VARIABLES
  past,    \* legs whose row is closed: [carrier, from, to, status]
  hosted,  \* hubs with a stay whose checked_in_at is set
  claims,  \* shipment_claims, in order
  told,    \* custody events about claims, in order: [type, by, claim, reason]
  engaged  \* history: <<user, role>> who had the parcel, or put up a hold for it

rows == <<past, hosted, claims, told, engaged>>

PagesInit ==
  /\ Init
  /\ past = {} /\ hosted = {} /\ claims = <<>> /\ told = <<>>
  /\ engaged = {<<Sender, "sender">>}

Terminal == {"DELIVERED", "CANCELLED", "FORFEITED", "LOST"}

----------------------------------------------------------------------------
(* The rows that each transaction closes or adds (applyRowChanges).        *)

ClosedAs ==
  CASE leg.status \in {"requested", "pending_funding"} -> "expired"
    [] leg.status = "booked" \/ state' = "LOST" -> "failed"
    [] leg.status = "picked_up" /\ here' = leg.to -> "completed"
    [] OTHER -> "returned"

LegRows ==
  past' = IF leg # NoLeg /\ leg' = NoLeg
          THEN past \cup {[leg EXCEPT !.status = ClosedAs]} ELSE past

StayRows == hosted' = IF state' \in AtHub THEN hosted \cup {here'} ELSE hosted

ClaimEvent(type, reason) ==
  /\ Len(told) < MaxTold
  /\ told' = Append(told, [type |-> type, claim |-> Len(claims'), reason |-> reason,
                           by |-> IF type = "claim_requested"
                                  THEN claim'.claimant ELSE Nobody])

\* An expiry of the storage says so and names no claim.
ClaimRows ==
  IF claim' = claim THEN UNCHANGED <<claims, told>>
  ELSE LET status == CASE claim' = NoClaim -> "expired" [] OTHER -> claim'.status IN
       /\ claims' = IF claim = NoClaim
                    THEN Append(claims, claim')
                    ELSE [claims EXCEPT ![Len(claims)].status = status]
       /\ CASE status = "pending_funding" -> ClaimEvent("claim_requested", "none")
            [] status = "funded" -> ClaimEvent("funded", "none")
            [] status = "expired" /\ state' = "AT_HUB" -> ClaimEvent("expired", "claim_funding")
            [] OTHER -> UNCHANGED told

Engaged ==
  engaged' = engaged \cup
    (IF state' \in AtHub THEN {<<chain'.custodian, "hub">>} ELSE {}) \cup
    (IF state' = "LEG_BOOKED" THEN {<<leg'.carrier, "carrier">>} ELSE {}) \cup
    (IF state' = "CLAIMED" THEN {<<claim'.claimant, "carrier">>} ELSE {})

PagesNext == Next /\ LegRows /\ StayRows /\ ClaimRows /\ Engaged

PagesSpec == PagesInit /\ [][PagesNext]_<<vars, rows>>

----------------------------------------------------------------------------
(* GET /shipments/:id.                                                     *)

Legs == past \cup (IF leg = NoLeg THEN {} ELSE {leg})
hubById == {Origin, dest} \cup UNION {{l.from, l.to} : l \in Legs}

\* Anybody else is told that there is no such shipment.
isParticipant(u) ==
  \/ u = Sender
  \/ \E h \in hubById : Owner[h] = u
  \/ \E l \in Legs : l.carrier = u
  \/ \E i \in DOMAIN claims : claims[i].claimant = u

FundedLegStatuses == {"booked", "picked_up", "completed", "returned", "failed"}

\* A claim that died with the storage ends like one that was never funded;
\* the chain tells them apart.  Fault: the row alone is looked at.
ClaimCounts_by_row(i) == claims[i].status \in {"funded", "completed"}
ClaimCounts(i) ==
  \/ claims[i].status \in {"funded", "completed"}
  \/ \E e \in ToSet(told) : e.type = "funded" /\ e.claim = i

effectiveParticipants ==
  {<<Sender, "sender">>}
  \cup {<<l.carrier, "carrier">> : l \in {k \in Legs : k.status \in FundedLegStatuses}}
  \cup {<<Owner[h], "hub">> : h \in hosted}
  \cup {<<claims[i].claimant, "carrier">> : i \in {j \in DOMAIN claims : ClaimCounts(j)}}

viewerCanReview(u) == \E p \in effectiveParticipants : p[1] = u

----------------------------------------------------------------------------
(* Reviews, within the window and once per author and subject.             *)

ReviewAccepted(u, subject, role) ==
  /\ state \in Terminal
  /\ viewerCanReview(u)
  /\ role = "hub" /\ subject # u
  /\ <<subject, role>> \in effectiveParticipants

ReviewOffered(u, subject) ==
  /\ isParticipant(u) /\ state \in Terminal /\ viewerCanReview(u)
  /\ subject # u /\ <<subject, "hub">> \in effectiveParticipants

----------------------------------------------------------------------------
(* The pages of a hub: its dashboard, and a shipment's operations.         *)

MyHub(u) == IF \E h \in Hub : Owner[h] = u THEN CHOOSE h \in Hub : Owner[h] = u ELSE NoHub

DashboardOffers(u) ==
  (IF state = "DRAFT" /\ MyHub(u) = Origin THEN {"origin_hub_accept"} ELSE {})
  \cup (IF Requested /\ MyHub(u) = leg.to THEN {"deposit_accept", "deposit_reject"} ELSE {})

\* The stays reserved or hosted, each with a link to its operations.
DashboardStay(u) ==
  \/ here \in Hub /\ here = MyHub(u)
  \/ ActiveLeg /\ leg.to = MyHub(u)

isCustodian(u) == here \in Hub /\ here = MyHub(u)
\* Of the legs, the one whose row says picked_up.
Carried == {l \in Legs : l.status = "picked_up"}

AcceptPanel(u) == state = "DRAFT" /\ Origin = MyHub(u)
CheckinPanel(u) == state = "AWAITING_DROPOFF" /\ isCustodian(u)
CheckoutPanel(u) == state = "LEG_BOOKED" /\ isCustodian(u)
\* Fault: any leg bound here that is not over, picked up or not.
ArrivalPanel_unmoved(u) == state \in {"LEG_BOOKED", "IN_TRANSIT"} /\ \E l \in Legs :
  l.status \in {"booked", "picked_up"} /\ l.to = MyHub(u)
ArrivalPanel(u) == state = "IN_TRANSIT" /\ \E l \in Carried : l.to = MyHub(u)
ReturnPanel(u) == state = "IN_TRANSIT" /\ \E l \in Carried : l.from = MyHub(u)
PickupPanel(u) == state = "AWAITING_PICKUP" /\ isCustodian(u)
ClaimedPanel(u) == state = "CLAIMED" /\ isCustodian(u)

OpsOffers(u) ==
  (IF AcceptPanel(u) THEN {"origin_hub_accept"} ELSE {})
  \cup (IF CheckinPanel(u) THEN {"origin_checkin"} ELSE {})
  \cup (IF CheckoutPanel(u) THEN {"pickup_checkout"} ELSE {})
  \cup (IF ArrivalPanel(u) THEN {"leg_checkin"} ELSE {})
  \cup (IF ReturnPanel(u) THEN {"leg_return"} ELSE {})
  \cup (IF PickupPanel(u) THEN {"recipient_pickup"} ELSE {})
  \cup (IF ClaimedPanel(u) THEN {"recipient_claimed_pickup"} ELSE {})

rejectStage(u) ==
  CASE state = "IN_TRANSIT" /\ (\E l \in Carried : l.to = MyHub(u)) -> {"hub_checkin"}
    [] state \in {"AWAITING_PICKUP", "CLAIMED"} /\ isCustodian(u) -> {"recipient_pickup"}
    [] OTHER -> {}

----------------------------------------------------------------------------
(* The shipment's page, for its sender and its carrier.                    *)

SENDER_ACTIONS ==
  [DRAFT |-> {"cancel"}, AWAITING_DROPOFF |-> {"cancel"},
   AT_HUB |-> {"reroute", "cancel"}, AWAITING_PICKUP |-> {"reroute"}]

SenderOffers == IF state \in DOMAIN SENDER_ACTIONS THEN SENDER_ACTIONS[state] ELSE {}

\* The picker leaves out the present destination; the form asks for one change.
RerouteForm(h, w) == h # dest /\ (h # NoHub \/ w # Nobody)

\* The amounts shown as pending or as held are those of this leg.
holdLeg == {l \in Legs : l.status \in {"pending_funding", "booked"}}

bookedLeg(u) == {l \in Legs : l.status = "booked" /\ l.carrier = u}
CarrierPanel(u) == state = "LEG_BOOKED" /\ bookedLeg(u) # {}

----------------------------------------------------------------------------
(* The recipient's page.                                                   *)

\* Whether my last claim still waits for its funding, as the chain tells it.
ClaimPending(u) ==
  \E k \in DOMAIN told :
    /\ told[k].type = "claim_requested" /\ told[k].by = u
    /\ \A j \in DOMAIN told : j > k =>
         /\ told[j].type = "claim_requested" => told[j].by # u
         /\ told[j].type = "funded" => told[j].claim # told[k].claim
         /\ told[j].type = "expired" => told[j].reason # "claim_funding"

\* The detail is not found: the form is the whole page.
StrangersPage(u) == ~isParticipant(u)
WaitingSection(u) == isParticipant(u) /\ state = "AT_HUB"

ClaimForm(u) == StrangersPage(u) \/ (WaitingSection(u) /\ ~ClaimPending(u))

\* The token, for the hub to scan.
TokenPanel(u) == isParticipant(u) /\ state = "CLAIMED"

----------------------------------------------------------------------------
(* What the API accepts: the route lets it through, and the machine takes it. *)

ApiAccepts(u, type) ==
  \/ /\ type = "origin_hub_accept" /\ MayAcceptParcel(u)
     /\ Legal(Event(type, u))
  \/ /\ type = "origin_checkin" /\ MayCheckInOrigin(u)
     /\ Legal(Event(type, u))
  \/ /\ type \in {"deposit_accept", "deposit_reject"} /\ MayAnswer(u)
     /\ Legal(Event(type, u))
  \/ /\ type = "pickup_checkout" /\ MayCheckOut(u)
     /\ Legal(Event(type, u))
  \/ type = "leg_checkin" /\ MayCheckIn(u) /\ Legal(Checkin(u))
  \/ type = "leg_return" /\ MayReturn(u) /\ Legal(Return(u))
  \/ /\ type = "recipient_pickup"
     /\ \E w \in User : MayHandOver(u, w) /\ Legal(Event(type, w))
  \/ /\ type = "recipient_claimed_pickup"
     /\ \E w \in User : MayHandOverClaimed(u, w) /\ Legal(Event(type, w))
  \/ /\ type = "recipient_claim" /\ MayClaim(u)
     /\ Legal(Event(type, u))
  \/ /\ type = "cancel" /\ u = Sender
     /\ Legal(Event(type, u))

ApiRejects(u) ==
  {stage \in {"pickup_checkout", "hub_checkin", "recipient_pickup"} :
     MayReject(u, stage) /\ Legal(Rejection(u, stage))}

ApiReroutes(h, w) == MayReroute(h, w) /\ Legal(Change(h, w))

Operations == {"origin_hub_accept", "origin_checkin", "deposit_accept", "deposit_reject",
               "pickup_checkout", "leg_checkin", "leg_return", "recipient_pickup",
               "recipient_claimed_pickup"}

\* Nothing else is under way.
AtRest == pending = {}

Offers(u) ==
  DashboardOffers(u) \cup
  (IF isParticipant(u)
   THEN OpsOffers(u) \cup (IF CarrierPanel(u) THEN {"pickup_checkout"} ELSE {})
   ELSE {})

----------------------------------------------------------------------------
(* Properties.                                                             *)

\* Comments in shipment-status.ts and ReviewsSection.tsx: the client offers, the
\* API judges.  Whatever happened before, each hub and carrier is offered exactly
\* what the API would accept from them; the sender and the recipient at least
\* that, for the rest hangs on a leg, a claim or a secret the page cannot see.
\* The ops page can be got to from the dashboard, but for the return of a
\* parcel, whose stay is over.  Who waits for a claim's funding is told so.
PagesMatchApi ==
  AtRest =>
    /\ \A u \in User :
         /\ Offers(u) = {type \in Operations : ApiAccepts(u, type)}
         /\ ApiRejects(u) = (IF isParticipant(u) THEN rejectStage(u) ELSE {})
                            \cup (IF CarrierPanel(u) THEN {"pickup_checkout"} ELSE {})
         /\ OpsOffers(u) \ {"leg_return", "origin_hub_accept"} # {} => DashboardStay(u)
         /\ ApiAccepts(u, "recipient_claim") => ClaimForm(u)
         /\ /\ MayHandOverClaimed(currentHubOf, u)
            /\ Legal(Event("recipient_claimed_pickup", u))
            => TokenPanel(u)
         /\ state = "AT_HUB" => (ClaimPending(u) <=> claim # NoClaim /\ claim.claimant = u)
    /\ ApiAccepts(Sender, "cancel") => "cancel" \in SenderOffers
    /\ \A h \in Hub \cup {NoHub}, w \in User \cup {Nobody} :
         ApiReroutes(h, w) => "reroute" \in SenderOffers /\ (RerouteForm(h, w) \/ h = dest)
    /\ holdLeg = IF state \in {"AT_HUB", "LEG_BOOKED"} /\ ActiveLeg THEN {leg} ELSE {}

\* ADR-017: reviews are for those who took part, and ADR-027: of the hubs.  When
\* a shipment is over, in whichever way, the rows and the chain name exactly
\* those who held the parcel or had put up a hold to carry it, and the form is
\* offered exactly where the API takes a review.
ReviewsAreEarned ==
  state \in Terminal =>
    /\ effectiveParticipants = engaged
    /\ \A u, v \in User : ReviewOffered(u, v) = ReviewAccepted(u, v, "hub")
=============================================================================
