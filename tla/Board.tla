--------------------------------- MODULE Board ---------------------------------
(***************************************************************************)
(* The board a carrier sees for a declared trip, and the request that      *)
(* freezes the price of a leg: the same numbers, computed by two paths.    *)
(*                                                                         *)
(* Sources: packages/core/src/matching/matching.ts, buildBoard of          *)
(* apps/api/src/routes/trips.ts, POST /shipments/:id/legs of               *)
(* routes/shipment-lifecycle.ts, lib/parcel.ts and the shelf of            *)
(* routes/hubs.ts.  One parcel at rest and one carrier.  A shipment keeps  *)
(* the metric it was created with, and a distance counts Fine-ths of a     *)
(* metre of it: the road metric has whole metres (Fine is 1), the          *)
(* haversine metric has not.                                               *)
(***************************************************************************)
EXTENDS Economics, FiniteSets

CONSTANTS
  Hub,
  IdOrder,        \* [Hub -> Nat], one by one: how the ids of hubs compare
  Owner,          \* [Hub -> users], among them "carrier" and "sender"
  Metric,         \* the distance metrics, among them "road"
  Fine,           \* [Metric -> Nat \ {0}]
  Distance,       \* [Metric -> [Hub \X Hub -> Nat]]
  TripFrom,       \* [Metric -> [Hub -> Nat]], from the trip's origin
  TripTo,         \* [Metric -> [Hub -> Nat]], to the trip's destination
  Direct,         \* [Metric -> Nat], from the trip's origin to its destination
  MaxDeviation,   \* in metres
  MinRate,        \* msat per 1000 metres of detour
  Ceiling,        \* [Hub -> [weight, days, undeclared]], what a hub takes
  AutoAccept,     \* [Hub -> BOOLEAN], whether a hub accepts deposits by itself
  Fees,           \* fees in basis points a hub may set
  ParcelKind,     \* [weight, days, undeclared] of parcels
  Offer

\* Fees are capped at 30% wherever they enter, and amounts and distances are not
\* negative.
BoardConfigured ==
  /\ Fine \in [Metric -> Nat \ {0}]
  /\ Distance \in [Metric -> [Hub \X Hub -> Nat]]
  /\ AutoAccept \in [Hub -> BOOLEAN]
  /\ Fees \subseteq 0 .. 3000
  /\ Offer \in Nat

\* Two hubs are at one point or at least a metre apart.
HubsApart ==
  \A m \in Metric, h, k \in Hub :
    Distance[m][<<h, k>>] = 0 \/ Distance[m][<<h, k>>] >= Fine[m]

VARIABLES
  hub,        \* the row of each hub and its owner's wallet
  parcel,     \* kind, metric, at, dest and segment distance of the parcel at rest
  cold,       \* the hub, if any, whose road distances are unresolved at the moment
  leg         \* the live leg, or NoLeg

boardVars == <<hub, parcel, cold, leg>>

NoLeg == [status |-> "none"]
NotShown == -1

\* Math.round(km * 1000)
RoundedMetres(fine, x) == (2 * x + fine) \div (2 * fine)
kmToMeters(x) == RoundedMetres(Fine[parcel.metric], x)

\* DistanceProvider.distanceKm, of the parcel's metric.
distance(h, k) == Distance[parcel.metric][<<h, k>>]

----------------------------------------------------------------------------
(* What the two paths read alike.                                          *)

Remaining == distance(parcel.at, parcel.dest)

remainingWorkPool(r) == remainingPool(splitCommitment(Offer).work, parcel.total, r, <<>>)
carrierBonus == splitCommitment(Offer).carrier

parcelFitsHub(h) ==
  /\ parcel.kind.weight <= Ceiling[h].weight
  /\ parcel.kind.undeclared => Ceiling[h].undeclared

storageFitsHub(h) == parcel.kind.days <= Ceiling[h].days

----------------------------------------------------------------------------
(* The board.                                                              *)

MatchingHubs == {h \in Hub : hub[h].active /\ Owner[h] # "carrier"}

hubAcceptsParcel(h) == hub[h].active /\ hub[h].wallet /\ parcelFitsHub(h)

\* A parcel with a live leg, or whose ends are not hubs the carrier may use or
\* are not on the road map of the moment, has no card.
OnBoard ==
  /\ leg = NoLeg
  /\ {parcel.at, parcel.dest} \subseteq MatchingHubs \ cold
  /\ kmToMeters(Remaining) \in 1 .. parcel.total

BoardProgress(h) ==
  kmToMeters(Remaining) - (IF h = parcel.dest THEN 0 ELSE kmToMeters(distance(h, parcel.dest)))

Candidates ==
  {h \in MatchingHubs :
     /\ hubAcceptsParcel(h)
     /\ h \notin cold
     /\ ProgressAllowed(parcel.total, kmToMeters(Remaining), BoardProgress(h))}

\* Fault: the drop hub's own fee is left out of the net shown.
ShownNet_own_fee(h) ==
  LET p == priceLeg(remainingWorkPool(kmToMeters(Remaining)), kmToMeters(Remaining),
                    BoardProgress(h), hub[parcel.at].fee, 0, carrierBonus)
  IN p.net + p.carrierBonus
ShownNet(h) ==
  LET p == priceLeg(remainingWorkPool(kmToMeters(Remaining)), kmToMeters(Remaining),
                    BoardProgress(h), hub[parcel.at].fee, hub[h].fee, carrierBonus)
  IN p.net + p.carrierBonus

Detour(h) ==
  LET m == parcel.metric
      more == TripFrom[m][parcel.at] + distance(parcel.at, h) + TripTo[m][h] - Direct[m]
  IN IF more > 0 THEN kmToMeters(more) ELSE 0

Option(h) ==
  [hubId |-> h, detour |-> Detour(h), net |-> ShownNet(h),
   surplus |-> ShownNet(h) - ((MinRate * Detour(h)) \div 1000),
   requiresConfirmation |-> ~hub[h].auto]

\* compareOptions.
Better(a, b) ==
  \/ a.surplus > b.surplus
  \/ a.surplus = b.surplus /\ a.detour < b.detour
  \/ a.surplus = b.surplus /\ a.detour = b.detour /\ IdOrder[a.hubId] < IdOrder[b.hubId]

\* Only the options within the deviation, unless there is none.
ShownOptions ==
  LET all == {Option(h) : h \in Candidates}
      near == {o \in all : o.detour <= MaxDeviation}
  IN IF ~OnBoard THEN {} ELSE IF near # {} THEN near ELSE all

\* The best drop hub, then at most MAX_ALTERNATIVE_DROP_HUBS runners-up.
Card ==
  {o \in ShownOptions : Cardinality({p \in ShownOptions : Better(p, o)}) < 4}

----------------------------------------------------------------------------
(* The shelf of a hub: what a carrier could gross at most from there.      *)

\* Of the whole segment at most, whatever metric the way left is taken in.
ShelfCeiling(r) ==
  remainingWorkPool(IF r < parcel.total THEN r ELSE parcel.total) + carrierBonus

----------------------------------------------------------------------------
(* The request.                                                            *)

AskedProgress(h) ==
  LET r == Remaining IN
  kmToMeters(IF h = parcel.dest THEN r ELSE r - distance(h, parcel.dest))

ApiRoles(h) ==
  /\ "carrier" \notin {Owner[parcel.at], Owner[h]}
  /\ Owner[h] # "sender"

ApiAccepts(h) ==
  /\ leg = NoLeg /\ h # parcel.at
  /\ hub[h].active
  /\ ApiRoles(h)
  /\ parcelFitsHub(h) /\ storageFitsHub(h)
  /\ {parcel.at, parcel.dest, h} \cap cold = {}
  /\ ProgressAllowed(parcel.total, kmToMeters(Remaining), AskedProgress(h))
  /\ hub[h].wallet

FrozenPrice(h) ==
  priceLeg(remainingWorkPool(kmToMeters(Remaining)), kmToMeters(Remaining), AskedProgress(h),
           hub[parcel.at].fee, hub[h].fee, carrierBonus)

\* POST /shipments/:id/legs.  A hub that answers by hand gets a mail in the same
\* transaction; one that does not is answered for in a second one.
leg_request(h) ==
  LET price == FrozenPrice(h) IN
  /\ ApiAccepts(h)
  /\ price.gross > 0
  /\ h # parcel.dest => price.carrierBonus = 0
  /\ leg' = [status |-> "requested", to |-> h, mailed |-> ~hub[h].auto,
             net |-> price.net + price.carrierBonus,
             shown |-> IF Option(h) \in Card THEN ShownNet(h) ELSE NotShown]
  /\ UNCHANGED <<hub, parcel, cold>>

\* The hub's answer or the route's, or the lapse of the window that returns the
\* parcel to the board.
deposit_accept ==
  /\ leg.status = "requested"
  /\ hub[leg.to].wallet
  /\ leg' = [leg EXCEPT !.status = "pending_funding"]
  /\ UNCHANGED <<hub, parcel, cold>>

LegDissolves ==
  /\ leg # NoLeg
  /\ leg' = NoLeg
  /\ UNCHANGED <<hub, parcel, cold>>

\* POST /me/roles/hub: the one hub of a user.  Nothing edits its row afterwards.
HubOpens(h) ==
  /\ ~hub[h].active /\ ~hub[h].erased
  /\ \E fee \in Fees :
       hub' = [hub EXCEPT ![h] = [active |-> TRUE, erased |-> FALSE, wallet |-> FALSE,
                                  auto |-> AutoAccept[h], fee |-> fee]]
  /\ UNCHANGED <<parcel, cold, leg>>

\* The owner connects a wallet, or one without hold invoices in its place.
WalletToggles(h) ==
  /\ hub[h].active
  /\ hub' = [hub EXCEPT ![h].wallet = ~@]
  /\ UNCHANGED <<parcel, cold, leg>>

\* The account is erased; its venue stays, inactive, whatever it holds, and so
\* does its wallet connection.
HubErased(h) ==
  /\ hub[h].active
  /\ hub' = [hub EXCEPT ![h].active = FALSE, ![h].erased = TRUE]
  /\ UNCHANGED <<parcel, cold, leg>>

\* The router stops or resumes answering for a hub; the haversine metric needs none.
RouterChanges(h) ==
  /\ parcel.metric = "road"
  /\ cold' \in {{}, {h}} \ {cold}
  /\ UNCHANGED <<hub, parcel, leg>>

\* The way left is no longer than the segment.
BoardInit ==
  /\ \E kind \in ParcelKind, m \in Metric, from, at, dest \in Hub, fees \in [Hub -> Fees] :
       LET metres(h) == RoundedMetres(Fine[m], Distance[m][<<h, dest>>]) IN
       /\ at # dest /\ from # dest
       /\ Owner[dest] # "sender"
       /\ metres(at) <= metres(from)
       /\ parcel = [kind |-> kind, metric |-> m, at |-> at, dest |-> dest, total |-> metres(from)]
       /\ hub = [h \in Hub |-> [active |-> h \in {at, dest}, erased |-> FALSE,
                                wallet |-> h \in {at, dest}, auto |-> AutoAccept[h], fee |-> fees[h]]]
  /\ cold = {}
  /\ leg = NoLeg

BoardNext ==
  \/ \E h \in Hub : leg_request(h) \/ HubOpens(h) \/ WalletToggles(h)
                    \/ HubErased(h) \/ RouterChanges(h)
  \/ deposit_accept \/ LegDissolves

BoardSpec == BoardInit /\ [][BoardNext]_boardVars

----------------------------------------------------------------------------
(* Properties.                                                             *)

\* A leg asked for while its card is on the screen is frozen at the net of the
\* card (matching.ts: "board numbers are EXACTLY the msat that would be frozen
\* at acceptance").  So it is in whole metres; in the haversine metric one path
\* rounds a difference and the other subtracts what it rounded, and they may be
\* one metre apart: the pool's worth of a metre and a satoshi for each rounding.
WorthOfAMetre == remainingWorkPool(kmToMeters(Remaining)) \div kmToMeters(Remaining)
RoundingGap == IF Fine[parcel.metric] = 1 THEN 0 ELSE WorthOfAMetre + 3 * SatMsat

ShownIsFrozen ==
  leg # NoLeg /\ leg.shown # NotShown => leg.net - leg.shown \in -RoundingGap .. RoundingGap

\* The ceiling on the shelf of a hub is one: no leg of the parcel, asked for with
\* or without a card, pays its carrier more.
ShelfIsCeiling == leg # NoLeg => leg.net <= ShelfCeiling(kmToMeters(Remaining))

\* What the board and the shelf advertise is what a request gets (matching.ts,
\* hubs.ts).
AdvertisedIsKept == ShownIsFrozen /\ ShelfIsCeiling
=============================================================================
