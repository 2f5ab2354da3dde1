------------------------------- MODULE Pricing -------------------------------
(***************************************************************************)
(* The money of one shipment: the work pool that shrinks with the distance *)
(* left, the two quotas of the finalization bonus, and the routes that     *)
(* price a leg, a claim, a boost or a reroute on what they read and let    *)
(* the executor commit it later.                                           *)
(*                                                                         *)
(* Sources: the accumulators of apps/api/src/shipments/context.ts, the     *)
(* pricing routes of                                                       *)
(* apps/api/src/routes/shipment-lifecycle.ts and what the machine checks   *)
(* of their amounts.  A leg or claim is one job from its request to its    *)
(* end (its phases are the subject of Shipment); bonds are left out.       *)
(***************************************************************************)
EXTENDS Economics, SequencesExt

CONSTANTS
  Hub,            \* the active hubs
  Distance,       \* [Hub \X Hub -> Nat], in the shipment's frozen metric
  FeeBp,          \* [Hub -> Nat], fee of a hub in basis points
  Origin, FirstDest,
  Offer,          \* P, in msat
  BoostKey,       \* idempotency keys of the boosts the sender asks for
  BoostAmount,    \* [BoostKey -> Nat], in msat
  Request,        \* HTTP requests that may be in flight at once
  Overlap,        \* whether other events happen while a request is in flight
  MaxReroutes     \* bound: rerouted events in the chain

ASSUME DistanceIsMetric ==
  \A a, b \in Hub : /\ Distance[<<a, b>>] \in Nat
                    /\ Distance[<<a, b>>] = 0 <=> a = b
ASSUME FeesBelowCap == \A h \in Hub : FeeBp[h] \in 0 .. 3000
ASSUME CommitmentsAreAmounts == Offer \in Nat /\ \A k \in BoostKey : BoostAmount[k] \in Nat
\* No boost is so small that nothing of it reaches the pool: remainingPool refuses
\* a boost without a work part, which the machine accepts at one msat.
BoostsReachThePool == \A k \in BoostKey : splitCommitment(BoostAmount[k]).work > 0
ASSUME EndsDiffer == Origin \in Hub /\ FirstDest \in Hub /\ Origin # FirstDest

VARIABLES
  state,      \* AT_HUB, AWAITING_PICKUP or a terminal state
  at,         \* the hub where the parcel rests or last rested
  shipment,   \* destHubId, distanceKm and segmentWorkMsat of the row
  chain,      \* the custody events that carry money facts, in link order
  job,        \* the leg or claim whose price is frozen, or NoJob
  bonusHold,  \* the hub bonus held while the parcel awaits its recipient
  paid,       \* what the sender has paid, by kind
  request     \* what each request in flight has computed from its snapshot

vars == <<state, at, shipment, chain, job, bonusHold, paid, request>>

----------------------------------------------------------------------------
(* What the context builder reads back from the chain.                     *)

Boosted(key, from) ==
  [type |-> "boosted", key |-> key, amount |-> BoostAmount[key], from |-> from]
Fact(type) == [type |-> type]
Event == [type : {"boosted"}, key : BoostKey, amount : Nat, from : Nat]
         \cup [type : {"rerouted", "arrived_destination"}]

\* Fault: a reroute does not end the segment of the boosts before it.
SegmentBoosts_whole_chain(events) ==
  LET boosted == SelectSeq(events, LAMBDA e : e.type = "boosted") IN
  [i \in DOMAIN boosted |-> [amount |-> splitCommitment(boosted[i].amount).work,
                             from |-> boosted[i].from]]

SegmentBoosts(events) ==
  Loop([acc \in Seq(Boost) |-> [e \in Event |->
          CASE e.type = "rerouted" -> <<>>
            [] e.type = "boosted" ->
                 Append(acc, [amount |-> splitCommitment(e.amount).work, from |-> e.from])
            [] OTHER -> acc]],
       <<>>, events)

\* A quota of the bonus: its share of the offer and of every boost.
Quota(part, events) ==
  Loop([sum \in Nat |-> [e \in Event |->
          IF e.type = "boosted" THEN sum + splitCommitment(e.amount)[part] ELSE sum]],
       splitCommitment(Offer)[part], events)

CarrierQuota(events) ==
  IF \E i \in DOMAIN events : events[i].type = "arrived_destination"
  THEN 0 ELSE Quota("carrier", events)

HubQuota(events) == Quota("hub", events)

\* The work parts of the boosts made since the parcel arrived.
postArrivalBoostWork(events) ==
  Loop([acc \in [after : BOOLEAN, total : Nat] |-> [e \in Event |->
          CASE e.type = "arrived_destination" -> [after |-> TRUE, total |-> 0]
            [] e.type = "rerouted" -> [after |-> FALSE, total |-> 0]
            [] e.type = "boosted" /\ acc.after ->
                 [acc EXCEPT !.total = @ + splitCommitment(e.amount).work]
            [] OTHER -> acc]],
       [after |-> FALSE, total |-> 0], events).total

ToDest(h) == Distance[<<h, shipment.destHubId>>]

remainingWorkPool(r) ==
  remainingPool(shipment.segmentWorkMsat, shipment.distanceKm, r, SegmentBoosts(chain))

Defined(r) == PoolDefined(shipment.distanceKm, r, SegmentBoosts(chain))
Priceable(h) == Defined(ToDest(h))

----------------------------------------------------------------------------
NoJob == [kind |-> "none"]
NoRequest == [kind |-> "idle"]
Reroutes == Len(SelectSeq(chain, LAMBDA e : e.type = "rerouted"))

Init ==
  /\ state = "AT_HUB"
  /\ at = Origin
  /\ shipment = [destHubId |-> FirstDest, distanceKm |-> Distance[<<Origin, FirstDest>>],
                 segmentWorkMsat |-> splitCommitment(Offer).work]
  /\ chain = <<>>
  /\ job = NoJob
  /\ bonusHold = 0
  /\ paid = [work |-> 0, carrier |-> 0, hub |-> 0, compensation |-> 0]
  /\ request = [q \in Request |-> NoRequest]

Undisturbed == Overlap \/ \A q \in Request : request[q] = NoRequest

Compute(q, what) ==
  /\ Undisturbed /\ request[q] = NoRequest
  /\ request' = [request EXCEPT ![q] = what]
  /\ UNCHANGED <<state, at, shipment, chain, job, bonusHold, paid>>

Answer(q) == request' = [request EXCEPT ![q] = NoRequest]

Drop(q) ==
  /\ request[q] # NoRequest
  /\ Answer(q)
  /\ UNCHANGED <<state, at, shipment, chain, job, bonusHold, paid>>

(* POST /shipments/:id/legs: the price of a leg to a drop hub.             *)
PriceLegRequest(q, to) ==
  LET r == ToDest(at)
      final == to = shipment.destHubId
      progress == IF final THEN r ELSE r - ToDest(to)
  IN
  /\ state = "AT_HUB"
  /\ Priceable(at)
  /\ ProgressAllowed(shipment.distanceKm, r, progress)
  /\ Compute(q, [kind |-> "leg", to |-> to,
                 price |-> priceLeg(remainingWorkPool(r), r, progress, FeeBp[at], FeeBp[to],
                                    CarrierQuota(chain)),
                 hubBonus |-> IF final THEN floorToSat(HubQuota(chain)) ELSE 0])

leg_request(q) ==
  LET j == request[q] IN
  /\ j.kind = "leg"
  /\ state = "AT_HUB" /\ job = NoJob
  /\ j.to # at
  /\ j.price.gross > 0
  /\ j.to # shipment.destHubId => j.price.carrierBonus = 0 /\ j.hubBonus = 0
  /\ job' = [kind |-> "leg", to |-> j.to, gross |-> j.price.gross,
             carrierBonus |-> j.price.carrierBonus, hubBonus |-> j.hubBonus]
  /\ Answer(q)
  /\ UNCHANGED <<state, at, shipment, chain, bonusHold, paid>>

(* POST /shipments/:id/claim: everything that is left.                     *)
PriceClaim(q) ==
  /\ state = "AT_HUB"
  /\ Priceable(at)
  /\ Compute(q, [kind |-> "claim", work |-> floorToSat(remainingWorkPool(ToDest(at))),
                 carrierBonus |-> floorToSat(CarrierQuota(chain)),
                 hubBonus |-> floorToSat(HubQuota(chain))])

recipient_claim(q) ==
  LET c == request[q] IN
  /\ c.kind = "claim"
  /\ state = "AT_HUB" /\ job = NoJob
  /\ c.work + c.carrierBonus > 0
  /\ job' = [kind |-> "claim", to |-> at, gross |-> c.work,
             carrierBonus |-> c.carrierBonus, hubBonus |-> c.hubBonus]
  /\ Answer(q)
  /\ UNCHANGED <<state, at, shipment, chain, bonusHold, paid>>

(* POST /shipments/:id/boost: looks its key up, then commits.              *)
AskBoost(q, key) ==
  /\ ~\E i \in DOMAIN chain : chain[i].type = "boosted" /\ chain[i].key = key
  /\ state \in {"AT_HUB", "AWAITING_PICKUP"}
  /\ Compute(q, [kind |-> "boost", key |-> key,
                 from |-> IF state = "AT_HUB" THEN ToDest(at) ELSE shipment.distanceKm])

boost(q) ==
  /\ request[q].kind = "boost"
  /\ state \in {"AT_HUB", "AWAITING_PICKUP"} /\ job = NoJob
  /\ BoostAmount[request[q].key] > 0 /\ request[q].from > 0
  /\ chain' = Append(chain, Boosted(request[q].key, request[q].from))
  /\ Answer(q)
  /\ UNCHANGED <<state, at, shipment, job, bonusHold, paid>>

(* POST /shipments/:id/reroute, to another hub: the pool of the moment is  *)
(* frozen as the commitment of a new segment.                              *)

SegmentLeft == IF ToDest(at) < shipment.distanceKm THEN ToDest(at) ELSE shipment.distanceKm

FrozenWork ==
  IF state = "AWAITING_PICKUP" THEN postArrivalBoostWork(chain)
  ELSE remainingWorkPool(SegmentLeft)

AskReroute(q, dest) ==
  /\ state \in {"AT_HUB", "AWAITING_PICKUP"}
  /\ Distance[<<at, dest>>] > 0
  /\ state = "AT_HUB" => Defined(SegmentLeft)
  /\ Compute(q, [kind |-> "reroute",
                 row |-> [destHubId |-> dest, distanceKm |-> Distance[<<at, dest>>],
                          segmentWorkMsat |-> FrozenWork]])

Reroutable == state \in {"AT_HUB", "AWAITING_PICKUP"} /\ job = NoJob /\ Reroutes < MaxReroutes

reroute(q) ==
  /\ request[q].kind = "reroute"
  /\ Reroutable
  /\ request[q].row.destHubId # at
  /\ shipment' = request[q].row
  /\ state' = "AT_HUB"
  /\ bonusHold' = 0
  /\ chain' = Append(chain, Fact("rerouted"))
  /\ Answer(q)
  /\ UNCHANGED <<at, job, paid>>

(* The same route with a new recipient only.                               *)
reroute_recipient ==
  /\ Reroutable
  /\ chain' = Append(chain, Fact("rerouted"))
  /\ UNCHANGED <<state, at, shipment, job, bonusHold, paid, request>>

----------------------------------------------------------------------------
(* How jobs end.                                                           *)

PayJob == [paid EXCEPT !.work = @ + job.gross, !.carrier = @ + job.carrierBonus]

leg_checkin ==
  /\ job.kind = "leg"
  /\ at' = job.to
  /\ job' = NoJob
  /\ paid' = PayJob
  /\ IF job.to = shipment.destHubId
     THEN /\ state' = "AWAITING_PICKUP"
          /\ chain' = Append(chain, Fact("arrived_destination"))
          /\ bonusHold' = job.hubBonus
     ELSE UNCHANGED <<state, chain, bonusHold>>
  /\ UNCHANGED <<shipment, request>>

\* Rejected, withdrawn, not funded, not picked up or brought back: every hold
\* of the job is cancelled and the parcel rests where it was.
JobDissolves ==
  /\ job # NoJob
  /\ job' = NoJob
  /\ UNCHANGED <<state, at, shipment, chain, bonusHold, paid, request>>

recipient_claimed_pickup ==
  /\ job.kind = "claim"
  /\ state' = "DELIVERED"
  /\ job' = NoJob
  /\ paid' = [PayJob EXCEPT !.hub = @ + job.hubBonus]
  /\ UNCHANGED <<at, shipment, chain, bonusHold, request>>

recipient_pickup ==
  /\ state = "AWAITING_PICKUP"
  /\ state' = "DELIVERED"
  /\ paid' = [paid EXCEPT !.hub = @ + bonusHold]
  /\ bonusHold' = 0
  /\ UNCHANGED <<at, shipment, chain, job, request>>

cancel ==
  /\ state = "AT_HUB" /\ job = NoJob
  /\ at = Origin
  /\ state' = "CANCELLED"
  /\ paid' = [paid EXCEPT !.compensation =
                cancellationCompensation(shipment.segmentWorkMsat, FeeBp[Origin])]
  /\ UNCHANGED <<at, shipment, chain, job, bonusHold, request>>

Next ==
  \/ \E q \in Request :
       \/ \E h \in Hub : PriceLegRequest(q, h) \/ AskReroute(q, h)
       \/ \E k \in BoostKey : AskBoost(q, k)
       \/ PriceClaim(q)
       \/ leg_request(q) \/ recipient_claim(q) \/ boost(q) \/ reroute(q)
       \/ Drop(q)
  \/ /\ Undisturbed
     /\ \/ reroute_recipient
        \/ leg_checkin \/ JobDissolves \/ recipient_claimed_pickup \/ recipient_pickup
        \/ cancel

Spec == Init /\ [][Next]_vars

----------------------------------------------------------------------------
(* Properties.                                                             *)

Committed(part) == Quota(part, chain)

\* What the work pool may still pay out: the frozen price of the job and what
\* the pool holds where the job ends.
WorkLeft ==
  CASE state = "AT_HUB" /\ job.kind = "claim" -> job.gross
    [] state = "AT_HUB" /\ job.kind = "leg" ->
         job.gross + (IF job.to = shipment.destHubId THEN 0
                      ELSE remainingWorkPool(ToDest(job.to)))
    [] state = "AT_HUB" /\ job = NoJob -> remainingWorkPool(ToDest(at))
    [] state = "AWAITING_PICKUP" -> postArrivalBoostWork(chain)
    [] OTHER -> 0

\* The commitment is conserved (ECONOMICS.md, "la conservazione resta"): what was
\* paid for work and what can still be paid never exceed the work parts of the
\* offer and the boosts, however the way is split into legs, boosted, rerouted;
\* and each quota of the finalization bonus is consumed at most once (ADR-014),
\* over arrivals, reroutes away from the destination and claims.
CommitmentConserved ==
  /\ paid.work + WorkLeft <= Committed("work")
  /\ paid.carrier + (IF job = NoJob THEN 0 ELSE job.carrierBonus) <= Committed("carrier")
  /\ paid.hub + bonusHold + (IF job = NoJob THEN 0 ELSE job.hubBonus) <= Committed("hub")

\* A parcel at rest can always be priced, if its boosts reach the pool: no boost
\* of its segment lies ahead of it and its distance never exceeds that of the
\* segment, so remainingPool does not throw and the parcel is not stuck.
AlwaysPriceable == state = "AT_HUB" /\ job = NoJob => Priceable(at)

\* The range shown on the hub's dashboard brackets the departure fee of every
\* leg that could be priced now.
EstimateBrackets ==
  state = "AT_HUB" /\ job = NoJob =>
    LET r == ToDest(at)
        pool == remainingWorkPool(r)
        range == estimateHubFeeRange(pool, shipment.distanceKm, r, FeeBp[at])
    IN \A h \in Hub \ {at} :
         LET progress == r - ToDest(h) IN
         ProgressAllowed(shipment.distanceKm, r, progress) =>
           priceLeg(pool, r, progress, FeeBp[at], FeeBp[h], 0).depFee \in range.min .. range.max
=============================================================================
