------------------------------- MODULE Itinerary -------------------------------
(***************************************************************************)
(* The route of a carrier: the stops of the legs it still has to carry, in *)
(* the shortest order that picks each parcel up before dropping it.        *)
(*                                                                         *)
(* Sources: packages/core/src/matching/route.ts (a Held-Karp search over   *)
(* subsets) and GET /trips/:id/route of apps/api/src/routes/trips.ts.      *)
(***************************************************************************)
EXTENDS Integers, Sequences, FiniteSets, SequencesExt

CONSTANTS
  Stop,           \* hubs where a leg may start or end
  Parcel,         \* the parcels, numbered in the order of their ids
  StopOrder,      \* [Stop -> Nat]: how the ids of hubs compare
  MetresBetween,  \* whole metres between stops, the origin "O" and the destination "D"
  MaxWaypoints,   \* MAX_ROUTE_WAYPOINTS
  MaxLegs         \* bound: legs of the trip at once

Place == Stop \cup {"O", "D"}

ItineraryConfigured ==
  /\ Parcel \subseteq Nat /\ StopOrder \in [Stop -> Nat]
  /\ MetresBetween \in [Place \X Place -> Nat]

VARIABLES legs,   \* accepted legs with stops ahead, in the order of acceptance
          preview \* the leg drawn but not booked, or NoPreview

itineraryVars == <<legs, preview>>

NoPreview == [parcel |-> -1]
RouteLeg == [parcel : Parcel, from : Stop, to : Stop, aboard : BOOLEAN]

----------------------------------------------------------------------------
(* Choosing the stops.                                                     *)

pickup(l) == [hub |-> l.from, kind |-> "pickup", parcel |-> l.parcel]
drop(l) == [hub |-> l.to, kind |-> "drop", parcel |-> l.parcel]

\* A parcel aboard has only its drop ahead.
Group(l) == IF l.aboard THEN <<drop(l)>> ELSE <<pickup(l), drop(l)>>

Groups == [i \in DOMAIN legs |-> Group(legs[i])]
            \o (IF preview = NoPreview THEN <<>> ELSE <<Group(preview)>>)

\* Whole groups, in order, each as long as it still fits.
Routable ==
  LET taken[k \in 0 .. Len(Groups)] ==
        IF k = 0 THEN <<>>
        ELSE IF Len(taken[k - 1]) + Len(Groups[k]) <= MaxWaypoints
        THEN taken[k - 1] \o Groups[k] ELSE taken[k - 1]
  IN taken[Len(Groups)]

----------------------------------------------------------------------------
(* Ordering them.                                                          *)

canonicalCompare(a, b) ==
  \/ a.parcel < b.parcel
  \/ a.parcel = b.parcel /\ a.kind = "pickup" /\ b.kind = "drop"
  \/ a.parcel = b.parcel /\ a.kind = b.kind /\ StopOrder[a.hub] < StopOrder[b.hub]

\* A sort is stable: stops that compare equal keep their order.
Before(stops, i, j) ==
  \/ canonicalCompare(stops[i], stops[j])
  \/ i < j /\ ~canonicalCompare(stops[j], stops[i])
Rank(stops, i) == Cardinality({j \in DOMAIN stops : j = i \/ Before(stops, j, i)})
Sorted(stops) ==
  [k \in DOMAIN stops |-> stops[CHOOSE i \in DOMAIN stops : Rank(stops, i) = k]]

\* The stops that must be visited before stop i.
mustPrecede(ordered, i) ==
  IF ordered[i].kind # "drop" THEN {}
  ELSE {j \in DOMAIN ordered : ordered[j].kind = "pickup"
                                /\ ordered[j].parcel = ordered[i].parcel}

\* The least cost, the lowest index if it is several's.
Cheapest(cost) ==
  CHOOSE i \in DOMAIN cost : \A j \in DOMAIN cost :
    cost[i] < cost[j] \/ (cost[i] = cost[j] /\ i <= j)

\* Fault: the way from the last stop to where the carrier is going is forgotten.
LastHop_free(s) == 0
LastHop(s) == MetresBetween[<<s.hub, "D">>]

Unreached == [metres |-> -1, order |-> <<>>]

\* The way through the stops S that ends at last, if row has the best way through
\* the others for each stop that it may end at.
Extended(ordered, S, last, row) ==
  LET before == S \ {last}
      metres == [prev \in {i \in before : row[i] # Unreached} |->
                   row[prev].metres + MetresBetween[<<ordered[prev].hub, ordered[last].hub>>]]
      parent == Cheapest(metres)
  IN IF last \notin S \/ ~(mustPrecede(ordered, last) \subseteq before) THEN Unreached
     ELSE IF before = {}
     THEN [metres |-> MetresBetween[<<"O", ordered[last].hub>>], order |-> <<last>>]
     ELSE IF DOMAIN metres = {} THEN Unreached
     ELSE [metres |-> metres[parent], order |-> Append(row[parent].order, last)]

\* dp[S][last]: the least metres from the origin through the stops S, ending at
\* last, with the order that the chain of parents gives.
dp(ordered) ==
  LET best[S \in SUBSET DOMAIN ordered] ==
        [last \in DOMAIN ordered |-> Extended(ordered, S, last, best[S \ {last}])]
  IN best

orderRouteWaypoints(stops) ==
  LET ordered == Sorted(stops)
      best == dp(ordered)[DOMAIN ordered]
      bestLast == Cheapest([i \in {j \in DOMAIN ordered : best[j] # Unreached} |->
                              best[i].metres + LastHop(ordered[i])])
      indices == best[bestLast].order
  IN IF stops = <<>> THEN <<>> ELSE [k \in DOMAIN indices |-> ordered[indices[k]]]

----------------------------------------------------------------------------
(* The legs of the trip as they are accepted, carried and dropped.         *)

Travelling == {legs[i].parcel : i \in DOMAIN legs}

LegAccepted ==
  /\ Len(legs) < MaxLegs
  /\ \E l \in RouteLeg : /\ l.parcel \notin Travelling /\ l.from # l.to /\ ~l.aboard
                         /\ l.parcel = preview.parcel => l.from = preview.from
                         /\ legs' = Append(legs, l)
  /\ UNCHANGED preview

\* A parcel aboard is not previewed any more.
LegPickedUp ==
  \E i \in DOMAIN legs :
    /\ ~legs[i].aboard
    /\ legs' = [legs EXCEPT ![i].aboard = TRUE]
    /\ preview' = IF preview.parcel = legs[i].parcel THEN NoPreview ELSE preview

\* Dropped, dissolved or failed: it has no stop ahead any more.
LegOver ==
  \E i \in DOMAIN legs : legs' = RemoveAt(legs, i) /\ UNCHANGED preview

\* Any parcel at rest may be previewed, from the hub where it is: a leg of it
\* that waits for its money takes nothing from that.
Preview ==
  /\ \/ preview # NoPreview /\ preview' = NoPreview
     \/ /\ preview = NoPreview
        /\ \E l \in RouteLeg :
             /\ l.from # l.to /\ ~l.aboard
             /\ \A i \in DOMAIN legs :
                  legs[i].parcel = l.parcel => ~legs[i].aboard /\ legs[i].from = l.from
             /\ preview' = l
  /\ UNCHANGED legs

ItineraryInit == legs = <<>> /\ preview = NoPreview
ItineraryNext == LegAccepted \/ LegPickedUp \/ LegOver \/ Preview

----------------------------------------------------------------------------
(* Properties.                                                             *)

\* How far it is to the stop number k of a route from the one before.
Hop(route, k) ==
  MetresBetween[<<IF k = 1 THEN "O" ELSE route[k - 1].hub, route[k].hub>>]
Travelled(route) ==
  LET upTo[k \in 0 .. Len(route)] == IF k = 0 THEN 0 ELSE upTo[k - 1] + Hop(route, k)
  IN upTo[Len(route)]
LengthOf(route) ==
  Travelled(route) + MetresBetween[<<IF route = <<>> THEN "O" ELSE route[Len(route)].hub, "D">>]

PicksUpFirst(route) ==
  \A i, j \in DOMAIN route :
    route[i].parcel = route[j].parcel /\ route[i].kind = "pickup" /\ route[j].kind = "drop" => i < j

\* The stops in every order.
OrdersOf(stops) ==
  {[i \in DOMAIN stops |-> stops[p[i]]] :
     p \in {q \in [DOMAIN stops -> DOMAIN stops] : IsInjective(q)}}

\* The route visits each routable stop once, picks every parcel up before
\* dropping it, and no other such order is shorter (ADR-015): the subset search
\* agrees with trying every permutation.
RouteIsShortest ==
  LET route == orderRouteWaypoints(Routable) IN
  /\ route \in OrdersOf(Routable)
  /\ PicksUpFirst(route)
  /\ \A other \in OrdersOf(Routable) : PicksUpFirst(other) => LengthOf(route) <= LengthOf(other)
=============================================================================
