--------------------------------- MODULE Roads ---------------------------------
(***************************************************************************)
(* Road distances: a table where the first value written of a pair is its  *)
(* value for ever, filled on demand from a router whose map changes, by    *)
(* requests that run at once.                                              *)
(*                                                                         *)
(* Sources: apps/api/src/lib/road-routing.ts (ADR-031), and what           *)
(* routes/shipments.ts, metricDistanceOr503 of shipment-lifecycle.ts and   *)
(* recordRateObservation of shipments/executor.ts do with its answers.     *)
(* The router is external.  A pair stands for its directed, quantized key. *)
(***************************************************************************)
EXTENDS Integers, FiniteSets

CONSTANTS
  Pair,         \* directed pairs of distinct quantized points
  Metres,       \* [map versions -> [Pair -> metres, or Unroutable]]
  Versions,     \* bound: the router's maps, one after the other
  Resolver,     \* requests that may resolve pairs at once
  MaxRestarts   \* bound: deployments with or without a router

Unroutable == -1

MetresAreWhole ==
  Metres \in [1 .. Versions -> [Pair -> Nat \cup {Unroutable}]]

VARIABLES
  roadDistances,  \* the table: [its pairs -> metres]
  version,        \* the map the router answers from
  enabled,        \* whether the API has a router configured
  asking,         \* by resolver: what it asks for and what it knows
  metric,         \* the metric the shipment was created with, or "unborn"
  handed,         \* the metres handed to callers, as <<pair, metres>>
  deploys

roadVars == <<roadDistances, version, enabled, asking, metric, handed, deploys>>

NotAsking == [step |-> "idle"]
Uses == {"create", "price", "observe", "board"}
Pairs == DOMAIN roadDistances

\* The rows of the table for these keys.
readPairs(keys) == [k \in keys \cap Pairs |-> roadDistances[k]]

\* The union of two maps; the first one wins.
Merge(m, n) == [k \in DOMAIN m \cup DOMAIN n |-> IF k \in DOMAIN m THEN m[k] ELSE n[k]]

Asking(r, rec) == asking' = [asking EXCEPT ![r] = rec]

----------------------------------------------------------------------------
(* resolveMatrix, up to each of its awaits.                                *)

\* Creation asks only when the router is configured; an observation never calls it.
Begin(r, use, keys) ==
  /\ asking[r] = NotAsking
  /\ use = "create" => metric = "unborn" /\ enabled /\ Cardinality(keys) = 1
  /\ use \in {"price", "observe"} => metric = "road"
  /\ LET map == readPairs(keys) IN
     Asking(r, [step |-> IF DOMAIN map = keys \/ ~enabled \/ use = "observe"
                         THEN "resolved" ELSE "missing",
                use |-> use, keys |-> keys, map |-> map])
  /\ UNCHANGED <<roadDistances, version, enabled, metric, handed, deploys>>

\* The router answers for the whole matrix: a pair may have no route.
Table(r) ==
  LET me == asking[r] IN
  /\ me.step = "missing"
  /\ LET routed == {k \in me.keys : Metres[version][k] # Unroutable} IN
     Asking(r, [step |-> "fetched", use |-> me.use, keys |-> me.keys, map |-> me.map,
                values |-> [k \in routed |-> Metres[version][k]]])
  /\ UNCHANGED <<roadDistances, version, enabled, metric, handed, deploys>>

\* The router is down or slower than OSRM_TIMEOUT_MS, or the table cannot be
\* written or read again: what it had at first is the answer.
TableFails(r) ==
  /\ asking[r].step \in {"missing", "fetched", "inserted"}
  /\ Asking(r, [asking[r] EXCEPT !.step = "resolved"])
  /\ UNCHANGED <<roadDistances, version, enabled, metric, handed, deploys>>

\* insert ... on conflict do nothing.
Inserted(values) == Merge(roadDistances, values)

Insert(r) ==
  /\ asking[r].step = "fetched"
  /\ roadDistances' = Inserted(asking[r].values)
  /\ Asking(r, [asking[r] EXCEPT !.step = "inserted"])
  /\ UNCHANGED <<version, enabled, metric, handed, deploys>>

\* What the caller gets of the keys it missed: another resolver may have been
\* first.
Reread(me) == Merge(me.map, readPairs(me.keys))

RereadPairs(r) ==
  /\ asking[r].step = "inserted"
  /\ Asking(r, [asking[r] EXCEPT !.step = "resolved", !.map = Reread(asking[r])])
  /\ UNCHANGED <<roadDistances, version, enabled, metric, handed, deploys>>

----------------------------------------------------------------------------
(* What the caller does with the map.                                      *)

\* Creation chooses the metric: road if its pair is resolved right now, else
\* haversine.  A price in the road metric needs all its pairs, or is refused as
\* retriable; a board leaves out what is missing; an observation falls back.
Answer(r) ==
  LET me == asking[r] IN
  /\ me.step = "resolved"
  /\ metric' = IF me.use = "create" /\ metric = "unborn"
               THEN IF DOMAIN me.map = me.keys THEN "road" ELSE "haversine"
               ELSE metric
  /\ handed' = IF me.use \in {"create", "price"} /\ DOMAIN me.map # me.keys THEN handed
               ELSE handed \cup {<<k, me.map[k]>> : k \in DOMAIN me.map}
  /\ Asking(r, NotAsking)
  /\ UNCHANGED <<roadDistances, version, enabled, deploys>>

\* Without a router a shipment is born in the haversine metric, for life.
CreateWithoutRouter ==
  /\ ~enabled /\ metric = "unborn"
  /\ metric' = "haversine"
  /\ UNCHANGED <<roadDistances, version, enabled, asking, handed, deploys>>

----------------------------------------------------------------------------
MapUpdates ==
  /\ version < Versions
  /\ version' = version + 1
  /\ UNCHANGED <<roadDistances, enabled, asking, metric, handed, deploys>>

\* The API restarts, with OSRM_URL set or not: requests are forgotten.
Deploy ==
  /\ deploys < MaxRestarts
  /\ deploys' = deploys + 1
  /\ enabled' \in BOOLEAN
  /\ asking' = [r \in Resolver |-> NotAsking]
  /\ UNCHANGED <<roadDistances, version, metric, handed>>

RoadsInit ==
  /\ roadDistances = [k \in {} |-> 0]
  /\ version = 1
  /\ enabled \in BOOLEAN
  /\ asking = [r \in Resolver |-> NotAsking]
  /\ metric = "unborn" /\ handed = {} /\ deploys = 0

RoadsNext ==
  \/ \E r \in Resolver :
       \/ \E use \in Uses, keys \in SUBSET Pair \ {{}} : Begin(r, use, keys)
       \/ Table(r) \/ TableFails(r) \/ Insert(r) \/ RereadPairs(r) \/ Answer(r)
  \/ CreateWithoutRouter \/ MapUpdates \/ Deploy

----------------------------------------------------------------------------
(* Properties.                                                             *)

\* Whoever resolves a pair, whatever map the router has by then, gets the value
\* that everyone before got of it: "two machines freeze the same msat" (ADR-031).
PairValueForever ==
  \A a, b \in handed : a[1] = b[1] => a[2] = b[2]
=============================================================================
