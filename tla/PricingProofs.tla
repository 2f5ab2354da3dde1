----------------------------- MODULE PricingProofs -----------------------------
(***************************************************************************)
(* Theorems of Pricing and of the pricing engine of Economics, for any     *)
(* hubs, distances, fees, offers and boosts.                               *)
(***************************************************************************)
EXTENDS Pricing, FiniteSetTheorems, WellFoundedInduction, TLAPS

----------------------------------------------------------------------------
(* Loops over a sequence.                                                  *)

\* A nonempty set of naturals has a least member.
LEMMA LeastNatural ==
  ASSUME NEW T, T \subseteq Nat, T # {}
  PROVE  \E n \in T : \A m \in T : n <= m
<1> DEFINE W == {0 .. n : n \in T}
<1>1. W \subseteq FiniteSubsetsOf(Nat) /\ W # {}
  <2>1. \A n \in T : 0 .. n \in SUBSET Nat /\ IsFiniteSet(0 .. n)
    BY FS_Interval
  <2> QED  BY <2>1 DEF FiniteSubsetsOf
<1> HIDE DEF W
<1>2. PICK X \in W : \A Y \in W : <<Y, X>> \notin StrictSubsetOrdering(Nat)
  BY <1>1, FS_StrictSubsetOrderingWellFounded, WFMin
<1>3. PICK n \in T : X = 0 .. n
  BY <1>2 DEF W
<1>4. ASSUME NEW m \in T, m < n PROVE FALSE
  <2>1. 0 .. m \in W /\ 0 .. m \in SUBSET Nat /\ 0 .. n \in SUBSET Nat
    BY DEF W
  <2>2. 0 .. m \subseteq 0 .. n /\ n \in 0 .. n /\ n \notin 0 .. m
    BY <1>4
  <2>3. <<0 .. m, 0 .. n>> \in StrictSubsetOrdering(Nat)
    BY <2>1, <2>2 DEF StrictSubsetOrdering
  <2> QED  BY <1>2, <1>3, <2>1, <2>3
<1> QED  BY <1>4

\* So a set with 0 and the successor of each of its naturals has them all.
LEMMA NaturalsInductive ==
  ASSUME NEW T, 0 \in T, \A n \in Nat : n \in T => n + 1 \in T
  PROVE  \A n \in Nat : n \in T
<1> SUFFICES ASSUME Nat \ T # {} PROVE FALSE
  OBVIOUS
<1>1. PICK n \in Nat \ T : \A m \in Nat \ T : n <= m
  BY LeastNatural
<1>2. n - 1 \in Nat /\ n - 1 \in T
  BY <1>1
<1>3. (n - 1) + 1 \in T
  BY <1>2
<1> QED  BY <1>1, <1>3

\* acc goes through the first n elements of seq.
Follows(acc, step, start, seq, n) ==
  acc = [i \in 0 .. n |-> IF i = 0 THEN start ELSE step[acc[i - 1]][seq[i]]]

LEMMA LoopExists ==
  ASSUME NEW step, NEW start, NEW seq
  PROVE  \A n \in Nat : \E acc : Follows(acc, step, start, seq, n)
<1> DEFINE T == {n \in Nat : \E acc : Follows(acc, step, start, seq, n)}
<1>1. 0 \in T
  <2>1. Follows([i \in 0 .. 0 |-> start], step, start, seq, 0)
    BY DEF Follows
  <2> QED  BY <2>1
<1>2. ASSUME NEW n \in Nat, n \in T PROVE n + 1 \in T
  <2>1. PICK f : Follows(f, step, start, seq, n)
    BY <1>2
  <2> DEFINE g == [i \in 0 .. n + 1 |-> IF i = n + 1 THEN step[f[n]][seq[n + 1]] ELSE f[i]]
  <2>2. \A i \in 0 .. n : g[i] = f[i]
    OBVIOUS
  <2>3. \A i \in 0 .. n : f[i] = IF i = 0 THEN start ELSE step[f[i - 1]][seq[i]]
    BY <2>1 DEF Follows
  <2>4. g[n + 1] = step[f[n]][seq[n + 1]] /\ DOMAIN g = 0 .. n + 1
    OBVIOUS
  <2>5. \E h : h = g
    OBVIOUS
  <2> HIDE DEF g
  <2>6. ASSUME NEW i \in 0 .. n + 1
        PROVE  g[i] = IF i = 0 THEN start ELSE step[g[i - 1]][seq[i]]
    <3>1. CASE i = n + 1
      BY <2>2, <2>4, <3>1
    <3>2. CASE i \in 1 .. n
      <4>1. i - 1 \in 0 .. n
        BY <3>2
      <4> QED  BY <2>2, <2>3, <3>2, <4>1
    <3>3. CASE i = 0
      BY <2>2, <2>3, <3>3
    <3> QED  BY <3>1, <3>2, <3>3
  <2>7. Follows(g, step, start, seq, n + 1)
    BY <2>6 DEF Follows, g
  <2> QED  BY <2>7
<1> HIDE DEF T
<1>3. \A n \in Nat : n \in T
  BY <1>1, <1>2, NaturalsInductive
<1> QED  BY <1>3 DEF T

\* Two that follow the same elements agree.
LEMMA LoopAgrees ==
  ASSUME NEW step, NEW start, NEW s, NEW t, NEW n \in Nat, NEW m \in Nat,
         \A i \in 1 .. n : s[i] = t[i], n <= m,
         NEW f, Follows(f, step, start, s, n), NEW g, Follows(g, step, start, t, m)
  PROVE  \A i \in 0 .. n : f[i] = g[i]
<1> DEFINE T == {i \in Nat : i \in 0 .. n => f[i] = g[i]}
<1>1. /\ \A i \in 0 .. n : f[i] = IF i = 0 THEN start ELSE step[f[i - 1]][s[i]]
      /\ \A i \in 0 .. m : g[i] = IF i = 0 THEN start ELSE step[g[i - 1]][t[i]]
  BY DEF Follows
<1>2. 0 \in T
  BY <1>1
<1>3. ASSUME NEW i \in Nat, i \in T PROVE i + 1 \in T
  <2> SUFFICES ASSUME i + 1 \in 0 .. n PROVE f[i + 1] = g[i + 1]
    OBVIOUS
  <2>1. i \in 0 .. n /\ i + 1 \in 0 .. m /\ i + 1 \in 1 .. n /\ i + 1 # 0 /\ (i + 1) - 1 = i
    OBVIOUS
  <2>2. f[i] = g[i]
    BY <1>3, <2>1
  <2>3. f[i + 1] = step[f[i]][s[i + 1]] /\ g[i + 1] = step[g[i]][t[i + 1]]
    BY <1>1, <2>1
  <2> QED  BY <2>1, <2>2, <2>3
<1> HIDE DEF T
<1>4. \A i \in Nat : i \in T
  BY <1>2, <1>3, NaturalsInductive
<1> QED  BY <1>4 DEF T

LEMMA LoopFollows ==
  ASSUME NEW step, NEW start, NEW seq, Len(seq) \in Nat
  PROVE  \E acc : Follows(acc, step, start, seq, Len(seq)) /\ Loop(step, start, seq) = acc[Len(seq)]
<1> DEFINE run == CHOOSE acc : Follows(acc, step, start, seq, Len(seq))
<1>1. Follows(run, step, start, seq, Len(seq))
  BY LoopExists
<1>2. Loop(step, start, seq) = run[Len(seq)]
  BY DEF Loop, Follows
<1> QED  BY <1>1, <1>2

\* A loop over nothing stays where it starts, and one more element is one more step.
LEMMA LoopOverNothing ==
  ASSUME NEW step, NEW start
  PROVE  Loop(step, start, <<>>) = start
<1>1. PICK f : Follows(f, step, start, <<>>, 0) /\ Loop(step, start, <<>>) = f[0]
  BY LoopFollows
<1> QED  BY <1>1 DEF Follows

LEMMA LoopStep ==
  ASSUME NEW step, NEW start, NEW E, NEW seq \in Seq(E), NEW e \in E
  PROVE  Loop(step, start, Append(seq, e)) = step[Loop(step, start, seq)][e]
<1> DEFINE n == Len(seq)
           t == Append(seq, e)
<1>1. n \in Nat /\ Len(t) = n + 1 /\ t[n + 1] = e /\ \A i \in 1 .. n : t[i] = seq[i]
  OBVIOUS
<1>2. PICK f : Follows(f, step, start, seq, n) /\ Loop(step, start, seq) = f[n]
  BY <1>1, LoopFollows
<1> HIDE DEF t
<1>3. PICK g : Follows(g, step, start, t, n + 1) /\ Loop(step, start, t) = g[n + 1]
  BY <1>1, LoopFollows
<1>4. f[n] = g[n]
  <2>1. \A i \in 0 .. n : f[i] = g[i]
    BY <1>1, <1>2, <1>3, LoopAgrees
  <2> QED  BY <1>1, <2>1
<1>5. g[n + 1] = step[g[n]][t[n + 1]]
  BY <1>1, <1>3 DEF Follows
<1> QED  BY <1>1, <1>2, <1>3, <1>4, <1>5 DEF t

----------------------------------------------------------------------------
(* Divisions that floor.                                                   *)

LEMMA Floors ==
  ASSUME NEW x \in Nat, NEW y \in Nat, y > 0
  PROVE  x \div y \in Nat /\ y * (x \div y) <= x
OBVIOUS

LEMMA SatFloors ==
  ASSUME NEW a \in Nat
  PROVE  floorToSat(a) \in Nat /\ floorToSat(a) <= a
BY DEF floorToSat, SatMsat

\* The three parts of a commitment are amounts.
LEMMA PartsAreAmounts ==
  ASSUME NEW a \in Nat, NEW part \in {"work", "carrier", "hub"}
  PROVE  splitCommitment(a)[part] \in Nat
BY DEF splitCommitment, BpDenominator

\* A leg's price takes from the pool at most the share of its progress
\* (economics.ts, priceLeg).
LEMMA LegTakesItsShare ==
  ASSUME NEW pool \in Nat, NEW r \in Nat, NEW progress \in 1 .. r,
         NEW dep, NEW arr, NEW quota \in Nat
  PROVE  /\ priceLeg(pool, r, progress, dep, arr, quota).gross \in Nat
         /\ r * priceLeg(pool, r, progress, dep, arr, quota).gross <= pool * progress
         /\ priceLeg(pool, r, progress, dep, arr, quota).carrierBonus \in 0 .. quota
<1> DEFINE share == (pool * progress) \div r
           gross == floorToSat(share)
<1>1. pool * progress \in Nat /\ r > 0
  OBVIOUS
<1>2. share \in Nat /\ r * share <= pool * progress
  BY <1>1, Floors
<1>3. gross \in Nat /\ gross <= share
  BY <1>2, SatFloors
<1> HIDE DEF gross, share
<1>4. r * gross <= r * share /\ r * gross \in Nat /\ r * share \in Nat
  BY <1>2, <1>3
<1>5. priceLeg(pool, r, progress, dep, arr, quota).gross = gross
  BY DEF priceLeg, gross, share
<1>6. priceLeg(pool, r, progress, dep, arr, quota).carrierBonus
        = IF progress = r THEN floorToSat(quota) ELSE 0
  BY DEF priceLeg
<1>7. floorToSat(quota) \in 0 .. quota
  BY SatFloors
<1> QED  BY <1>1, <1>2, <1>3, <1>4, <1>5, <1>6, <1>7

----------------------------------------------------------------------------
(* What one more event does to what is read back from the chain.           *)

LEMMA QuotaStarts ==
  ASSUME NEW part
  PROVE  Quota(part, <<>>) = splitCommitment(Offer)[part]
BY LoopOverNothing DEF Quota

LEMMA QuotaGrows ==
  ASSUME NEW events \in Seq(Event), NEW part \in {"work", "carrier", "hub"},
         Quota(part, events) \in Nat, NEW e \in Event
  PROVE  Quota(part, Append(events, e)) =
           IF e.type = "boosted" THEN Quota(part, events) + splitCommitment(e.amount)[part]
           ELSE Quota(part, events)
<1> DEFINE step == [sum \in Nat |-> [d \in Event |->
                      IF d.type = "boosted" THEN sum + splitCommitment(d.amount)[part] ELSE sum]]
<1>1. \A s : Quota(part, s) = Loop(step, splitCommitment(Offer)[part], s)
  BY DEF Quota
<1>2. step[Quota(part, events)][e] =
        IF e.type = "boosted" THEN Quota(part, events) + splitCommitment(e.amount)[part]
        ELSE Quota(part, events)
  OBVIOUS
<1> HIDE DEF step
<1>3. Loop(step, splitCommitment(Offer)[part], Append(events, e))
        = step[Loop(step, splitCommitment(Offer)[part], events)][e]
  BY LoopStep
<1> QED  BY <1>1, <1>2, <1>3

LEMMA BoostsStart == SegmentBoosts(<<>>) = <<>>
BY LoopOverNothing DEF SegmentBoosts

LEMMA BoostsGrow ==
  ASSUME NEW events \in Seq(Event), SegmentBoosts(events) \in Seq(Boost), NEW e \in Event
  PROVE  SegmentBoosts(Append(events, e)) =
           CASE e.type = "rerouted" -> <<>>
             [] e.type = "boosted" ->
                  Append(SegmentBoosts(events),
                         [amount |-> splitCommitment(e.amount).work, from |-> e.from])
             [] OTHER -> SegmentBoosts(events)
<1> DEFINE step == [acc \in Seq(Boost) |-> [d \in Event |->
                      CASE d.type = "rerouted" -> <<>>
                        [] d.type = "boosted" ->
                             Append(acc, [amount |-> splitCommitment(d.amount).work, from |-> d.from])
                        [] OTHER -> acc]]
<1>1. \A s : SegmentBoosts(s) = Loop(step, <<>>, s)
  BY DEF SegmentBoosts
<1>2. step[SegmentBoosts(events)][e] =
        CASE e.type = "rerouted" -> <<>>
          [] e.type = "boosted" ->
               Append(SegmentBoosts(events),
                      [amount |-> splitCommitment(e.amount).work, from |-> e.from])
          [] OTHER -> SegmentBoosts(events)
  OBVIOUS
<1> HIDE DEF step
<1>3. Loop(step, <<>>, Append(events, e)) = step[Loop(step, <<>>, events)][e]
  BY LoopStep
<1> QED  BY <1>1, <1>2, <1>3

\* The accumulator behind postArrivalBoostWork.
Arrival(events) ==
  Loop([acc \in [after : BOOLEAN, total : Nat] |-> [e \in Event |->
          CASE e.type = "arrived_destination" -> [after |-> TRUE, total |-> 0]
            [] e.type = "rerouted" -> [after |-> FALSE, total |-> 0]
            [] e.type = "boosted" /\ acc.after ->
                 [acc EXCEPT !.total = @ + splitCommitment(e.amount).work]
            [] OTHER -> acc]],
       [after |-> FALSE, total |-> 0], events)

LEMMA ArrivalIsRead == \A events : postArrivalBoostWork(events) = Arrival(events).total
BY DEF postArrivalBoostWork, Arrival

LEMMA ArrivalStarts == Arrival(<<>>) = [after |-> FALSE, total |-> 0]
BY LoopOverNothing DEF Arrival

LEMMA ArrivalMoves ==
  ASSUME NEW events \in Seq(Event), Arrival(events) \in [after : BOOLEAN, total : Nat],
         NEW e \in Event
  PROVE  /\ e.type # "boosted" => Arrival(Append(events, e)).total = 0
         /\ e.type = "boosted" =>
              Arrival(Append(events, e)).total \in
                {Arrival(events).total, Arrival(events).total + splitCommitment(e.amount).work}
         /\ Arrival(Append(events, e)) \in [after : BOOLEAN, total : Nat]
<1> DEFINE Acc == [after : BOOLEAN, total : Nat]
           step == [acc \in Acc |-> [d \in Event |->
                      CASE d.type = "arrived_destination" -> [after |-> TRUE, total |-> 0]
                        [] d.type = "rerouted" -> [after |-> FALSE, total |-> 0]
                        [] d.type = "boosted" /\ acc.after ->
                             [acc EXCEPT !.total = @ + splitCommitment(d.amount).work]
                        [] OTHER -> acc]]
           now == Arrival(events)
           next == step[now][e]
<1>1. \A s : Arrival(s) = Loop(step, [after |-> FALSE, total |-> 0], s)
  BY DEF Arrival
<1>2. e.type = "boosted" => splitCommitment(e.amount).work \in Nat
  <2> SUFFICES ASSUME e.type = "boosted" PROVE splitCommitment(e.amount).work \in Nat
    OBVIOUS
  <2>1. e.amount \in Nat
    BY DEF Event
  <2> QED  BY <2>1, PartsAreAmounts
<1>3. next = CASE e.type = "arrived_destination" -> [after |-> TRUE, total |-> 0]
               [] e.type = "rerouted" -> [after |-> FALSE, total |-> 0]
               [] e.type = "boosted" /\ now.after ->
                    [now EXCEPT !.total = @ + splitCommitment(e.amount).work]
               [] OTHER -> now
  OBVIOUS
<1>4. Loop(step, [after |-> FALSE, total |-> 0], Append(events, e))
        = step[Loop(step, [after |-> FALSE, total |-> 0], events)][e]
  <2> HIDE DEF step
  <2> QED  BY LoopStep
<1> HIDE DEF step, next
<1>5. Arrival(Append(events, e)) = next
  BY <1>1, <1>4 DEF next
<1>6. e.type \in {"boosted", "rerouted", "arrived_destination"}
  BY DEF Event
<1>7. CASE e.type = "arrived_destination"
  BY <1>3, <1>5, <1>7
<1>8. CASE e.type = "rerouted"
  BY <1>3, <1>5, <1>8
<1>9. CASE e.type = "boosted" /\ now.after
  <2>1. next = [now EXCEPT !.total = @ + splitCommitment(e.amount).work]
    BY <1>3, <1>9
  <2>2. next.total = now.total + splitCommitment(e.amount).work /\ next \in Acc
    BY <1>2, <1>9, <2>1
  <2> QED  BY <1>5, <1>9, <2>2
<1>10. CASE e.type = "boosted" /\ ~now.after
  <2>1. next = now
    BY <1>3, <1>10
  <2> QED  BY <1>5, <1>10, <2>1
<1> QED  BY <1>6, <1>7, <1>8, <1>9, <1>10

\* The pool without boosts, and with one more.
LEMMA PoolStarts ==
  ASSUME NEW offer, NEW total, NEW r
  PROVE  remainingPool(offer, total, r, <<>>) = (offer * r) \div total
BY LoopOverNothing DEF remainingPool

LEMMA PoolGrows ==
  ASSUME NEW offer, NEW total, NEW r, NEW boosts \in Seq(Boost), NEW b \in Boost,
         remainingPool(offer, total, r, boosts) \in Nat
  PROVE  remainingPool(offer, total, r, Append(boosts, b)) =
           remainingPool(offer, total, r, boosts) + PoolShare(b.amount, r, b.from)
<1> DEFINE step == [sum \in Nat |-> [d \in Boost |-> sum + PoolShare(d.amount, r, d.from)]]
           start == (offer * r) \div total
<1>1. \A s : remainingPool(offer, total, r, s) = Loop(step, start, s)
  BY DEF remainingPool
<1>2. step[remainingPool(offer, total, r, boosts)][b]
        = remainingPool(offer, total, r, boosts) + PoolShare(b.amount, r, b.from)
  OBVIOUS
<1> HIDE DEF step, start
<1>3. Loop(step, start, Append(boosts, b)) = step[Loop(step, start, boosts)][b]
  BY LoopStep
<1> QED  BY <1>1, <1>2, <1>3

----------------------------------------------------------------------------
(* The inductive invariant.                                                *)

Job == [kind : {"leg", "claim"}, to : Hub, gross : Nat, carrierBonus : Nat, hubBonus : Nat]

TypeOK ==
  /\ state \in {"AT_HUB", "AWAITING_PICKUP", "DELIVERED", "CANCELLED"}
  /\ at \in Hub
  /\ shipment \in [destHubId : Hub, distanceKm : Nat \ {0}, segmentWorkMsat : Nat]
  /\ chain \in Seq(Event)
  /\ job \in Job \cup {NoJob}
  /\ bonusHold \in Nat
  /\ paid \in [work : Nat, carrier : Nat, hub : Nat, compensation : Nat]
  /\ request = [q \in Request |-> request[q]]

\* What is read back from the chain is a list of boosts and amounts.
ChainIsRead ==
  /\ SegmentBoosts(chain) \in Seq(Boost)
  /\ Arrival(chain) \in [after : BOOLEAN, total : Nat]
  /\ \A part \in {"work", "carrier", "hub"} : Quota(part, chain) \in Nat

\* A parcel on the board has come no further back than its segment began, and a
\* leg brings it no further back than it is; the boosts of its segment were made
\* behind it.
ParcelAdvances ==
  /\ state = "AT_HUB" =>
       /\ at # shipment.destHubId
       /\ ToDest(at) <= shipment.distanceKm
       /\ \A i \in DOMAIN SegmentBoosts(chain) :
            SegmentBoosts(chain)[i].from \in ToDest(at) .. shipment.distanceKm
  /\ job # NoJob => state = "AT_HUB"
  /\ job.kind = "leg" => job.to # at /\ ToDest(job.to) <= ToDest(at)

\* The pool is worth at most N / K for each unit of distance left, whatever its
\* divisions floor, and what was paid with what the rest of the way is worth at
\* that rate is within the commitment.  A job takes at most its share at the rate.
WorthAtMost(K, N) ==
  /\ \A r \in Nat :
       /\ remainingWorkPool(r) \in Nat
       /\ (shipment.segmentWorkMsat * r) \div shipment.distanceKm <= remainingWorkPool(r)
       /\ K * remainingWorkPool(r) <= N * r
  /\ state = "AT_HUB" => K * paid.work + N * ToDest(at) <= K * Quota("work", chain)
  /\ job.kind = "leg" => K * job.gross + N * ToDest(job.to) <= N * ToDest(at)
  /\ job.kind = "claim" => K * job.gross <= N * ToDest(at)

WorkIsBacked ==
  /\ \E K \in Nat \ {0}, N \in Nat : WorthAtMost(K, N)
  /\ paid.work <= Quota("work", chain)
  /\ state = "AWAITING_PICKUP" => paid.work + Arrival(chain).total <= Quota("work", chain)

\* Each quota is promised to one job or hold at a time: the carriers' is free until
\* the parcel has arrived once, the hubs' until it is delivered.
Arrived == \E i \in DOMAIN chain : chain[i].type = "arrived_destination"

QuotasAreBacked ==
  /\ state = "AT_HUB" => bonusHold = 0
  /\ state \in {"AT_HUB", "AWAITING_PICKUP"} => paid.hub = 0
  /\ state \in {"AT_HUB", "AWAITING_PICKUP"} /\ ~Arrived => paid.carrier = 0
  /\ job # NoJob /\ Arrived => job.carrierBonus = 0
  /\ job.kind = "leg" /\ job.to # shipment.destHubId => job.carrierBonus = 0 /\ job.hubBonus = 0
  /\ paid.carrier + (IF job = NoJob THEN 0 ELSE job.carrierBonus) <= Quota("carrier", chain)
  /\ paid.hub + bonusHold + (IF job = NoJob THEN 0 ELSE job.hubBonus) <= Quota("hub", chain)

\* A request under way is the only one, and holds what is computed from the rows
\* as they are.
FreshLeg(x) ==
  /\ state = "AT_HUB" /\ x.to \in Hub
  /\ LET r == ToDest(at)
         final == x.to = shipment.destHubId
         progress == IF final THEN r ELSE r - ToDest(x.to)
     IN /\ progress \in 1 .. r
        /\ x.price = priceLeg(remainingWorkPool(r), r, progress, FeeBp[at], FeeBp[x.to],
                              CarrierQuota(chain))
        /\ x.hubBonus = IF final THEN floorToSat(HubQuota(chain)) ELSE 0

FreshClaim(x) ==
  /\ state = "AT_HUB"
  /\ x.work = floorToSat(remainingWorkPool(ToDest(at)))
  /\ x.carrierBonus = floorToSat(CarrierQuota(chain))
  /\ x.hubBonus = floorToSat(HubQuota(chain))

FreshBoost(x) ==
  /\ x.key \in BoostKey
  /\ x.from = IF state = "AT_HUB" THEN ToDest(at) ELSE shipment.distanceKm

FreshReroute(x) ==
  \E dest \in Hub :
    /\ Distance[<<at, dest>>] > 0
    /\ x.row = [destHubId |-> dest, distanceKm |-> Distance[<<at, dest>>],
                segmentWorkMsat |-> FrozenWork]

RequestsAreFresh ==
  \A q \in Request : request[q] # NoRequest =>
    /\ \A p \in Request : p # q => request[p] = NoRequest
    /\ request[q].kind = "leg" => FreshLeg(request[q])
    /\ request[q].kind = "claim" => FreshClaim(request[q])
    /\ request[q].kind = "boost" => FreshBoost(request[q])
    /\ request[q].kind = "reroute" => FreshReroute(request[q])

PricingInv ==
  /\ TypeOK /\ ChainIsRead /\ ParcelAdvances /\ WorkIsBacked /\ QuotasAreBacked
  /\ RequestsAreFresh

----------------------------------------------------------------------------
(* What the proofs of the steps share.                                     *)

LEMMA DistancesAre ==
  ASSUME TypeOK
  PROVE  \A h \in Hub : ToDest(h) \in Nat /\ (ToDest(h) = 0 <=> h = shipment.destHubId)
<1>1. shipment.destHubId \in Hub
  BY DEF TypeOK
<1> QED  BY <1>1, DistanceIsMetric DEF ToDest

\* A job at the rate of the pool takes no more than its way is worth.
LEMMA ShareAtRate ==
  ASSUME NEW K \in Nat \ {0}, NEW N \in Nat, NEW pool \in Nat, NEW r \in Nat,
         NEW p \in 1 .. r, NEW gross \in Nat,
         K * pool <= N * r, r * gross <= pool * p
  PROVE  K * gross + N * (r - p) <= N * r
<1>1. r > 0 /\ p \in Nat /\ r - p \in Nat
  OBVIOUS
<1>2. K * (r * gross) <= K * (pool * p)
  BY <1>1
<1>3. K * (pool * p) = (K * pool) * p
  BY <1>1
<1>4. (K * pool) * p <= (N * r) * p
  BY <1>1
<1>5. r * (K * gross) <= r * (N * p)
  <2>1. (N * r) * p = r * (N * p) /\ K * (r * gross) = r * (K * gross)
    BY <1>1
  <2> QED  BY <1>1, <1>2, <1>3, <1>4, <2>1
<1>6. K * gross <= N * p
  BY <1>1, <1>5
<1>7. N * (r - p) = N * r - N * p
  BY <1>1
<1> QED  BY <1>1, <1>6, <1>7

\* What one more distance unit may cost is a matter of the rows and the chain only.
LEMMA PoolKept ==
  ASSUME UNCHANGED <<shipment, chain>>
  PROVE  /\ \A r : remainingWorkPool(r)' = remainingWorkPool(r)
         /\ \A h : ToDest(h)' = ToDest(h)
         /\ UNCHANGED <<SegmentBoosts(chain), Arrival(chain), Quota("work", chain),
                        Quota("carrier", chain), Quota("hub", chain), Arrived,
                        CarrierQuota(chain), HubQuota(chain)>>
BY DEF remainingWorkPool, ToDest, Arrived

LEMMA ReadKept ==
  ASSUME ChainIsRead, UNCHANGED chain
  PROVE  ChainIsRead'
BY DEF ChainIsRead

\* The one request under way is answered: none is left.
LEMMA RequestAnswered ==
  ASSUME TypeOK, RequestsAreFresh, NEW q \in Request, request[q] # NoRequest, Answer(q)
  PROVE  RequestsAreFresh' /\ request' = [p \in Request |-> request'[p]]
<1>1. request' = [request EXCEPT ![q] = NoRequest]
  BY DEF Answer
<1>2. request' = [p \in Request |-> request'[p]] /\ \A p \in Request : request'[p] = NoRequest
  BY <1>1 DEF TypeOK, RequestsAreFresh
<1> QED  BY <1>2 DEF RequestsAreFresh

\* A step of the others finds no request under way.
LEMMA NothingAsked ==
  ASSUME TypeOK, ~Overlap, Undisturbed, UNCHANGED request
  PROVE  RequestsAreFresh' /\ request' = [p \in Request |-> request'[p]]
<1>1. \A p \in Request : request'[p] = NoRequest
  BY DEF Undisturbed
<1>2. request' = [p \in Request |-> request'[p]]
  BY DEF TypeOK
<1> QED  BY <1>1, <1>2 DEF RequestsAreFresh

\* A step that leaves the rows alone keeps what the requests were computed from.
LEMMA RowsKept ==
  ASSUME PricingInv, UNCHANGED <<state, at, shipment, chain, job, bonusHold, paid>>,
         RequestsAreFresh', request' = [p \in Request |-> request'[p]]
  PROVE  PricingInv'
<1> USE DEF PricingInv
<1>1. TypeOK'
  BY DEF TypeOK
<1>2. ChainIsRead'
  BY ReadKept
<1>3. ParcelAdvances'
  BY PoolKept DEF ParcelAdvances
<1>4. \A K, N : WorthAtMost(K, N)' <=> WorthAtMost(K, N)
  BY PoolKept DEF WorthAtMost
<1>5. WorkIsBacked'
  BY <1>4, PoolKept DEF WorkIsBacked
<1>6. QuotasAreBacked'
  BY PoolKept DEF QuotasAreBacked
<1> QED  BY <1>1, <1>2, <1>3, <1>5, <1>6

----------------------------------------------------------------------------
(* The steps: a request is priced, or given up.                            *)

LEMMA RequestComputed ==
  ASSUME PricingInv, ~Overlap, NEW q \in Request, NEW x, Compute(q, x),
         x.kind = "leg" => FreshLeg(x),
         x.kind = "claim" => FreshClaim(x),
         x.kind = "boost" => FreshBoost(x),
         x.kind = "reroute" => FreshReroute(x)
  PROVE  PricingInv'
<1>1. /\ request' = [request EXCEPT ![q] = x]
      /\ UNCHANGED <<state, at, shipment, chain, job, bonusHold, paid>>
      /\ \A p \in Request : request[p] = NoRequest
  BY DEF Compute, Undisturbed
<1>2. request' = [p \in Request |-> request'[p]] /\ request'[q] = x
      /\ \A p \in Request : p # q => request'[p] = NoRequest
  BY <1>1 DEF PricingInv, TypeOK
<1>3. /\ FreshLeg(x)' <=> FreshLeg(x)
      /\ FreshClaim(x)' <=> FreshClaim(x)
      /\ FreshBoost(x)' <=> FreshBoost(x)
  BY <1>1, PoolKept DEF FreshLeg, FreshClaim, FreshBoost
<1>4. FreshReroute(x)' <=> FreshReroute(x)
  <2>1. /\ postArrivalBoostWork(chain)' = postArrivalBoostWork(chain)
        /\ ToDest(at)' = ToDest(at)
        /\ \A r : remainingWorkPool(r)' = remainingWorkPool(r)
    BY <1>1, PoolKept DEF ToDest
  <2>2. FrozenWork' = FrozenWork
    BY <1>1, <2>1 DEF FrozenWork, SegmentLeft
  <2> QED  BY <1>1, <2>2 DEF FreshReroute
<1>5. RequestsAreFresh'
  <2> SUFFICES ASSUME NEW p \in Request, request'[p] # NoRequest
               PROVE  /\ \A o \in Request : o # p => request'[o] = NoRequest
                      /\ request'[p].kind = "leg" => FreshLeg(request[p])'
                      /\ request'[p].kind = "claim" => FreshClaim(request[p])'
                      /\ request'[p].kind = "boost" => FreshBoost(request[p])'
                      /\ request'[p].kind = "reroute" => FreshReroute(request[p])'
    BY DEF RequestsAreFresh
  <2>1. p = q /\ request'[p] = x
    BY <1>2
  <2> QED  BY <1>1, <1>2, <1>3, <1>4, <2>1 DEF FreshLeg, FreshClaim, FreshBoost, FreshReroute
<1> QED  BY <1>1, <1>2, <1>5, RowsKept

LEMMA LegPriced ==
  ASSUME PricingInv, ~Overlap, NEW q \in Request, NEW to \in Hub, PriceLegRequest(q, to)
  PROVE  PricingInv'
<1> DEFINE r == ToDest(at)
           final == to = shipment.destHubId
           progress == IF final THEN r ELSE r - ToDest(to)
           x == [kind |-> "leg", to |-> to,
                 price |-> priceLeg(remainingWorkPool(r), r, progress, FeeBp[at], FeeBp[to],
                                    CarrierQuota(chain)),
                 hubBonus |-> IF final THEN floorToSat(HubQuota(chain)) ELSE 0]
<1>1. state = "AT_HUB" /\ progress \in 1 .. r /\ Compute(q, x)
  BY DEF PriceLegRequest, ProgressAllowed
<1>2. FreshLeg(x) /\ x.kind = "leg"
  BY <1>1 DEF FreshLeg
<1> HIDE DEF x
<1> QED  BY <1>1, <1>2, RequestComputed

LEMMA ClaimPriced ==
  ASSUME PricingInv, ~Overlap, NEW q \in Request, PriceClaim(q)
  PROVE  PricingInv'
<1> DEFINE x == [kind |-> "claim", work |-> floorToSat(remainingWorkPool(ToDest(at))),
                 carrierBonus |-> floorToSat(CarrierQuota(chain)),
                 hubBonus |-> floorToSat(HubQuota(chain))]
<1>1. state = "AT_HUB" /\ Compute(q, x)
  BY DEF PriceClaim
<1>2. FreshClaim(x) /\ x.kind = "claim"
  BY <1>1 DEF FreshClaim
<1> HIDE DEF x
<1> QED  BY <1>1, <1>2, RequestComputed

LEMMA BoostAsked ==
  ASSUME PricingInv, ~Overlap, NEW q \in Request, NEW key \in BoostKey, AskBoost(q, key)
  PROVE  PricingInv'
<1> DEFINE x == [kind |-> "boost", key |-> key,
                 from |-> IF state = "AT_HUB" THEN ToDest(at) ELSE shipment.distanceKm]
<1>1. Compute(q, x)
  BY DEF AskBoost
<1>2. FreshBoost(x) /\ x.kind = "boost"
  BY DEF FreshBoost
<1> HIDE DEF x
<1> QED  BY <1>1, <1>2, RequestComputed

LEMMA RerouteAsked ==
  ASSUME PricingInv, ~Overlap, NEW q \in Request, NEW dest \in Hub, AskReroute(q, dest)
  PROVE  PricingInv'
<1> DEFINE x == [kind |-> "reroute",
                 row |-> [destHubId |-> dest, distanceKm |-> Distance[<<at, dest>>],
                          segmentWorkMsat |-> FrozenWork]]
<1>1. Distance[<<at, dest>>] > 0 /\ Compute(q, x)
  BY DEF AskReroute
<1>2. FreshReroute(x) /\ x.kind = "reroute"
  BY <1>1 DEF FreshReroute
<1> HIDE DEF x
<1> QED  BY <1>1, <1>2, RequestComputed

LEMMA RequestDropped ==
  ASSUME PricingInv, NEW q \in Request, Drop(q)
  PROVE  PricingInv'
<1>1. RequestsAreFresh' /\ request' = [p \in Request |-> request'[p]]
  BY RequestAnswered DEF Drop, PricingInv
<1> QED  BY <1>1, RowsKept DEF Drop

----------------------------------------------------------------------------
(* The steps: a job is frozen, paid or dissolved.                          *)

LEMMA QuotasAre ==
  ASSUME TypeOK, ChainIsRead
  PROVE  /\ CarrierQuota(chain) = IF Arrived THEN 0 ELSE Quota("carrier", chain)
         /\ CarrierQuota(chain) \in Nat /\ HubQuota(chain) \in Nat
         /\ HubQuota(chain) = Quota("hub", chain)
BY DEF CarrierQuota, HubQuota, Arrived, ChainIsRead

\* What a job may be when it is frozen.
Fits(x) ==
  /\ x \in Job
  /\ x.kind = "leg" => x.to # at /\ ToDest(x.to) <= ToDest(at)
  /\ \A K \in Nat \ {0}, N \in Nat :
       K * remainingWorkPool(ToDest(at)) <= N * ToDest(at) =>
         /\ x.kind = "leg" => K * x.gross + N * ToDest(x.to) <= N * ToDest(at)
         /\ x.kind = "claim" => K * x.gross <= N * ToDest(at)
  /\ x.kind = "leg" /\ x.to # shipment.destHubId => x.carrierBonus = 0 /\ x.hubBonus = 0
  /\ x.carrierBonus <= CarrierQuota(chain)
  /\ x.hubBonus <= HubQuota(chain)

\* What was paid is within the quotas, whatever the job in hand adds.
LEMMA PaidIsWithin ==
  ASSUME TypeOK, ChainIsRead, QuotasAreBacked
  PROVE  /\ paid.carrier <= Quota("carrier", chain)
         /\ paid.hub + bonusHold <= Quota("hub", chain)
<1>1. /\ paid.carrier \in Nat /\ paid.hub \in Nat /\ bonusHold \in Nat
      /\ Quota("carrier", chain) \in Nat /\ Quota("hub", chain) \in Nat
  BY DEF TypeOK, ChainIsRead
<1>2. CASE job = NoJob
  BY <1>1, <1>2 DEF QuotasAreBacked
<1>3. CASE job # NoJob
  <2>1. job.carrierBonus \in Nat /\ job.hubBonus \in Nat
    BY <1>3 DEF TypeOK, Job
  <2>2. /\ paid.carrier + job.carrierBonus <= Quota("carrier", chain)
        /\ paid.hub + bonusHold + job.hubBonus <= Quota("hub", chain)
    BY <1>3 DEF QuotasAreBacked
  <2> QED  BY <1>1, <2>1, <2>2
<1> QED  BY <1>2, <1>3

LEMMA JobFrozen ==
  ASSUME PricingInv, state = "AT_HUB", Fits(job'),
         UNCHANGED <<state, at, shipment, chain, bonusHold, paid>>,
         RequestsAreFresh', request' = [p \in Request |-> request'[p]]
  PROVE  PricingInv'
<1> USE DEF PricingInv
<1>1. TypeOK'
  BY DEF TypeOK, Fits
<1>2. ChainIsRead'
  BY ReadKept
<1>3. ParcelAdvances'
  BY PoolKept DEF ParcelAdvances, Fits
<1>4. WorkIsBacked'
  <2>1. PICK K \in Nat \ {0}, N \in Nat : WorthAtMost(K, N)
    BY DEF WorkIsBacked
  <2>2. K * remainingWorkPool(ToDest(at)) <= N * ToDest(at)
    BY <2>1, DistancesAre DEF WorthAtMost, TypeOK
  <2>3. /\ job'.kind = "leg" => K * job'.gross + N * ToDest(job'.to) <= N * ToDest(at)
        /\ job'.kind = "claim" => K * job'.gross <= N * ToDest(at)
    BY <2>2 DEF Fits
  <2>4. WorthAtMost(K, N)'
    BY <2>1, <2>3, PoolKept DEF WorthAtMost
  <2> QED  BY <2>4, PoolKept DEF WorkIsBacked
<1>5. QuotasAreBacked'
  <2>1. job'.carrierBonus \in Nat /\ job'.hubBonus \in Nat
    BY DEF Fits, Job
  <2>2. paid.hub = 0 /\ bonusHold = 0 /\ (~Arrived => paid.carrier = 0)
    BY DEF QuotasAreBacked
  <2>3. paid.carrier \in Nat /\ paid.carrier <= Quota("carrier", chain)
    BY PaidIsWithin DEF TypeOK
  <2>4. Arrived => job'.carrierBonus = 0
    BY <2>1, QuotasAre DEF Fits
  <2>5. paid.carrier + job'.carrierBonus <= Quota("carrier", chain)
    BY <2>1, <2>2, <2>3, <2>4, QuotasAre DEF Fits, ChainIsRead
  <2>6. paid.hub + bonusHold + job'.hubBonus <= Quota("hub", chain)
    BY <2>1, <2>2, QuotasAre DEF Fits
  <2>7. job' # NoJob
    BY DEF Fits, Job, NoJob
  <2> QED  BY <2>2, <2>4, <2>5, <2>6, <2>7, PoolKept DEF QuotasAreBacked, Fits
<1> QED  BY <1>1, <1>2, <1>3, <1>4, <1>5

LEMMA LegFrozen ==
  ASSUME PricingInv, NEW q \in Request, leg_request(q)
  PROVE  PricingInv'
<1> DEFINE j == request[q]
           r == ToDest(at)
           pool == remainingWorkPool(r)
           final == j.to = shipment.destHubId
           progress == IF final THEN r ELSE r - ToDest(j.to)
<1>1. j.kind = "leg" /\ j # NoRequest
  BY DEF leg_request, NoRequest
<1>2. /\ FreshLeg(j) /\ RequestsAreFresh' /\ request' = [p \in Request |-> request'[p]]
  BY <1>1, RequestAnswered DEF PricingInv, RequestsAreFresh, leg_request
<1>3. /\ job' = [kind |-> "leg", to |-> j.to, gross |-> j.price.gross,
                 carrierBonus |-> j.price.carrierBonus, hubBonus |-> j.hubBonus]
      /\ j.to # at /\ (j.to # shipment.destHubId => j.price.carrierBonus = 0 /\ j.hubBonus = 0)
  BY DEF leg_request
<1>4. /\ j.to \in Hub /\ state = "AT_HUB" /\ progress \in 1 .. r
      /\ j.price = priceLeg(pool, r, progress, FeeBp[at], FeeBp[j.to], CarrierQuota(chain))
      /\ j.hubBonus = IF final THEN floorToSat(HubQuota(chain)) ELSE 0
  BY <1>2 DEF FreshLeg
<1>5. r \in Nat /\ ToDest(j.to) \in Nat /\ (final => ToDest(j.to) = 0) /\ pool \in Nat
  BY <1>4, DistancesAre DEF PricingInv, TypeOK, WorkIsBacked, WorthAtMost
<1>6. r - progress = ToDest(j.to) /\ ToDest(j.to) <= r
  BY <1>4, <1>5
<1>7. CarrierQuota(chain) \in Nat /\ HubQuota(chain) \in Nat
  BY QuotasAre DEF PricingInv
<1> HIDE DEF progress, pool, j, final, r
<1>8. /\ j.price.gross \in Nat /\ r * j.price.gross <= pool * progress
      /\ j.price.carrierBonus \in 0 .. CarrierQuota(chain)
  BY <1>4, <1>5, <1>7, LegTakesItsShare
<1>9. j.hubBonus \in 0 .. HubQuota(chain)
  BY <1>4, <1>7, SatFloors
<1>10. ASSUME NEW K \in Nat \ {0}, NEW N \in Nat, K * pool <= N * r
       PROVE  K * j.price.gross + N * ToDest(j.to) <= N * r
  BY <1>4, <1>5, <1>6, <1>8, <1>10, ShareAtRate
<1>11. Fits(job')
  <2>1. job' \in Job
    BY <1>3, <1>4, <1>7, <1>8, <1>9 DEF Job
  <2> QED  BY <1>3, <1>6, <1>7, <1>8, <1>9, <1>10, <2>1 DEF Fits, r, pool
<1> QED  BY <1>2, <1>4, <1>11, JobFrozen DEF leg_request

LEMMA ClaimFrozen ==
  ASSUME PricingInv, NEW q \in Request, recipient_claim(q)
  PROVE  PricingInv'
<1> DEFINE c == request[q]
           pool == remainingWorkPool(ToDest(at))
<1>1. c.kind = "claim" /\ c # NoRequest
  BY DEF recipient_claim, NoRequest
<1>2. FreshClaim(c) /\ RequestsAreFresh' /\ request' = [p \in Request |-> request'[p]]
  BY <1>1, RequestAnswered DEF PricingInv, RequestsAreFresh, recipient_claim
<1>3. job' = [kind |-> "claim", to |-> at, gross |-> c.work,
              carrierBonus |-> c.carrierBonus, hubBonus |-> c.hubBonus]
  BY DEF recipient_claim
<1>4. /\ state = "AT_HUB" /\ c.work = floorToSat(pool)
      /\ c.carrierBonus = floorToSat(CarrierQuota(chain)) /\ c.hubBonus = floorToSat(HubQuota(chain))
  BY <1>2 DEF FreshClaim
<1>5. at \in Hub /\ ToDest(at) \in Nat /\ pool \in Nat
  BY DistancesAre DEF PricingInv, TypeOK, WorkIsBacked, WorthAtMost
<1>6. CarrierQuota(chain) \in Nat /\ HubQuota(chain) \in Nat
  BY QuotasAre DEF PricingInv
<1> HIDE DEF pool, c
<1>7. /\ c.work \in Nat /\ c.work <= pool
      /\ c.carrierBonus \in 0 .. CarrierQuota(chain) /\ c.hubBonus \in 0 .. HubQuota(chain)
  BY <1>4, <1>5, <1>6, SatFloors
<1>8. ASSUME NEW K \in Nat \ {0}, NEW N \in Nat, K * pool <= N * ToDest(at)
      PROVE  K * c.work <= N * ToDest(at)
  <2>1. K * c.work <= K * pool
    BY <1>5, <1>7
  <2> QED  BY <1>5, <1>7, <1>8, <2>1
<1>9. Fits(job')
  <2>1. job' \in Job
    BY <1>3, <1>5, <1>6, <1>7 DEF Job
  <2> QED  BY <1>3, <1>6, <1>7, <1>8, <2>1 DEF Fits, pool
<1> QED  BY <1>2, <1>4, <1>9, JobFrozen DEF recipient_claim

LEMMA JobGone ==
  ASSUME PricingInv, ~Overlap, Undisturbed, JobDissolves
  PROVE  PricingInv'
<1> USE DEF PricingInv
<1>1. job' = NoJob /\ UNCHANGED <<state, at, shipment, chain, bonusHold, paid, request>>
  BY DEF JobDissolves
<1>2. RequestsAreFresh' /\ request' = [p \in Request |-> request'[p]]
  BY <1>1, NothingAsked
<1>3. TypeOK' /\ ChainIsRead' /\ ParcelAdvances'
  BY <1>1, <1>2, ReadKept, PoolKept DEF TypeOK, ParcelAdvances, NoJob
<1>4. WorkIsBacked'
  <2>1. PICK K \in Nat \ {0}, N \in Nat : WorthAtMost(K, N)
    BY DEF WorkIsBacked
  <2>2. WorthAtMost(K, N)'
    BY <1>1, <2>1, PoolKept DEF WorthAtMost, NoJob
  <2> QED  BY <1>1, <2>2, PoolKept DEF WorkIsBacked
<1>5. QuotasAreBacked'
  <2>1. /\ paid.carrier + 0 <= Quota("carrier", chain)
        /\ paid.hub + bonusHold + 0 <= Quota("hub", chain)
    BY PaidIsWithin DEF TypeOK
  <2> QED  BY <1>1, <2>1, PoolKept DEF QuotasAreBacked, NoJob
<1> QED  BY <1>2, <1>3, <1>4, <1>5

----------------------------------------------------------------------------
(* The steps: an event is told by the chain.                               *)

LEMMA ChainTold ==
  ASSUME TypeOK, ChainIsRead, NEW e \in Event, chain' = Append(chain, e)
  PROVE  /\ chain' \in Seq(Event) /\ ChainIsRead'
         /\ SegmentBoosts(chain)' =
              CASE e.type = "rerouted" -> <<>>
                [] e.type = "boosted" ->
                     Append(SegmentBoosts(chain),
                            [amount |-> splitCommitment(e.amount).work, from |-> e.from])
                [] OTHER -> SegmentBoosts(chain)
         /\ e.type # "boosted" => /\ Arrival(chain)'.total = 0
                                  /\ Quota("work", chain)' = Quota("work", chain)
                                  /\ Quota("carrier", chain)' = Quota("carrier", chain)
                                  /\ Quota("hub", chain)' = Quota("hub", chain)
         /\ e.type = "boosted" =>
              /\ Arrival(chain)'.total <= Arrival(chain).total + splitCommitment(e.amount).work
              /\ Quota("work", chain)' = Quota("work", chain) + splitCommitment(e.amount).work
              /\ Quota("carrier", chain)' >= Quota("carrier", chain)
              /\ Quota("hub", chain)' >= Quota("hub", chain)
         /\ Arrived' <=> Arrived \/ e.type = "arrived_destination"
<1>1. chain \in Seq(Event) /\ chain' \in Seq(Event)
  BY DEF TypeOK
<1>2. e.type = "boosted" => /\ e.amount \in Nat /\ e.from \in Nat
                            /\ \A part \in {"work", "carrier", "hub"} :
                                 splitCommitment(e.amount)[part] \in Nat
  <2> SUFFICES ASSUME e.type = "boosted"
               PROVE  /\ e.amount \in Nat /\ e.from \in Nat
                      /\ \A part \in {"work", "carrier", "hub"} :
                           splitCommitment(e.amount)[part] \in Nat
    OBVIOUS
  <2>1. e.amount \in Nat /\ e.from \in Nat
    BY DEF Event
  <2> QED  BY <2>1, PartsAreAmounts
<1>3. ASSUME NEW part \in {"work", "carrier", "hub"}
      PROVE  /\ Quota(part, chain)' \in Nat
             /\ Quota(part, chain)' = IF e.type = "boosted"
                                      THEN Quota(part, chain) + splitCommitment(e.amount)[part]
                                      ELSE Quota(part, chain)
  <2>1. Quota(part, chain) \in Nat
    BY DEF ChainIsRead
  <2>2. Quota(part, Append(chain, e)) = IF e.type = "boosted"
                                        THEN Quota(part, chain) + splitCommitment(e.amount)[part]
                                        ELSE Quota(part, chain)
    BY <1>1, <2>1, QuotaGrows
  <2> QED  BY <1>2, <2>1, <2>2
<1>4. SegmentBoosts(chain)' =
        CASE e.type = "rerouted" -> <<>>
          [] e.type = "boosted" ->
               Append(SegmentBoosts(chain),
                      [amount |-> splitCommitment(e.amount).work, from |-> e.from])
          [] OTHER -> SegmentBoosts(chain)
  BY <1>1, BoostsGrow DEF ChainIsRead
<1>5. SegmentBoosts(chain)' \in Seq(Boost)
  <2>1. CASE e.type = "rerouted"
    BY <1>4, <2>1
  <2>2. CASE e.type = "boosted"
    <3>1. [amount |-> splitCommitment(e.amount).work, from |-> e.from] \in Boost
      BY <1>2, <2>2 DEF Boost
    <3> QED  BY <1>4, <2>2, <3>1 DEF ChainIsRead
  <2>3. CASE e.type = "arrived_destination"
    BY <1>4, <2>3 DEF ChainIsRead
  <2> QED  BY <2>1, <2>2, <2>3 DEF Event
<1>6. /\ e.type # "boosted" => Arrival(chain)'.total = 0
      /\ e.type = "boosted" =>
           Arrival(chain)'.total \in
             {Arrival(chain).total, Arrival(chain).total + splitCommitment(e.amount).work}
      /\ Arrival(chain)' \in [after : BOOLEAN, total : Nat]
  BY <1>1, ArrivalMoves DEF ChainIsRead
<1>7. Arrived' <=> Arrived \/ e.type = "arrived_destination"
  <2>1. /\ DOMAIN chain' = 1 .. Len(chain) + 1 /\ DOMAIN chain = 1 .. Len(chain)
        /\ Len(chain) \in Nat /\ chain'[Len(chain) + 1] = e
        /\ \A i \in DOMAIN chain : chain'[i] = chain[i]
    BY <1>1
  <2> QED  BY <2>1 DEF Arrived
<1>8. ChainIsRead'
  BY <1>3, <1>5, <1>6 DEF ChainIsRead
<1>9. Arrival(chain).total \in Nat
  BY DEF ChainIsRead
<1>10. /\ Quota("work", chain) \in Nat /\ Quota("carrier", chain) \in Nat
       /\ Quota("hub", chain) \in Nat
  BY DEF ChainIsRead
<1>11. ASSUME e.type = "boosted"
       PROVE  /\ Arrival(chain)'.total <= Arrival(chain).total + splitCommitment(e.amount).work
              /\ Quota("work", chain)' = Quota("work", chain) + splitCommitment(e.amount).work
              /\ Quota("carrier", chain)' >= Quota("carrier", chain)
              /\ Quota("hub", chain)' >= Quota("hub", chain)
  <2>1. splitCommitment(e.amount).work \in Nat /\ splitCommitment(e.amount).carrier \in Nat
        /\ splitCommitment(e.amount).hub \in Nat
    BY <1>2, <1>11
  <2>2. /\ Quota("work", chain)' = Quota("work", chain) + splitCommitment(e.amount).work
        /\ Quota("carrier", chain)' = Quota("carrier", chain) + splitCommitment(e.amount).carrier
        /\ Quota("hub", chain)' = Quota("hub", chain) + splitCommitment(e.amount).hub
    BY <1>3, <1>11
  <2>3. Arrival(chain)'.total \in
          {Arrival(chain).total, Arrival(chain).total + splitCommitment(e.amount).work}
    BY <1>6, <1>11
  <2>4. Arrival(chain)'.total <= Arrival(chain).total + splitCommitment(e.amount).work
    BY <1>9, <2>1, <2>3
  <2>5. /\ Quota("carrier", chain)' >= Quota("carrier", chain)
        /\ Quota("hub", chain)' >= Quota("hub", chain)
    BY <1>10, <2>1, <2>2
  <2> QED  BY <2>2, <2>4, <2>5
<1>12. ASSUME e.type # "boosted"
       PROVE  /\ Quota("work", chain)' = Quota("work", chain)
              /\ Quota("carrier", chain)' = Quota("carrier", chain)
              /\ Quota("hub", chain)' = Quota("hub", chain)
  BY <1>3, <1>12
<1> QED  BY <1>1, <1>4, <1>6, <1>7, <1>8, <1>11, <1>12

\* A job that is paid took at most its share of the commitment.
LEMMA JobIsCovered ==
  ASSUME PricingInv, job # NoJob
  PROVE  paid.work + job.gross <= Quota("work", chain)
<1> USE DEF PricingInv
<1>1. PICK K \in Nat \ {0}, N \in Nat : WorthAtMost(K, N)
  BY DEF WorkIsBacked
<1>2. /\ job \in Job /\ job.gross \in Nat /\ job.to \in Hub /\ state = "AT_HUB"
      /\ at \in Hub /\ paid.work \in Nat /\ Quota("work", chain) \in Nat
  BY DEF TypeOK, Job, ParcelAdvances, ChainIsRead
<1>3. ToDest(at) \in Nat /\ ToDest(job.to) \in Nat
  BY <1>2, DistancesAre
<1>4. K * job.gross <= N * ToDest(at)
  <2>1. N * ToDest(job.to) \in Nat /\ K * job.gross \in Nat /\ N * ToDest(at) \in Nat
    BY <1>2, <1>3
  <2>2. job.kind \in {"leg", "claim"}
    BY <1>2 DEF Job
  <2> QED  BY <1>1, <2>1, <2>2 DEF WorthAtMost
<1>5. K * paid.work + N * ToDest(at) <= K * Quota("work", chain)
  BY <1>1, <1>2 DEF WorthAtMost
<1>6. K * (paid.work + job.gross) <= K * Quota("work", chain)
  <2>1. K * (paid.work + job.gross) = K * paid.work + K * job.gross
    BY <1>2
  <2> QED  BY <1>2, <1>3, <1>4, <1>5, <2>1
<1> QED  BY <1>2, <1>6

LEMMA LegArrives ==
  ASSUME PricingInv, ~Overlap, Undisturbed, leg_checkin
  PROVE  PricingInv'
<1> USE DEF PricingInv
<1>1. /\ job.kind = "leg" /\ job # NoJob /\ at' = job.to /\ job' = NoJob /\ paid' = PayJob
      /\ UNCHANGED <<shipment, request>>
  BY DEF leg_checkin, NoJob
<1>2. /\ job \in Job /\ job.to \in Hub /\ job.gross \in Nat /\ job.carrierBonus \in Nat
      /\ job.hubBonus \in Nat /\ state = "AT_HUB" /\ at \in Hub
  BY <1>1 DEF TypeOK, Job, ParcelAdvances
<1>3. RequestsAreFresh' /\ request' = [p \in Request |-> request'[p]]
  BY <1>1, NothingAsked
<1>4. /\ paid' = [paid EXCEPT !.work = @ + job.gross, !.carrier = @ + job.carrierBonus]
      /\ paid \in [work : Nat, carrier : Nat, hub : Nat, compensation : Nat]
  BY <1>1 DEF PayJob, TypeOK
<1>5. /\ paid'.work = paid.work + job.gross /\ paid'.carrier = paid.carrier + job.carrierBonus
      /\ paid'.hub = paid.hub /\ paid' \in [work : Nat, carrier : Nat, hub : Nat, compensation : Nat]
  <2>1. paid' = [work |-> paid.work + job.gross, carrier |-> paid.carrier + job.carrierBonus,
                 hub |-> paid.hub, compensation |-> paid.compensation]
    BY <1>4
  <2>2. /\ paid.work \in Nat /\ paid.carrier \in Nat
        /\ paid.hub \in Nat /\ paid.compensation \in Nat
    BY <1>4
  <2>3. paid.work + job.gross \in Nat /\ paid.carrier + job.carrierBonus \in Nat
    BY <1>2, <2>2
  <2> QED  BY <2>1, <2>2, <2>3
<1>6. /\ paid.work \in Nat /\ paid.carrier \in Nat /\ paid.hub = 0 /\ bonusHold = 0
      /\ paid.work + job.gross <= Quota("work", chain)
      /\ paid.carrier + job.carrierBonus <= Quota("carrier", chain)
      /\ paid.hub + bonusHold + job.hubBonus <= Quota("hub", chain)
  BY <1>1, <1>2, <1>4, JobIsCovered DEF QuotasAreBacked
<1>7. PICK K \in Nat \ {0}, N \in Nat : WorthAtMost(K, N)
  BY DEF WorkIsBacked
<1>8. CASE job.to # shipment.destHubId
  <2>1. UNCHANGED <<state, chain, bonusHold>>
    BY <1>8 DEF leg_checkin
  <2>2. TypeOK' /\ ChainIsRead'
    BY <1>1, <1>2, <1>3, <1>5, <2>1, ReadKept DEF TypeOK
  <2>3. \A h : ToDest(h)' = ToDest(h)
    BY <1>1, <2>1, PoolKept
  <2>4. /\ ToDest(at) \in Nat /\ ToDest(job.to) \in Nat /\ ToDest(job.to) <= ToDest(at)
        /\ ToDest(at) <= shipment.distanceKm /\ shipment.distanceKm \in Nat
    BY <1>1, <1>2, DistancesAre DEF ParcelAdvances, TypeOK
  <2>5. ParcelAdvances'
    <3>1. \A i \in DOMAIN SegmentBoosts(chain) :
            SegmentBoosts(chain)[i].from \in ToDest(job.to) .. shipment.distanceKm
      BY <1>2, <2>4 DEF ParcelAdvances
    <3>2. ToDest(at)' = ToDest(job.to)
      BY <1>1 DEF ToDest
    <3> QED  BY <1>1, <1>8, <2>1, <2>4, <3>1, <3>2 DEF ParcelAdvances, NoJob
  <2>6. WorthAtMost(K, N)'
    <3>1. K * (paid.work + job.gross) + N * ToDest(job.to) <= K * Quota("work", chain)
      <4>1. /\ K * job.gross + N * ToDest(job.to) <= N * ToDest(at)
            /\ K * paid.work + N * ToDest(at) <= K * Quota("work", chain)
        BY <1>1, <1>2, <1>7 DEF WorthAtMost
      <4>2. K * (paid.work + job.gross) = K * paid.work + K * job.gross
        BY <1>2, <1>6
      <4>3. /\ K * paid.work \in Nat /\ K * job.gross \in Nat /\ N * ToDest(job.to) \in Nat
            /\ N * ToDest(at) \in Nat
        BY <1>2, <1>6, <2>4
      <4>4. K * Quota("work", chain) \in Nat
        <5>1. Quota("work", chain) \in Nat
          BY DEF ChainIsRead
        <5> QED  BY <5>1
      <4> QED  BY <4>1, <4>2, <4>3, <4>4
    <3>2. ToDest(at)' = ToDest(job.to)
      BY <1>1 DEF ToDest
    <3> QED  BY <1>1, <1>5, <1>7, <2>1, <3>1, <3>2, PoolKept DEF WorthAtMost, NoJob
  <2>7. WorkIsBacked'
    BY <1>2, <1>5, <1>6, <2>1, <2>6, PoolKept, <1>1 DEF WorkIsBacked
  <2>8. job.carrierBonus = 0
    BY <1>1, <1>8 DEF QuotasAreBacked
  <2>9. QuotasAreBacked'
    <3>1. paid'.carrier = paid.carrier
      BY <1>5, <1>6, <2>8
    <3>2. paid'.carrier + 0 <= Quota("carrier", chain) /\ paid'.hub + bonusHold + 0 <= Quota("hub", chain)
      BY <1>5, <1>6, <3>1, PaidIsWithin DEF TypeOK
    <3> QED  BY <1>1, <1>2, <1>5, <1>6, <2>1, <3>1, <3>2, PoolKept DEF QuotasAreBacked, NoJob
  <2> QED  BY <1>3, <2>2, <2>5, <2>7, <2>9
<1>9. CASE job.to = shipment.destHubId
  <2> DEFINE e == Fact("arrived_destination")
  <2>1. state' = "AWAITING_PICKUP" /\ chain' = Append(chain, e) /\ bonusHold' = job.hubBonus
    BY <1>9 DEF leg_checkin
  <2>2. e \in Event /\ e.type = "arrived_destination"
    BY DEF Event, Fact
  <2> HIDE DEF e
  <2>3. /\ chain' \in Seq(Event) /\ ChainIsRead' /\ Arrived'
        /\ SegmentBoosts(chain)' = SegmentBoosts(chain) /\ Arrival(chain)'.total = 0
        /\ Quota("work", chain)' = Quota("work", chain)
        /\ Quota("carrier", chain)' = Quota("carrier", chain)
        /\ Quota("hub", chain)' = Quota("hub", chain)
    BY <2>1, <2>2, ChainTold
  <2>4. TypeOK'
    BY <1>1, <1>2, <1>3, <1>5, <2>1, <2>3 DEF TypeOK
  <2>5. ParcelAdvances'
    BY <1>1, <2>1 DEF ParcelAdvances, NoJob
  <2>6. WorthAtMost(K, N)'
    <3>1. \A r : remainingWorkPool(r)' = remainingWorkPool(r)
      BY <1>1, <2>3 DEF remainingWorkPool
    <3> QED  BY <1>1, <1>7, <2>1, <3>1 DEF WorthAtMost, NoJob
  <2>7. WorkIsBacked'
    <3>1. paid'.work <= Quota("work", chain)' /\ paid'.work + 0 <= Quota("work", chain)'
      BY <1>2, <1>5, <1>6, <2>3
    <3> QED  BY <2>3, <2>6, <3>1 DEF WorkIsBacked
  <2>8. QuotasAreBacked'
    <3>1. /\ paid'.carrier + 0 <= Quota("carrier", chain)'
          /\ paid'.hub + bonusHold' + 0 <= Quota("hub", chain)'
      BY <1>2, <1>5, <1>6, <2>1, <2>3
    <3> QED  BY <1>1, <1>5, <1>6, <2>1, <2>3, <3>1 DEF QuotasAreBacked, NoJob
  <2> QED  BY <1>3, <2>3, <2>4, <2>5, <2>7, <2>8
<1> QED  BY <1>8, <1>9

\* The parcel is handed over: what is paid is within the commitment, and nothing is
\* left to pay (state-machine/machine.ts, recipient_claimed_pickup and recipient_pickup).
LEMMA Ended ==
  ASSUME PricingInv, ~Overlap, Undisturbed, job' = NoJob,
         state' \in {"DELIVERED", "CANCELLED"},
         UNCHANGED <<at, shipment, chain, request>>,
         bonusHold' \in Nat, paid' \in [work : Nat, carrier : Nat, hub : Nat, compensation : Nat],
         paid'.work <= Quota("work", chain),
         paid'.carrier <= Quota("carrier", chain),
         paid'.hub + bonusHold' <= Quota("hub", chain)
  PROVE  PricingInv'
<1> USE DEF PricingInv
<1>1. RequestsAreFresh' /\ request' = [p \in Request |-> request'[p]]
  BY NothingAsked
<1>2. TypeOK' /\ ChainIsRead' /\ ParcelAdvances'
  BY <1>1, ReadKept DEF TypeOK, ParcelAdvances, NoJob
<1>3. WorkIsBacked'
  <2>1. PICK K \in Nat \ {0}, N \in Nat : WorthAtMost(K, N)
    BY DEF WorkIsBacked
  <2>2. WorthAtMost(K, N)'
    BY <2>1, PoolKept DEF WorthAtMost, NoJob
  <2> QED  BY <2>2, PoolKept DEF WorkIsBacked
<1>4. QuotasAreBacked'
  <2>1. paid'.carrier + 0 <= Quota("carrier", chain) /\ paid'.hub + bonusHold' + 0 <= Quota("hub", chain)
    BY DEF ChainIsRead
  <2> QED  BY <2>1, PoolKept DEF QuotasAreBacked, NoJob
<1> QED  BY <1>1, <1>2, <1>3, <1>4

LEMMA ClaimPicked ==
  ASSUME PricingInv, ~Overlap, Undisturbed, recipient_claimed_pickup
  PROVE  PricingInv'
<1>1. /\ job.kind = "claim" /\ job # NoJob /\ job' = NoJob /\ state' = "DELIVERED"
      /\ paid' = [PayJob EXCEPT !.hub = @ + job.hubBonus]
      /\ UNCHANGED <<at, shipment, chain, bonusHold, request>>
  BY DEF recipient_claimed_pickup, NoJob
<1>2. /\ job.gross \in Nat /\ job.carrierBonus \in Nat /\ job.hubBonus \in Nat /\ bonusHold \in Nat
      /\ paid \in [work : Nat, carrier : Nat, hub : Nat, compensation : Nat]
  BY <1>1 DEF PricingInv, TypeOK, Job
<1>3. paid' = [work |-> paid.work + job.gross, carrier |-> paid.carrier + job.carrierBonus,
               hub |-> paid.hub + job.hubBonus, compensation |-> paid.compensation]
  BY <1>1, <1>2 DEF PayJob
<1>4. /\ paid.work \in Nat /\ paid.carrier \in Nat /\ paid.hub \in Nat /\ paid.compensation \in Nat
  BY <1>2
<1>5. /\ paid.work + job.gross \in Nat /\ paid.carrier + job.carrierBonus \in Nat
      /\ paid.hub + job.hubBonus \in Nat
  BY <1>2, <1>4
<1>6. /\ paid.work + job.gross <= Quota("work", chain)
      /\ paid.carrier + job.carrierBonus <= Quota("carrier", chain)
      /\ paid.hub + bonusHold + job.hubBonus <= Quota("hub", chain)
  BY <1>1, JobIsCovered DEF PricingInv, QuotasAreBacked
<1>7. (paid.hub + job.hubBonus) + bonusHold = paid.hub + bonusHold + job.hubBonus
  BY <1>2, <1>4
<1>8. /\ paid' \in [work : Nat, carrier : Nat, hub : Nat, compensation : Nat]
      /\ bonusHold' \in Nat
  <2>1. bonusHold' = bonusHold
    BY <1>1
  <2> QED  BY <1>2, <1>3, <1>4, <1>5, <2>1
<1>9. /\ paid'.work <= Quota("work", chain) /\ paid'.carrier <= Quota("carrier", chain)
      /\ paid'.hub + bonusHold' <= Quota("hub", chain)
  BY <1>1, <1>3, <1>6, <1>7
<1> QED  BY <1>1, <1>8, <1>9, Ended

LEMMA PickedUp ==
  ASSUME PricingInv, ~Overlap, Undisturbed, recipient_pickup
  PROVE  PricingInv'
<1>1. /\ state = "AWAITING_PICKUP" /\ state' = "DELIVERED" /\ bonusHold' = 0
      /\ paid' = [paid EXCEPT !.hub = @ + bonusHold]
      /\ UNCHANGED <<at, shipment, chain, job, request>>
  BY DEF recipient_pickup
<1>2. job' = NoJob
  BY <1>1 DEF PricingInv, ParcelAdvances
<1>3. /\ bonusHold \in Nat /\ paid \in [work : Nat, carrier : Nat, hub : Nat, compensation : Nat]
  BY DEF PricingInv, TypeOK
<1>4. paid' = [work |-> paid.work, carrier |-> paid.carrier,
               hub |-> paid.hub + bonusHold, compensation |-> paid.compensation]
  BY <1>1, <1>3
<1>5. /\ paid.work \in Nat /\ paid.carrier \in Nat /\ paid.hub \in Nat /\ paid.compensation \in Nat
      /\ paid.hub + bonusHold \in Nat
  BY <1>3
<1>6. /\ paid.work <= Quota("work", chain) /\ paid.carrier <= Quota("carrier", chain)
      /\ paid.hub + bonusHold <= Quota("hub", chain)
  BY PaidIsWithin DEF PricingInv, WorkIsBacked
<1>7. /\ paid' \in [work : Nat, carrier : Nat, hub : Nat, compensation : Nat]
      /\ bonusHold' \in Nat
  BY <1>1, <1>4, <1>5
<1>8. /\ paid'.work <= Quota("work", chain) /\ paid'.carrier <= Quota("carrier", chain)
      /\ paid'.hub + bonusHold' <= Quota("hub", chain)
  BY <1>1, <1>4, <1>5, <1>6
<1> QED  BY <1>1, <1>2, <1>7, <1>8, Ended

LEMMA FeesAre ==
  \A h \in Hub : FeeBp[h] \in Nat /\ FeeBp[h] <= 3000
<1> SUFFICES ASSUME NEW h \in Hub PROVE FeeBp[h] \in Nat /\ FeeBp[h] <= 3000
  OBVIOUS
<1>1. FeeBp[h] \in 0 .. 3000
  BY FeesBelowCap
<1>2. \A n : n \in 0 .. 3000 => n \in Nat /\ n <= 3000
  OBVIOUS
<1> QED  BY <1>1, <1>2

LEMMA CompensationIsAmount ==
  \A work, bp \in Nat : cancellationCompensation(work, bp) \in Nat
<1> SUFFICES ASSUME NEW work \in Nat, NEW bp \in Nat
             PROVE  cancellationCompensation(work, bp) \in Nat
  OBVIOUS
<1>1. work * bp \in Nat
  OBVIOUS
<1>2. (work * bp) \div BpDenominator \in Nat
  BY <1>1, Floors DEF BpDenominator
<1> QED  BY <1>2, SatFloors DEF cancellationCompensation

LEMMA Cancelled ==
  ASSUME PricingInv, ~Overlap, Undisturbed, cancel
  PROVE  PricingInv'
<1> DEFINE amount == cancellationCompensation(shipment.segmentWorkMsat, FeeBp[Origin])
<1>1. /\ state' = "CANCELLED" /\ job' = NoJob /\ paid' = [paid EXCEPT !.compensation = amount]
      /\ UNCHANGED <<at, shipment, chain, bonusHold, request>>
  BY DEF cancel
<1>2. amount \in Nat
  <2>1. FeeBp[Origin] \in Nat
    BY FeesAre, EndsDiffer
  <2>2. shipment.segmentWorkMsat \in Nat
    BY DEF PricingInv, TypeOK
  <2> QED  BY <2>1, <2>2, CompensationIsAmount
<1> HIDE DEF amount
<1>3. paid \in [work : Nat, carrier : Nat, hub : Nat, compensation : Nat] /\ bonusHold \in Nat
  BY DEF PricingInv, TypeOK
<1>4. /\ paid' \in [work : Nat, carrier : Nat, hub : Nat, compensation : Nat]
      /\ paid'.work = paid.work /\ paid'.carrier = paid.carrier /\ paid'.hub = paid.hub
  BY <1>1, <1>2, <1>3
<1>5. /\ paid.work <= Quota("work", chain) /\ paid.carrier <= Quota("carrier", chain)
      /\ paid.hub + bonusHold <= Quota("hub", chain)
  BY PaidIsWithin DEF PricingInv, WorkIsBacked
<1> QED  BY <1>1, <1>3, <1>4, <1>5, Ended

----------------------------------------------------------------------------
(* The steps: the sender adds to the commitment or changes the way.        *)

\* A boost of w made with `from` units of distance left raises the rate N / K of the
\* pool to (N * from + K * w) / (K * from), of which the way that is left is worth
\* exactly w more.
LEMMA RateAfterBoost ==
  ASSUME NEW K \in Nat \ {0}, NEW N \in Nat, NEW w \in Nat, NEW from \in Nat \ {0},
         NEW r \in Nat, NEW pool \in Nat, K * pool <= N * r
  PROVE  (K * from) * (pool + (w * r) \div from) <= (N * from + K * w) * r
<1> DEFINE share == (w * r) \div from
<1>1. w * r \in Nat
  OBVIOUS
<1>2. share \in Nat /\ from * share <= w * r
  BY <1>1, Floors
<1> HIDE DEF share
<1>3. (K * from) * (pool + share) = from * (K * pool) + K * (from * share)
  BY <1>2
<1>4. (N * from + K * w) * r = from * (N * r) + K * (w * r)
  OBVIOUS
<1>5. from * (K * pool) <= from * (N * r)
  OBVIOUS
<1>6. K * (from * share) <= K * (w * r)
  BY <1>1, <1>2
<1>7. /\ from * (K * pool) \in Nat /\ from * (N * r) \in Nat
      /\ K * (from * share) \in Nat /\ K * (w * r) \in Nat
  BY <1>1, <1>2
<1> QED  BY <1>3, <1>4, <1>5, <1>6, <1>7 DEF share

LEMMA WayAfterBoost ==
  ASSUME NEW K \in Nat \ {0}, NEW N \in Nat, NEW w \in Nat, NEW from \in Nat \ {0},
         NEW done \in Nat, NEW quota \in Nat, K * done + N * from <= K * quota
  PROVE  (K * from) * done + (N * from + K * w) * from <= (K * from) * (quota + w)
<1>1. (K * from) * done + (N * from + K * w) * from = from * (K * done + N * from) + K * w * from
  OBVIOUS
<1>2. (K * from) * (quota + w) = from * (K * quota) + K * w * from
  OBVIOUS
<1>3. from * (K * done + N * from) <= from * (K * quota)
  OBVIOUS
<1>4. /\ from * (K * done + N * from) \in Nat /\ from * (K * quota) \in Nat
      /\ K * w * from \in Nat
  OBVIOUS
<1> QED  BY <1>1, <1>2, <1>3, <1>4

LEMMA Boosting ==
  ASSUME PricingInv, NEW q \in Request, boost(q)
  PROVE  PricingInv'
<1> USE DEF PricingInv
<1> DEFINE e == Boosted(request[q].key, request[q].from)
<1>1. /\ request[q].kind = "boost" /\ request[q] # NoRequest
      /\ state \in {"AT_HUB", "AWAITING_PICKUP"} /\ job = NoJob /\ request[q].from > 0
      /\ chain' = Append(chain, e) /\ Answer(q)
      /\ UNCHANGED <<state, at, shipment, job, bonusHold, paid>>
  BY DEF boost, NoRequest
<1>2. FreshBoost(request[q]) /\ RequestsAreFresh' /\ request' = [p \in Request |-> request'[p]]
  BY <1>1, RequestAnswered DEF RequestsAreFresh
<1>3. /\ request[q].key \in BoostKey
      /\ request[q].from = IF state = "AT_HUB" THEN ToDest(at) ELSE shipment.distanceKm
  BY <1>2 DEF FreshBoost
<1>4. shipment.distanceKm \in Nat \ {0} /\ at \in Hub /\ ToDest(at) \in Nat
  BY DistancesAre DEF TypeOK
<1>5. PICK from \in Nat \ {0} : request[q].from = from
  BY <1>1, <1>3, <1>4
<1>6. /\ e \in Event /\ e.type = "boosted" /\ e.from = from /\ e.amount \in Nat
  BY <1>3, <1>5, CommitmentsAreAmounts DEF Event, Boosted
<1>7. PICK w \in Nat : splitCommitment(e.amount).work = w
  BY <1>6, PartsAreAmounts
<1> DEFINE b == [amount |-> w, from |-> from]
<1>8. b \in Boost
  BY DEF Boost
<1> HIDE DEF e
<1>9. /\ chain' \in Seq(Event) /\ ChainIsRead' /\ (Arrived' <=> Arrived)
      /\ SegmentBoosts(chain)' = Append(SegmentBoosts(chain), b)
      /\ Arrival(chain)'.total <= Arrival(chain).total + w
      /\ Quota("work", chain)' = Quota("work", chain) + w
      /\ Quota("carrier", chain)' >= Quota("carrier", chain)
      /\ Quota("hub", chain)' >= Quota("hub", chain)
  BY <1>1, <1>6, <1>7, ChainTold
<1> HIDE DEF b
<1>10. TypeOK'
  BY <1>1, <1>2, <1>9 DEF TypeOK
<1>11. \A h : ToDest(h)' = ToDest(h)
  BY <1>1 DEF ToDest
<1>12. b.amount = w /\ b.from = from
  BY DEF b
<1>13. ParcelAdvances'
  <2>1. ASSUME state = "AT_HUB"
        PROVE  \A i \in DOMAIN Append(SegmentBoosts(chain), b) :
                 Append(SegmentBoosts(chain), b)[i].from \in ToDest(at) .. shipment.distanceKm
    <3>1. SegmentBoosts(chain) \in Seq(Boost)
      BY DEF ChainIsRead
    <3>2. from \in ToDest(at) .. shipment.distanceKm
      BY <1>3, <1>4, <1>5, <2>1 DEF ParcelAdvances
    <3>3. \A i \in DOMAIN SegmentBoosts(chain) :
            SegmentBoosts(chain)[i].from \in ToDest(at) .. shipment.distanceKm
      BY <2>1 DEF ParcelAdvances
    <3>4. /\ DOMAIN Append(SegmentBoosts(chain), b) = 1 .. Len(SegmentBoosts(chain)) + 1
          /\ DOMAIN SegmentBoosts(chain) = 1 .. Len(SegmentBoosts(chain))
          /\ Len(SegmentBoosts(chain)) \in Nat
          /\ Append(SegmentBoosts(chain), b)[Len(SegmentBoosts(chain)) + 1] = b
          /\ \A i \in DOMAIN SegmentBoosts(chain) :
               Append(SegmentBoosts(chain), b)[i] = SegmentBoosts(chain)[i]
      BY <1>8, <3>1
    <3> QED  BY <1>12, <3>2, <3>3, <3>4
  <2> QED  BY <1>1, <1>9, <1>11, <2>1 DEF ParcelAdvances, NoJob
<1>14. PICK K \in Nat \ {0}, N \in Nat : WorthAtMost(K, N)
  BY DEF WorkIsBacked
<1>15. \A r \in Nat : remainingWorkPool(r)' = remainingWorkPool(r) + (w * r) \div from
  <2> SUFFICES ASSUME NEW r \in Nat
               PROVE  remainingWorkPool(r)' = remainingWorkPool(r) + (w * r) \div from
    OBVIOUS
  <2>1. remainingWorkPool(r) \in Nat
    BY <1>14 DEF WorthAtMost
  <2>2. remainingPool(shipment.segmentWorkMsat, shipment.distanceKm, r, Append(SegmentBoosts(chain), b))
          = remainingPool(shipment.segmentWorkMsat, shipment.distanceKm, r, SegmentBoosts(chain))
            + PoolShare(b.amount, r, b.from)
    BY <1>8, <2>1, PoolGrows DEF remainingWorkPool, ChainIsRead
  <2> QED  BY <1>1, <1>9, <1>12, <2>2 DEF remainingWorkPool, PoolShare
<1>16. WorthAtMost(K * from, N * from + K * w)'
  <2>1. ASSUME NEW r \in Nat
        PROVE  /\ remainingWorkPool(r)' \in Nat
               /\ (shipment.segmentWorkMsat * r) \div shipment.distanceKm <= remainingWorkPool(r)'
               /\ (K * from) * remainingWorkPool(r)' <= (N * from + K * w) * r
    <3>1. /\ remainingWorkPool(r) \in Nat /\ K * remainingWorkPool(r) <= N * r
          /\ (shipment.segmentWorkMsat * r) \div shipment.distanceKm <= remainingWorkPool(r)
      BY <1>14 DEF WorthAtMost
    <3>2. (w * r) \div from \in Nat
      <4>1. w * r \in Nat
        BY <1>7
      <4> QED  BY <1>5, <4>1, Floors
    <3>3. (shipment.segmentWorkMsat * r) \div shipment.distanceKm \in Int
      BY <1>4 DEF TypeOK
    <3>4. (K * from) * (remainingWorkPool(r) + (w * r) \div from) <= (N * from + K * w) * r
      BY <1>5, <1>7, <3>1, RateAfterBoost
    <3> QED  BY <1>15, <3>1, <3>2, <3>3, <3>4
  <2>2. ASSUME state = "AT_HUB"
        PROVE  (K * from) * paid.work + (N * from + K * w) * ToDest(at)
                 <= (K * from) * (Quota("work", chain) + w)
    <3>1. from = ToDest(at)
      BY <1>3, <1>5, <2>2
    <3>2. K * paid.work + N * from <= K * Quota("work", chain)
      BY <1>14, <2>2, <3>1 DEF WorthAtMost
    <3>3. paid.work \in Nat /\ Quota("work", chain) \in Nat
      BY DEF TypeOK, ChainIsRead
    <3>4. (K * from) * paid.work + (N * from + K * w) * from <= (K * from) * (Quota("work", chain) + w)
      BY <1>5, <1>7, <3>2, <3>3, WayAfterBoost
    <3> QED  BY <3>1, <3>4
  <2>3. job'.kind # "leg" /\ job'.kind # "claim"
    BY <1>1 DEF NoJob
  <2>4. \A r \in Nat :
          /\ remainingWorkPool(r)' \in Nat
          /\ (shipment'.segmentWorkMsat * r) \div shipment'.distanceKm <= remainingWorkPool(r)'
          /\ (K * from) * remainingWorkPool(r)' <= (N * from + K * w) * r
    BY <1>1, <2>1
  <2>5. state' = "AT_HUB" => (K * from) * paid'.work + (N * from + K * w) * ToDest(at)'
                               <= (K * from) * Quota("work", chain)'
    BY <1>1, <1>9, <1>11, <2>2
  <2> QED  BY <2>3, <2>4, <2>5 DEF WorthAtMost
<1>17. WorkIsBacked'
  <2>1. K * from \in Nat \ {0} /\ N * from + K * w \in Nat
    BY <1>5, <1>7
  <2>2. /\ paid.work \in Nat /\ Quota("work", chain) \in Nat /\ Arrival(chain).total \in Nat
        /\ Arrival(chain)'.total \in Nat
    BY <1>9 DEF TypeOK, ChainIsRead
  <2>3. /\ paid.work <= Quota("work", chain) + w
        /\ state = "AWAITING_PICKUP" => paid.work + Arrival(chain)'.total <= Quota("work", chain) + w
    BY <1>7, <1>9, <2>2 DEF WorkIsBacked
  <2>4. \E k \in Nat \ {0}, n \in Nat : WorthAtMost(k, n)'
    BY <1>16, <2>1
  <2>5. /\ paid'.work <= Quota("work", chain)'
        /\ state' = "AWAITING_PICKUP" => paid'.work + Arrival(chain)'.total <= Quota("work", chain)'
    BY <1>1, <1>9, <2>3
  <2> QED  BY <2>4, <2>5 DEF WorkIsBacked
<1>18. QuotasAreBacked'
  <2>1. /\ paid.carrier \in Nat /\ paid.hub \in Nat /\ bonusHold \in Nat
        /\ Quota("carrier", chain) \in Nat /\ Quota("hub", chain) \in Nat
        /\ Quota("carrier", chain)' \in Nat /\ Quota("hub", chain)' \in Nat
    BY <1>9 DEF TypeOK, ChainIsRead
  <2>2. paid.carrier + 0 <= Quota("carrier", chain)' /\ paid.hub + bonusHold + 0 <= Quota("hub", chain)'
    BY <1>9, <2>1, PaidIsWithin
  <2> QED  BY <1>1, <1>9, <2>2 DEF QuotasAreBacked, NoJob
<1> QED  BY <1>2, <1>9, <1>10, <1>13, <1>17, <1>18

\* What a reroute freezes for the way to come is not paid and is within the commitment.
LEMMA FrozenIsCovered ==
  ASSUME PricingInv, state \in {"AT_HUB", "AWAITING_PICKUP"}
  PROVE  FrozenWork \in Nat /\ paid.work + FrozenWork <= Quota("work", chain)
<1> USE DEF PricingInv
<1>1. paid.work \in Nat /\ Quota("work", chain) \in Nat /\ Arrival(chain).total \in Nat
  BY DEF TypeOK, ChainIsRead
<1>2. CASE state = "AWAITING_PICKUP"
  <2>1. FrozenWork = Arrival(chain).total
    BY <1>2, ArrivalIsRead DEF FrozenWork, SegmentLeft
  <2> QED  BY <1>1, <1>2, <2>1 DEF WorkIsBacked
<1>3. CASE state = "AT_HUB"
  <2> DEFINE r == ToDest(at)
             pool == remainingWorkPool(r)
  <2>1. PICK K \in Nat \ {0}, N \in Nat : WorthAtMost(K, N)
    BY DEF WorkIsBacked
  <2>2. r \in Nat /\ r <= shipment.distanceKm /\ shipment.distanceKm \in Nat
    BY <1>3, DistancesAre DEF TypeOK, ParcelAdvances
  <2>3. FrozenWork = pool
    <3>1. (IF r < shipment.distanceKm THEN r ELSE shipment.distanceKm) = r
      BY <2>2
    <3> QED  BY <1>3, <3>1 DEF FrozenWork, SegmentLeft
  <2>4. /\ pool \in Nat /\ K * pool <= N * r
        /\ K * paid.work + N * r <= K * Quota("work", chain)
    BY <1>3, <2>1, <2>2 DEF WorthAtMost
  <2> HIDE DEF pool, r
  <2>5. K * (paid.work + pool) <= K * Quota("work", chain)
    <3>1. K * (paid.work + pool) = K * paid.work + K * pool
      BY <1>1, <2>4
    <3>2. /\ K * paid.work \in Nat /\ K * pool \in Nat /\ N * r \in Nat
          /\ K * Quota("work", chain) \in Nat
      BY <1>1, <2>2, <2>4
    <3> QED  BY <2>4, <3>1, <3>2
  <2>6. paid.work + pool <= Quota("work", chain)
    BY <1>1, <2>4, <2>5
  <2> QED  BY <2>3, <2>4, <2>6
<1> QED  BY <1>2, <1>3

LEMMA Rerouted ==
  ASSUME PricingInv, NEW q \in Request, reroute(q)
  PROVE  PricingInv'
<1> USE DEF PricingInv
<1> DEFINE e == Fact("rerouted")
<1>1. /\ request[q].kind = "reroute" /\ request[q] # NoRequest
      /\ state \in {"AT_HUB", "AWAITING_PICKUP"} /\ job = NoJob /\ state' = "AT_HUB"
      /\ request[q].row.destHubId # at /\ shipment' = request[q].row /\ bonusHold' = 0
      /\ chain' = Append(chain, e) /\ Answer(q) /\ UNCHANGED <<at, job, paid>>
  BY DEF reroute, Reroutable, NoRequest
<1>2. FreshReroute(request[q]) /\ RequestsAreFresh' /\ request' = [p \in Request |-> request'[p]]
  BY <1>1, RequestAnswered DEF RequestsAreFresh
<1>3. PICK dest \in Hub : /\ Distance[<<at, dest>>] > 0
                          /\ shipment' = [destHubId |-> dest, distanceKm |-> Distance[<<at, dest>>],
                                          segmentWorkMsat |-> FrozenWork]
  BY <1>1, <1>2 DEF FreshReroute
<1>4. PICK d \in Nat \ {0} : Distance[<<at, dest>>] = d
  BY <1>3, DistanceIsMetric DEF TypeOK
<1>5. PICK work \in Nat : FrozenWork = work /\ paid.work + work <= Quota("work", chain)
  BY <1>1, FrozenIsCovered
<1>6. shipment' = [destHubId |-> dest, distanceKm |-> d, segmentWorkMsat |-> work] /\ at # dest
  BY <1>1, <1>3, <1>4, <1>5
<1>7. e \in Event /\ e.type = "rerouted"
  BY DEF Event, Fact
<1> HIDE DEF e
<1>8. /\ chain' \in Seq(Event) /\ ChainIsRead' /\ (Arrived' <=> Arrived)
      /\ SegmentBoosts(chain)' = <<>> /\ Arrival(chain)'.total = 0
      /\ Quota("work", chain)' = Quota("work", chain)
      /\ Quota("carrier", chain)' = Quota("carrier", chain)
      /\ Quota("hub", chain)' = Quota("hub", chain)
  BY <1>1, <1>7, ChainTold
<1>9. TypeOK'
  BY <1>1, <1>2, <1>6, <1>8 DEF TypeOK
<1>10. ToDest(at)' = d
  BY <1>1, <1>4, <1>6 DEF ToDest
<1>11. ParcelAdvances'
  <2>1. DOMAIN SegmentBoosts(chain)' = {}
    BY <1>8
  <2> QED  BY <1>1, <1>6, <1>10, <2>1 DEF ParcelAdvances, NoJob
<1>12. \A r \in Nat : remainingWorkPool(r)' = (work * r) \div d
  BY <1>6, <1>8, PoolStarts DEF remainingWorkPool
<1>13. WorthAtMost(d, work)'
  <2>1. ASSUME NEW r \in Nat
        PROVE  /\ remainingWorkPool(r)' \in Nat
               /\ (shipment'.segmentWorkMsat * r) \div shipment'.distanceKm <= remainingWorkPool(r)'
               /\ d * remainingWorkPool(r)' <= work * r
    <3>1. work * r \in Nat
      OBVIOUS
    <3>2. (work * r) \div d \in Nat /\ d * ((work * r) \div d) <= work * r
      BY <3>1, Floors
    <3> QED  BY <1>6, <1>12, <3>2
  <2>2. d * paid'.work + work * ToDest(at)' <= d * Quota("work", chain)'
    <3>1. paid.work \in Nat /\ Quota("work", chain) \in Nat
      BY DEF TypeOK, ChainIsRead
    <3>2. d * paid.work + work * d <= d * Quota("work", chain)
      <4>1. d * paid.work + work * d = d * (paid.work + work)
        BY <3>1
      <4>2. d * (paid.work + work) <= d * Quota("work", chain)
        BY <1>5, <3>1
      <4> QED  BY <4>1, <4>2
    <3> QED  BY <1>1, <1>8, <1>10, <3>2
  <2>3. job'.kind # "leg" /\ job'.kind # "claim"
    BY <1>1 DEF NoJob
  <2> QED  BY <2>1, <2>2, <2>3 DEF WorthAtMost
<1>14. WorkIsBacked'
  <2>1. \E k \in Nat \ {0}, n \in Nat : WorthAtMost(k, n)'
    BY <1>13
  <2>2. paid'.work <= Quota("work", chain)' /\ state' # "AWAITING_PICKUP"
    BY <1>1, <1>8 DEF WorkIsBacked
  <2> QED  BY <2>1, <2>2 DEF WorkIsBacked
<1>15. QuotasAreBacked'
  <2>1. /\ paid.carrier \in Nat /\ paid.hub = 0 /\ (~Arrived => paid.carrier = 0)
        /\ Quota("carrier", chain) \in Nat /\ Quota("hub", chain) \in Nat
    BY <1>1 DEF TypeOK, ChainIsRead, QuotasAreBacked
  <2>2. paid'.carrier + 0 <= Quota("carrier", chain)' /\ paid'.hub + bonusHold' + 0 <= Quota("hub", chain)'
    BY <1>1, <1>8, <2>1, PaidIsWithin
  <2> QED  BY <1>1, <1>8, <2>1, <2>2 DEF QuotasAreBacked, NoJob
<1> QED  BY <1>2, <1>8, <1>9, <1>11, <1>14, <1>15

LEMMA RecipientChanged ==
  ASSUME PricingInv, ~Overlap, Undisturbed, reroute_recipient
  PROVE  PricingInv'
<1> USE DEF PricingInv
<1> DEFINE e == Fact("rerouted")
<1>1. /\ state \in {"AT_HUB", "AWAITING_PICKUP"} /\ job = NoJob
      /\ chain' = Append(chain, e)
      /\ UNCHANGED <<state, at, shipment, job, bonusHold, paid, request>>
  BY DEF reroute_recipient, Reroutable
<1>2. RequestsAreFresh' /\ request' = [p \in Request |-> request'[p]]
  BY <1>1, NothingAsked
<1>3. e \in Event /\ e.type = "rerouted"
  BY DEF Event, Fact
<1> HIDE DEF e
<1>4. /\ chain' \in Seq(Event) /\ ChainIsRead' /\ (Arrived' <=> Arrived)
      /\ SegmentBoosts(chain)' = <<>> /\ Arrival(chain)'.total = 0
      /\ Quota("work", chain)' = Quota("work", chain)
      /\ Quota("carrier", chain)' = Quota("carrier", chain)
      /\ Quota("hub", chain)' = Quota("hub", chain)
  BY <1>1, <1>3, ChainTold
<1>5. TypeOK'
  BY <1>1, <1>2, <1>4 DEF TypeOK
<1>6. \A h : ToDest(h)' = ToDest(h)
  BY <1>1 DEF ToDest
<1>7. ParcelAdvances'
  <2>1. DOMAIN SegmentBoosts(chain)' = {}
    BY <1>4
  <2> QED  BY <1>1, <1>6, <2>1 DEF ParcelAdvances, NoJob
<1>8. PICK K \in Nat \ {0}, N \in Nat : WorthAtMost(K, N)
  BY DEF WorkIsBacked
<1>9. \A r \in Nat :
        remainingWorkPool(r)' = (shipment.segmentWorkMsat * r) \div shipment.distanceKm
  BY <1>1, <1>4, PoolStarts DEF remainingWorkPool
<1>10. WorthAtMost(K, N)'
  <2>1. ASSUME NEW r \in Nat
        PROVE  /\ remainingWorkPool(r)' \in Nat
               /\ (shipment'.segmentWorkMsat * r) \div shipment'.distanceKm <= remainingWorkPool(r)'
               /\ K * remainingWorkPool(r)' <= N * r
    <3> DEFINE base == (shipment.segmentWorkMsat * r) \div shipment.distanceKm
    <3>1. base \in Nat
      <4>1. shipment.segmentWorkMsat \in Nat /\ shipment.distanceKm \in Nat /\ shipment.distanceKm > 0
        BY DEF TypeOK
      <4>2. shipment.segmentWorkMsat * r \in Nat
        BY <4>1
      <4> QED  BY <4>1, <4>2, Floors
    <3>2. /\ base <= remainingWorkPool(r) /\ remainingWorkPool(r) \in Nat
          /\ K * remainingWorkPool(r) <= N * r
      BY <1>8 DEF WorthAtMost
    <3>3. shipment' = shipment /\ remainingWorkPool(r)' = base
      BY <1>1, <1>9
    <3> HIDE DEF base
    <3>4. K * base <= K * remainingWorkPool(r)
      BY <3>1, <3>2
    <3>5. K * base <= N * r
      BY <3>1, <3>2, <3>4
    <3>6. base <= base
      BY <3>1
    <3> QED  BY <3>1, <3>3, <3>5, <3>6 DEF base
  <2>2. state' = "AT_HUB" => K * paid'.work + N * ToDest(at)' <= K * Quota("work", chain)'
    BY <1>1, <1>4, <1>6, <1>8 DEF WorthAtMost
  <2>3. job'.kind # "leg" /\ job'.kind # "claim"
    BY <1>1 DEF NoJob
  <2> QED  BY <2>1, <2>2, <2>3 DEF WorthAtMost
<1>11. WorkIsBacked'
  <2>1. \E k \in Nat \ {0}, n \in Nat : WorthAtMost(k, n)'
    BY <1>10
  <2>2. /\ paid'.work <= Quota("work", chain)' /\ paid.work \in Nat /\ paid'.work = paid.work
        /\ Arrival(chain)'.total = 0
    BY <1>1, <1>4 DEF WorkIsBacked, TypeOK
  <2>3. paid'.work + Arrival(chain)'.total <= Quota("work", chain)'
    BY <2>2
  <2> QED  BY <2>1, <2>2, <2>3 DEF WorkIsBacked
<1>12. QuotasAreBacked'
  BY <1>1, <1>4 DEF QuotasAreBacked
<1> QED  BY <1>2, <1>4, <1>5, <1>7, <1>11, <1>12

----------------------------------------------------------------------------
(* The invariant, and what it implies.                                     *)

LEMMA PricingStarts == Init => PricingInv
<1> SUFFICES ASSUME Init PROVE PricingInv
  OBVIOUS
<1>1. PICK d \in Nat \ {0} : Distance[<<Origin, FirstDest>>] = d
  BY DistanceIsMetric, EndsDiffer
<1>2. PICK work \in Nat : splitCommitment(Offer).work = work
  BY CommitmentsAreAmounts, PartsAreAmounts
<1>3. /\ state = "AT_HUB" /\ at = Origin /\ chain = <<>> /\ job = NoJob /\ bonusHold = 0
      /\ shipment = [destHubId |-> FirstDest, distanceKm |-> d, segmentWorkMsat |-> work]
      /\ paid = [work |-> 0, carrier |-> 0, hub |-> 0, compensation |-> 0]
      /\ request = [q \in Request |-> NoRequest]
  BY <1>1, <1>2 DEF Init
<1>4. TypeOK
  <2>1. chain \in Seq(Event)
    BY <1>3
  <2>2. request = [q \in Request |-> request[q]]
    BY <1>3
  <2> QED  BY <1>3, <2>1, <2>2, EndsDiffer DEF TypeOK
<1>5. /\ SegmentBoosts(chain) = <<>> /\ Arrival(chain) = [after |-> FALSE, total |-> 0]
      /\ \A part : Quota(part, chain) = splitCommitment(Offer)[part]
  BY <1>3, BoostsStart, ArrivalStarts, QuotaStarts
<1>6. ChainIsRead
  <2>1. \A part \in {"work", "carrier", "hub"} : Quota(part, chain) \in Nat
    BY <1>5, PartsAreAmounts, CommitmentsAreAmounts
  <2> QED  BY <1>5, <2>1 DEF ChainIsRead
<1>7. ToDest(at) = d
  BY <1>1, <1>3 DEF ToDest
<1>8. ParcelAdvances
  <2>1. DOMAIN SegmentBoosts(chain) = {}
    BY <1>5
  <2> QED  BY <1>3, <1>7, <2>1, EndsDiffer DEF ParcelAdvances, NoJob
<1>9. WorthAtMost(d, work)
  <2>1. ASSUME NEW r \in Nat
        PROVE  /\ remainingWorkPool(r) \in Nat
               /\ (shipment.segmentWorkMsat * r) \div shipment.distanceKm <= remainingWorkPool(r)
               /\ d * remainingWorkPool(r) <= work * r
    <3>1. work * r \in Nat
      OBVIOUS
    <3>2. (work * r) \div d \in Nat /\ d * ((work * r) \div d) <= work * r
      BY <3>1, Floors
    <3>3. remainingWorkPool(r) = (work * r) \div d
      BY <1>3, <1>5, PoolStarts DEF remainingWorkPool
    <3> QED  BY <1>3, <3>2, <3>3
  <2>2. d * paid.work + work * ToDest(at) <= d * Quota("work", chain)
    <3>1. d * 0 + work * d <= d * work
      OBVIOUS
    <3> QED  BY <1>2, <1>3, <1>5, <1>7, <3>1
  <2>3. job.kind # "leg" /\ job.kind # "claim"
    BY <1>3 DEF NoJob
  <2> QED  BY <2>1, <2>2, <2>3 DEF WorthAtMost
<1>10. WorkIsBacked
  <2>1. \E k \in Nat \ {0}, n \in Nat : WorthAtMost(k, n)
    BY <1>9
  <2>2. paid.work <= Quota("work", chain)
    BY <1>2, <1>3, <1>5
  <2> QED  BY <1>3, <2>1, <2>2 DEF WorkIsBacked
<1>11. QuotasAreBacked
  <2>1. 0 + 0 <= Quota("carrier", chain) /\ 0 + 0 + 0 <= Quota("hub", chain)
    BY <1>6 DEF ChainIsRead
  <2> QED  BY <1>3, <2>1 DEF QuotasAreBacked, NoJob
<1>12. RequestsAreFresh
  BY <1>3 DEF RequestsAreFresh
<1> QED  BY <1>4, <1>6, <1>8, <1>10, <1>11, <1>12 DEF PricingInv

LEMMA PricingKept ==
  ASSUME ~Overlap, PricingInv, [Next]_vars
  PROVE  PricingInv'
<1>1. ASSUME NEW q \in Request, NEW h \in Hub, PriceLegRequest(q, h) \/ AskReroute(q, h)
      PROVE  PricingInv'
  BY <1>1, LegPriced, RerouteAsked
<1>2. ASSUME NEW q \in Request, NEW k \in BoostKey, AskBoost(q, k)
      PROVE  PricingInv'
  BY <1>2, BoostAsked
<1>3. ASSUME NEW q \in Request,
             \/ PriceClaim(q) \/ leg_request(q) \/ recipient_claim(q)
             \/ boost(q) \/ reroute(q) \/ Drop(q)
      PROVE  PricingInv'
  BY <1>3, ClaimPriced, LegFrozen, ClaimFrozen, Boosting, Rerouted, RequestDropped
<1>4. ASSUME Undisturbed,
             \/ reroute_recipient \/ leg_checkin \/ JobDissolves
             \/ recipient_claimed_pickup \/ recipient_pickup \/ cancel
      PROVE  PricingInv'
  BY <1>4, RecipientChanged, LegArrives, JobGone, ClaimPicked, PickedUp, Cancelled
<1>5. ASSUME UNCHANGED vars
      PROVE  PricingInv'
  <2>1. /\ UNCHANGED <<state, at, shipment, chain, job, bonusHold, paid>> /\ request' = request
    BY <1>5 DEF vars
  <2>2. request' = [p \in Request |-> request'[p]]
    BY <2>1 DEF PricingInv, TypeOK
  <2>3. RequestsAreFresh'
    <3>1. \A x : /\ FreshLeg(x)' <=> FreshLeg(x)
                 /\ FreshClaim(x)' <=> FreshClaim(x)
                 /\ FreshBoost(x)' <=> FreshBoost(x)
                 /\ FreshReroute(x)' <=> FreshReroute(x)
      <4> SUFFICES ASSUME NEW x
                   PROVE  /\ FreshLeg(x)' <=> FreshLeg(x)
                          /\ FreshClaim(x)' <=> FreshClaim(x)
                          /\ FreshBoost(x)' <=> FreshBoost(x)
                          /\ FreshReroute(x)' <=> FreshReroute(x)
        OBVIOUS
      <4>1. /\ FreshLeg(x)' <=> FreshLeg(x)
            /\ FreshClaim(x)' <=> FreshClaim(x)
            /\ FreshBoost(x)' <=> FreshBoost(x)
        BY <2>1, PoolKept DEF FreshLeg, FreshClaim, FreshBoost
      <4>2. FrozenWork' = FrozenWork
        <5>1. /\ postArrivalBoostWork(chain)' = postArrivalBoostWork(chain)
              /\ ToDest(at)' = ToDest(at)
              /\ \A r : remainingWorkPool(r)' = remainingWorkPool(r)
          BY <2>1, PoolKept DEF ToDest
        <5> QED  BY <2>1, <5>1 DEF FrozenWork, SegmentLeft
      <4> QED  BY <2>1, <4>1, <4>2 DEF FreshReroute
    <3> QED  BY <2>1, <3>1 DEF PricingInv, RequestsAreFresh
  <2> QED  BY <2>1, <2>2, <2>3, RowsKept
<1> QED  BY <1>1, <1>2, <1>3, <1>4, <1>5 DEF Next

LEMMA CommitmentIsConserved == PricingInv => CommitmentConserved
<1> SUFFICES ASSUME PricingInv PROVE CommitmentConserved
  OBVIOUS
<1> USE DEF PricingInv
<1>1. /\ paid.work \in Nat /\ Quota("work", chain) \in Nat /\ Arrival(chain).total \in Nat
      /\ paid.work <= Quota("work", chain)
  BY DEF TypeOK, ChainIsRead, WorkIsBacked
<1>2. /\ paid.carrier + (IF job = NoJob THEN 0 ELSE job.carrierBonus) <= Quota("carrier", chain)
      /\ paid.hub + bonusHold + (IF job = NoJob THEN 0 ELSE job.hubBonus) <= Quota("hub", chain)
  BY DEF QuotasAreBacked
<1>3. paid.work + WorkLeft <= Quota("work", chain)
  <2>1. CASE state = "AT_HUB" /\ job.kind = "claim"
    <3>1. job # NoJob /\ WorkLeft = job.gross
      BY <2>1 DEF WorkLeft, NoJob
    <3> QED  BY <3>1, JobIsCovered
  <2>2. CASE state = "AT_HUB" /\ job.kind = "leg" /\ job.to = shipment.destHubId
    <3>1. job # NoJob /\ WorkLeft = job.gross + 0
      BY <2>2 DEF WorkLeft, NoJob
    <3>2. job.gross \in Nat
      BY <3>1 DEF TypeOK, Job
    <3> QED  BY <3>1, <3>2, JobIsCovered
  <2>3. CASE state = "AT_HUB" /\ job.kind = "leg" /\ job.to # shipment.destHubId
    <3> DEFINE r == ToDest(job.to)
               pool == remainingWorkPool(r)
    <3>1. job # NoJob /\ WorkLeft = job.gross + pool
      BY <2>3 DEF WorkLeft, NoJob
    <3>2. job.gross \in Nat /\ job.to \in Hub /\ at \in Hub
      BY <3>1 DEF TypeOK, Job
    <3>3. PICK K \in Nat \ {0}, N \in Nat : WorthAtMost(K, N)
      BY DEF WorkIsBacked
    <3>4. r \in Nat /\ ToDest(at) \in Nat
      BY <3>2, DistancesAre
    <3>5. /\ pool \in Nat /\ K * pool <= N * r
          /\ K * job.gross + N * r <= N * ToDest(at)
          /\ K * paid.work + N * ToDest(at) <= K * Quota("work", chain)
      BY <2>3, <3>3, <3>4 DEF WorthAtMost
    <3> HIDE DEF pool, r
    <3>6. K * (paid.work + (job.gross + pool)) = K * paid.work + K * job.gross + K * pool
      BY <1>1, <3>2, <3>5
    <3>7. /\ K * paid.work \in Nat /\ K * job.gross \in Nat /\ K * pool \in Nat
          /\ N * r \in Nat /\ N * ToDest(at) \in Nat /\ K * Quota("work", chain) \in Nat
      BY <1>1, <3>2, <3>4, <3>5
    <3>8. K * (paid.work + (job.gross + pool)) <= K * Quota("work", chain)
      BY <3>5, <3>6, <3>7
    <3>9. paid.work + (job.gross + pool) <= Quota("work", chain)
      BY <1>1, <3>2, <3>5, <3>8
    <3> QED  BY <3>1, <3>9
  <2>4. CASE state = "AT_HUB" /\ job = NoJob
    <3>1. WorkLeft = remainingWorkPool(ToDest(at))
      BY <2>4 DEF WorkLeft, NoJob
    <3>2. FrozenWork = remainingWorkPool(ToDest(at))
      <4>1. /\ ToDest(at) \in Nat /\ shipment.distanceKm \in Nat
            /\ ToDest(at) <= shipment.distanceKm
        BY <2>4, DistancesAre DEF TypeOK, ParcelAdvances
      <4>2. (IF ToDest(at) < shipment.distanceKm THEN ToDest(at) ELSE shipment.distanceKm)
              = ToDest(at)
        BY <4>1
      <4> QED  BY <2>4, <4>2 DEF FrozenWork, SegmentLeft
    <3> QED  BY <2>4, <3>1, <3>2, FrozenIsCovered
  <2>5. CASE state = "AWAITING_PICKUP"
    <3>1. WorkLeft = Arrival(chain).total
      BY <2>5, ArrivalIsRead DEF WorkLeft
    <3> QED  BY <2>5, <3>1 DEF WorkIsBacked
  <2>6. CASE state \notin {"AT_HUB", "AWAITING_PICKUP"}
    <3>1. WorkLeft = 0
      BY <2>6 DEF WorkLeft
    <3> QED  BY <1>1, <3>1
  <2>7. job = NoJob \/ job.kind \in {"leg", "claim"}
    BY DEF TypeOK, Job
  <2> QED  BY <2>1, <2>2, <2>3, <2>4, <2>5, <2>6, <2>7
<1> QED  BY <1>2, <1>3 DEF CommitmentConserved, Committed

\* The boosts of the segment have a work part, if every boost has.
BoostsWeigh == \A i \in DOMAIN SegmentBoosts(chain) : SegmentBoosts(chain)[i].amount > 0

LEMMA BoostsAlwaysWeigh ==
  ASSUME BoostsReachThePool, PricingInv, BoostsWeigh, [Next]_vars
  PROVE  BoostsWeigh'
<1> USE DEF PricingInv
<1>1. CASE UNCHANGED chain
  BY <1>1 DEF BoostsWeigh
<1>2. ASSUME NEW e \in Event, chain' = Append(chain, e), e.type # "boosted"
      PROVE  BoostsWeigh'
  <2>1. SegmentBoosts(chain)' = <<>> \/ SegmentBoosts(chain)' = SegmentBoosts(chain)
    BY <1>2, ChainTold
  <2>2. DOMAIN <<>> = {}
    OBVIOUS
  <2> QED  BY <2>1, <2>2 DEF BoostsWeigh
<1>3. ASSUME NEW q \in Request, boost(q)
      PROVE  BoostsWeigh'
  <2> DEFINE key == request[q].key
             e == Boosted(key, request[q].from)
             b == [amount |-> splitCommitment(e.amount).work, from |-> e.from]
  <2>1. request[q].kind = "boost" /\ request[q] # NoRequest /\ chain' = Append(chain, e)
        /\ request[q].from > 0
    BY <1>3 DEF boost, NoRequest
  <2>2. FreshBoost(request[q])
    BY <2>1 DEF RequestsAreFresh
  <2>3. key \in BoostKey /\ request[q].from \in Nat
    <3>1. ToDest(at) \in Nat /\ shipment.distanceKm \in Nat
      BY DistancesAre DEF TypeOK
    <3> QED  BY <2>2, <3>1 DEF FreshBoost
  <2>4. e \in Event /\ e.type = "boosted" /\ e.amount = BoostAmount[key] /\ e.amount \in Nat
    BY <2>3, CommitmentsAreAmounts DEF Event, Boosted
  <2>5. b.amount > 0 /\ b \in Boost
    <3>1. b.amount > 0 /\ b.amount = splitCommitment(e.amount).work
      BY <2>3, <2>4 DEF BoostsReachThePool
    <3>2. e.from \in Nat /\ splitCommitment(e.amount).work \in Nat
      BY <2>3, <2>4, PartsAreAmounts DEF Boosted
    <3> QED  BY <3>1, <3>2 DEF Boost
  <2>6. SegmentBoosts(chain)' = Append(SegmentBoosts(chain), b)
    BY <2>1, <2>4, ChainTold
  <2> HIDE DEF b
  <2>7. SegmentBoosts(chain) \in Seq(Boost)
    BY DEF ChainIsRead
  <2>8. /\ DOMAIN Append(SegmentBoosts(chain), b) = 1 .. Len(SegmentBoosts(chain)) + 1
        /\ DOMAIN SegmentBoosts(chain) = 1 .. Len(SegmentBoosts(chain))
        /\ Len(SegmentBoosts(chain)) \in Nat
        /\ Append(SegmentBoosts(chain), b)[Len(SegmentBoosts(chain)) + 1] = b
        /\ \A i \in DOMAIN SegmentBoosts(chain) :
             Append(SegmentBoosts(chain), b)[i] = SegmentBoosts(chain)[i]
    BY <2>5, <2>7
  <2> QED  BY <2>5, <2>6, <2>8 DEF BoostsWeigh
<1>4. ASSUME (\E q \in Request : reroute(q)) \/ reroute_recipient
      PROVE  BoostsWeigh'
  <2>1. chain' = Append(chain, Fact("rerouted"))
    BY <1>4 DEF reroute, reroute_recipient
  <2>2. Fact("rerouted") \in Event /\ Fact("rerouted").type # "boosted"
    BY DEF Event, Fact
  <2> QED  BY <1>2, <2>1, <2>2
<1>5. ASSUME leg_checkin
      PROVE  BoostsWeigh'
  <2>1. UNCHANGED chain \/ chain' = Append(chain, Fact("arrived_destination"))
    BY <1>5 DEF leg_checkin
  <2>2. Fact("arrived_destination") \in Event /\ Fact("arrived_destination").type # "boosted"
    BY DEF Event, Fact
  <2> QED  BY <1>1, <1>2, <2>1, <2>2
<1>6. \/ UNCHANGED chain \/ \E q \in Request : boost(q)
      \/ (\E q \in Request : reroute(q)) \/ reroute_recipient \/ leg_checkin
  BY DEF Next, vars, PriceLegRequest, AskReroute, AskBoost, PriceClaim, Compute, leg_request,
         recipient_claim, Drop, JobDissolves, recipient_claimed_pickup, recipient_pickup, cancel
<1> QED  BY <1>1, <1>3, <1>4, <1>5, <1>6

LEMMA ParcelIsPriceable == PricingInv /\ BoostsWeigh => AlwaysPriceable
BY DEF PricingInv, TypeOK, ParcelAdvances, AlwaysPriceable, Priceable, Defined, PoolDefined,
       BoostsWeigh

----------------------------------------------------------------------------
(* The range of fees on the dashboard.                                     *)

LEMMA SatFloorGrows ==
  ASSUME NEW x \in Nat, NEW y \in Nat, x <= y
  PROVE  floorToSat(x) <= floorToSat(y)
BY DEF floorToSat, SatMsat

LEMMA FloorGrows ==
  ASSUME NEW x \in Nat, NEW y \in Nat, NEW z \in Nat \ {0}, x <= y
  PROVE  x \div z <= y \div z
OBVIOUS

\* No leg that may be priced is shorter than the shortest (economics.ts,
\* estimateHubFeeRange mirrors the guard of priceLeg).
LEMMA NoneIsShorter ==
  ASSUME NEW total \in Nat, NEW r \in Nat, NEW progress, ProgressAllowed(total, r, progress)
  PROVE  /\ progress \in 1 .. r /\ r > 0
         /\ ShortestProgress(total, r) \in Nat /\ ShortestProgress(total, r) <= progress
<1>1. /\ progress \in 1 .. r
      /\ progress = r \/ (progress >= MinProgress /\ progress * 20 >= total)
  BY DEF ProgressAllowed
<1> DEFINE fiveUp == (total + 19) \div 20
<1>2. fiveUp \in Nat /\ (progress * 20 >= total => fiveUp <= progress)
  BY <1>1
<1> HIDE DEF fiveUp
<1>3. MinProgress \in Nat
  BY MinProgressIsNat
<1>4. ShortestProgress(total, r) =
        LET floor == IF MinProgress > fiveUp THEN MinProgress ELSE fiveUp
        IN IF floor < r THEN floor ELSE r
  BY DEF ShortestProgress, fiveUp
<1> QED  BY <1>1, <1>2, <1>3, <1>4

\* A fee grows with the gross it is taken of.
LEMMA FeeGrows ==
  ASSUME NEW x \in Nat, NEW y \in Nat, NEW bp \in Nat, x <= y
  PROVE  /\ floorToSat((x * bp) \div BpDenominator) <= floorToSat((y * bp) \div BpDenominator)
         /\ floorToSat((x * bp) \div BpDenominator) \in Nat
<1>1. x * bp \in Nat /\ y * bp \in Nat /\ x * bp <= y * bp
  OBVIOUS
<1>2. BpDenominator \in Nat \ {0}
  BY DEF BpDenominator
<1>3. /\ (x * bp) \div BpDenominator \in Nat /\ (y * bp) \div BpDenominator \in Nat
      /\ (x * bp) \div BpDenominator <= (y * bp) \div BpDenominator
  BY <1>1, <1>2, Floors, FloorGrows
<1> QED  BY <1>3, SatFloors, SatFloorGrows

LEMMA RangeBrackets ==
  ASSUME NEW pool \in Nat, NEW total \in Nat, NEW r \in Nat, NEW progress,
         ProgressAllowed(total, r, progress), NEW bp \in Nat, NEW arr, NEW quota
  PROVE  LET range == estimateHubFeeRange(pool, total, r, bp)
         IN  priceLeg(pool, r, progress, bp, arr, quota).depFee \in range.min .. range.max
<1> DEFINE short == ShortestProgress(total, r)
           least == floorToSat((pool * short) \div r)
           gross == floorToSat((pool * progress) \div r)
           most == floorToSat(pool)
<1>1. progress \in 1 .. r /\ r \in Nat \ {0} /\ short \in Nat /\ short <= progress
  BY NoneIsShorter
<1> HIDE DEF short
<1>2. /\ pool * short \in Nat /\ pool * progress \in Nat /\ pool * r \in Nat
      /\ pool * short <= pool * progress /\ pool * progress <= pool * r
  BY <1>1
<1>3. (pool * r) \div r = pool
  BY <1>1
<1>4. /\ (pool * short) \div r \in Nat /\ (pool * progress) \div r \in Nat
      /\ (pool * short) \div r <= (pool * progress) \div r
      /\ (pool * progress) \div r <= pool
  BY <1>1, <1>2, <1>3, Floors, FloorGrows
<1>5. /\ least \in Nat /\ gross \in Nat /\ most \in Nat /\ least <= gross /\ gross <= most
  BY <1>4, SatFloors, SatFloorGrows
<1>6. /\ priceLeg(pool, r, progress, bp, arr, quota).depFee
           = floorToSat((gross * bp) \div BpDenominator)
      /\ estimateHubFeeRange(pool, total, r, bp).min = floorToSat((least * bp) \div BpDenominator)
      /\ estimateHubFeeRange(pool, total, r, bp).max = floorToSat((most * bp) \div BpDenominator)
  BY DEF priceLeg, estimateHubFeeRange, short
<1> HIDE DEF least, gross, most
<1>7. /\ floorToSat((least * bp) \div BpDenominator) \in Nat
      /\ floorToSat((gross * bp) \div BpDenominator) \in Nat
      /\ floorToSat((most * bp) \div BpDenominator) \in Nat
      /\ floorToSat((least * bp) \div BpDenominator) <= floorToSat((gross * bp) \div BpDenominator)
      /\ floorToSat((gross * bp) \div BpDenominator) <= floorToSat((most * bp) \div BpDenominator)
  BY <1>5, FeeGrows
<1> QED  BY <1>6, <1>7

LEMMA EstimateIsRight == PricingInv => EstimateBrackets
<1> SUFFICES ASSUME PricingInv, state = "AT_HUB", NEW h \in Hub \ {at},
                    ProgressAllowed(shipment.distanceKm, ToDest(at), ToDest(at) - ToDest(h))
             PROVE  priceLeg(remainingWorkPool(ToDest(at)), ToDest(at), ToDest(at) - ToDest(h),
                             FeeBp[at], FeeBp[h], 0).depFee
                      \in estimateHubFeeRange(remainingWorkPool(ToDest(at)), shipment.distanceKm,
                                              ToDest(at), FeeBp[at]).min
                          .. estimateHubFeeRange(remainingWorkPool(ToDest(at)), shipment.distanceKm,
                                                 ToDest(at), FeeBp[at]).max
  BY DEF EstimateBrackets
<1>1. /\ ToDest(at) \in Nat /\ shipment.distanceKm \in Nat
      /\ remainingWorkPool(ToDest(at)) \in Nat
  BY DistancesAre DEF PricingInv, TypeOK, WorkIsBacked, WorthAtMost
<1>2. FeeBp[at] \in Nat
  BY FeesAre DEF PricingInv, TypeOK
<1> QED  BY <1>1, <1>2, RangeBrackets

----------------------------------------------------------------------------
(* The theorems.                                                           *)

LEMMA PricingHolds ==
  ASSUME ~Overlap
  PROVE  Spec => []PricingInv
<1>1. PricingInv /\ [Next]_vars => PricingInv'
  BY PricingKept
<1> QED  BY <1>1, PricingStarts, PTL DEF Spec

\* However the way is split into legs, boosted, rerouted or claimed, what was paid
\* and what can still be paid for work never exceeds the work parts of the offer and
\* the boosts, and each quota of the bonus is consumed at most once.
THEOREM MoneyIsConserved ==
  ASSUME ~Overlap
  PROVE  Spec => []CommitmentConserved
BY PricingHolds, CommitmentIsConserved, PTL

\* A parcel at rest on the board can always be priced, if no boost is too small to
\* reach the pool: remainingPool does not throw.
THEOREM ParcelNeverStuck ==
  ASSUME ~Overlap, BoostsReachThePool
  PROVE  Spec => []AlwaysPriceable
<1>1. Init => BoostsWeigh
  <2>1. Init => SegmentBoosts(chain) = <<>>
    BY BoostsStart DEF Init
  <2>2. DOMAIN <<>> = {}
    OBVIOUS
  <2> QED  BY <2>1, <2>2 DEF BoostsWeigh
<1>2. PricingInv /\ BoostsWeigh /\ [Next]_vars => BoostsWeigh'
  BY BoostsAlwaysWeigh
<1> QED  BY <1>1, <1>2, PricingHolds, ParcelIsPriceable, PTL DEF Spec

\* The range of estimateHubFeeRange brackets the departure fee priceLeg computes for
\* every leg it would accept.
THEOREM EstimateAlwaysBrackets ==
  ASSUME ~Overlap
  PROVE  Spec => []EstimateBrackets
BY PricingHolds, EstimateIsRight, PTL
=============================================================================
