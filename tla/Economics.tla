------------------------------- MODULE Economics -------------------------------
(***************************************************************************)
(* The pricing engine of packages/core/src/economics: pure functions of    *)
(* amounts in msat and distances in one whole unit, shared by the routes   *)
(* that price (Pricing) and by the board that shows prices (Board).        *)
(* Divisions floor, as bigint division of non-negative amounts does.       *)
(***************************************************************************)
EXTENDS Integers, Sequences

CONSTANT MinProgress    \* MIN_LEG_PROGRESS_KM in the unit of the distances

ASSUME MinProgressIsNat == MinProgress \in Nat

SatMsat == 1000
BpDenominator == 10000

\* for (const e of seq) acc = step[acc][e], from start: what acc is after the last.
Loop(step, start, seq) ==
  LET acc[i \in 0 .. Len(seq)] == IF i = 0 THEN start ELSE step[acc[i - 1]][seq[i]]
  IN acc[Len(seq)]

floorToSat(a) == a - (a % SatMsat)

splitCommitment(a) ==
  LET bonus == (a * 1000) \div BpDenominator IN
  [work    |-> (a * (BpDenominator - 1000)) \div BpDenominator,
   carrier |-> (bonus * 7000) \div BpDenominator,
   hub     |-> (bonus * 3000) \div BpDenominator]

\* Fault: a boost keeps its full value however far the parcel has come since.
PoolShare_constant(amount, r, from) == amount
PoolShare(amount, r, from) == (amount * r) \div from

\* A boost of the segment: its work part and the distance left when it was made.
Boost == [amount : Nat, from : Nat]

PoolDefined(total, r, boosts) ==
  /\ total > 0 /\ r <= total
  /\ \A i \in DOMAIN boosts : boosts[i].amount > 0 /\ boosts[i].from \in r .. total

remainingPool(offer, total, r, boosts) ==
  Loop([sum \in Nat |-> [b \in Boost |-> sum + PoolShare(b.amount, r, b.from)]],
       (offer * r) \div total, boosts)

\* Guard of priceLeg: enough progress, or the last hop whatever its length.
ProgressAllowed(total, r, progress) ==
  /\ progress \in 1 .. r
  /\ progress = r \/ (progress >= MinProgress /\ progress * 20 >= total)

priceLeg(pool, r, progress, depBp, arrBp, carrierQuota) ==
  LET gross == floorToSat((pool * progress) \div r)
      depFee == floorToSat((gross * depBp) \div BpDenominator)
      arrFee == floorToSat((gross * arrBp) \div BpDenominator)
  IN [gross |-> gross, depFee |-> depFee, arrFee |-> arrFee,
      net |-> gross - depFee - arrFee,
      carrierBonus |-> IF progress = r THEN floorToSat(carrierQuota) ELSE 0]

cancellationCompensation(work, bp) == floorToSat((work * bp) \div BpDenominator)

\* Fault: the shortest leg is taken to be the whole way.
ShortestProgress_whole(total, r) == r
ShortestProgress(total, r) ==
  LET fiveUp == (total + 19) \div 20
      floor == IF MinProgress > fiveUp THEN MinProgress ELSE fiveUp
  IN IF floor < r THEN floor ELSE r

estimateHubFeeRange(pool, total, r, bp) ==
  LET fee(gross) == floorToSat((gross * bp) \div BpDenominator) IN
  [min |-> fee(floorToSat((pool * ShortestProgress(total, r)) \div r)),
   max |-> fee(floorToSat(pool))]
=============================================================================
