------------------------------- MODULE MCPricing -------------------------------
EXTENDS Pricing

\* Hubs on a road with one bypass, in kilometres: the drop hubs c and d lie off the
\* line from a to b, so that a leg's progress is not its length.
Km == [p \in Hub \X Hub |->
         LET far == [a |-> 0, c |-> 37, d |-> 61, b |-> 100]
             off == [a |-> 0, c |-> 3, d |-> 5, b |-> 0]
             gap == IF far[p[1]] < far[p[2]] THEN far[p[2]] - far[p[1]] ELSE far[p[1]] - far[p[2]]
         IN IF p[1] = p[2] THEN 0 ELSE gap + off[p[1]] + off[p[2]]]
Hubs == {"a", "b", "c", "d"}
Fees == [h \in Hubs |-> CASE h = "a" -> 3000 [] h = "b" -> 250 [] h = "c" -> 1225 [] OTHER -> 0]
Boosts == [k \in BoostKey |-> IF k = "k1" THEN 10007 ELSE 4999]

\* No boost of the run is too small to reach the pool.
ASSUME BoostsOfTheRun == BoostsReachThePool
=============================================================================
