------------------------------ MODULE MCCheckout ------------------------------
EXTENDS Checkout

\* The hub at the counter, the carrier, and one of the arrival hub and the sender.
ByName == [c \in Caller |-> CASE c = "h" -> "hub" [] c = "v" -> "carrier"
                              [] c = "a" -> "arrival" [] c = "s" -> "sender"]
\* The carrier may come back, or retry after a failure; so may the sender where there
\* is no hub at the arrival to check in.
Retries == [c \in Caller |-> IF c = "v" \/ (c = "s" /\ "a" \notin Caller) THEN 2 ELSE 1]
=============================================================================
