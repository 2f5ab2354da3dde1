------------------------------ MODULE MCCustody ------------------------------
EXTENDS Pages

\* A and B take deposits without asking; C is the recipient's own, and D a
\* private one of the sender's.  Everybody but the sender may carry.
Owners ==
  [h \in Hub |-> CASE h = "A" -> "oA" [] h = "B" -> "oB" [] h = "C" -> "v" [] h = "D" -> "s"]
Steps == {"origin_hub_accept", "origin_checkin", "leg_request", "pickup_checkout",
          "leg_checkin", "leg_return", "recipient_pickup", "recipient_claim",
          "recipient_claimed_pickup", "handoff_reject", "cancel"}
=============================================================================
