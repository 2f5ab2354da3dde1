\* Two boosts and two reroutes over four hubs, one priced request at a time.
CONSTANTS
  Hub <- Hubs
  Distance <- Km
  FeeBp <- Fees
  Origin = "a"
  FirstDest = "b"
  Offer = 50003
  BoostKey = {"k1", "k2"}
  BoostAmount <- Boosts
  Request = {"q1"}
  Overlap = FALSE
  MinProgress = 5
  MaxReroutes = 2
SPECIFICATION Spec
INVARIANTS
  CommitmentConserved
  AlwaysPriceable
  EstimateBrackets
CHECK_DEADLOCK FALSE
