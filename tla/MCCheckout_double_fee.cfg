\* Hub and carrier confirm at once, and both requests pay.
CONSTANTS
  Caller = {"h", "v", "s"}
  Role <- ByName
  Legs = 2
  Window = 1
  PickupAfter = 2
  MaxTime = 3
  MaxInvoices = 2
  MaxRequests <- Retries
  PayersAtOnce = 2
  MayReroute = TRUE
  MayStall = FALSE
SPECIFICATION Spec
INVARIANT FeePaidOnce
CHECK_DEADLOCK FALSE
