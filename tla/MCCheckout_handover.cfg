\* Two legs handed over by four parties; one request at a time pays a fee.
CONSTANTS
  Caller = {"h", "v", "a", "s"}
  Role <- ByName
  Legs = 2
  Window = 1
  PickupAfter = 2
  MaxTime = 3
  MaxInvoices = 2
  MaxRequests <- Retries
  PayersAtOnce = 1
  MayReroute = TRUE
  MayStall = FALSE
SPECIFICATION Spec
INVARIANTS
  FeePaidOnce
  CertifiedIsPaid
  PickedUpWasConfirmed
CHECK_DEADLOCK FALSE
