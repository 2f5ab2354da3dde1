\* Two carriers one after the other between two hubs, with reroutes and returns.
SPECIFICATION Spec
CONSTANTS
  Hub = {h0, h1}
  OriginHub = h0
  StayId = {s1, s2, s3}
  LegId = {l1, l2}
  ClaimId = {}
  NoStay = NoStay
  HoldsMayDie = FALSE
  MaxBacklog = 3
SYMMETRY RowSymmetry
CONSTRAINT ShortBacklog
CHECK_DEADLOCK FALSE
INVARIANTS
  TimersMatchWaits
  NeverIdleAtDestination
PROPERTIES
  StorageClockMonotone
