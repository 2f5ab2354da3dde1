\* Three hubs, one carrier's leg with its arrival and its return, one recipient claim.
SPECIFICATION Spec
CONSTANTS
  Hub = {h0, h1, h2}
  OriginHub = h0
  StayId = {s1, s2, s3}
  LegId = {l1}
  ClaimId = {c1}
  NoStay = NoStay
  HoldsMayDie = FALSE
  MaxBacklog = 3
SYMMETRY RowSymmetry
CONSTRAINT ShortBacklog
CHECK_DEADLOCK FALSE
INVARIANTS
  BoardExclusive
  RowsMatchState
  BondedCustodian
  OpenHoldsAccounted
  JournalPassesAudit
  SettlementMatchesOutcome
