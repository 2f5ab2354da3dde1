\* The worker's fairness, with holds that may die at the wallets at any time.
SPECIFICATION FairSpec
CONSTANTS
  Hub = {h0, h1}
  OriginHub = h0
  StayId = {s1, s2}
  LegId = {l1}
  ClaimId = {}
  NoStay = NoStay
  HoldsMayDie = TRUE
  MaxBacklog = 20
CHECK_DEADLOCK FALSE
PROPERTIES
  EveryWaitEnds
  MoneyComesHome
  RefundsConverge
