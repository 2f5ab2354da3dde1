\* Two accepts one after the other, each free to fail, against the hub, the sweep and the pump.
SPECIFICATION FairSpec
CONSTANTS
  Acceptor = {a1, a2}
  NoOne = NoOne
  Overlap = FALSE
  MaxFailures = 2
CHECK_DEADLOCK FALSE
INVARIANTS
  BookedIsBonded
  GivesBackItsOwn
PROPERTIES
  RequestEnds
  DissolvedLegComesHome
