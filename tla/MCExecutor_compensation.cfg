\* Two accepts of the same request at once; nothing fails.
SPECIFICATION Spec
CONSTANTS
  Acceptor = {a1, a2}
  NoOne = NoOne
  Overlap = TRUE
  MaxFailures = 0
CHECK_DEADLOCK FALSE
SYMMETRY AcceptSymmetry
INVARIANTS
  BookedIsBonded
