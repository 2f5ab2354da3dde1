\* The storage timer comes due while the request is answered.
SPECIFICATION Spec
CONSTANTS
  Acceptor = {a1, a2}
  NoOne = NoOne
  Overlap = FALSE
  MaxFailures = 0
CHECK_DEADLOCK FALSE
SYMMETRY AcceptSymmetry
INVARIANTS
  StorageIsTimed
