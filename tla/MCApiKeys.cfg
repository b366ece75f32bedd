SPECIFICATION Spec
CONSTANTS
  Keys = {k1, k2}
  Commands = {c1, c2}
  Requests = {r1, r2}
  MaxClock = 3
SYMMETRY MCSymmetry
CHECK_DEADLOCK FALSE
INVARIANTS
  ReportedRevocationHolds
  MomentWithinReport
PROPERTIES
  RevokedForGood
