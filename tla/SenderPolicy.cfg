\* Half of a unit is shared fairly.
CONSTANTS
  Receivers = {r1, r2, r3}
  None = None
  Unit = 12
  FsWeight = 6
  Bound <- MCBound
SPECIFICATION AuditSpec
SYMMETRY Symmetry
INVARIANTS
  DeficitsBounded
  BoundedWait
