CONSTANTS
  Objects = {a, b, c}
  MaxSize = 3
  VersionSpan = 5
  InitialCapacity = 0
SPECIFICATION Spec
INVARIANTS TypeOK Consistent
PROPERTIES StableIdentity
SYMMETRY ObjectSymmetry
CHECK_DEADLOCK FALSE
