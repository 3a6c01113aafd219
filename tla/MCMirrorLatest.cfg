SPECIFICATION Spec
CONSTANTS
  MaxAnchors = 2
  MaxFaults = 2
  MaxQuorum = 3
INVARIANTS
  TypeOK
  HonestSurfaceDecides
  FailIsDivergence
CHECK_DEADLOCK FALSE
