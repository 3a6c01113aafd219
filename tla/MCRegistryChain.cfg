SPECIFICATION Spec
CONSTANTS
  Orgs = {o1}
  Keys = {k1}
  MaxVersion = 3
  MaxFaults = 1
INVARIANTS
  TypeOK
  PassedIsPublished
  RevocationLasts
  FaithfulHistoryPasses
CHECK_DEADLOCK FALSE
