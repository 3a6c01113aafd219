SPECIFICATION AnchorSpec
CONSTANTS
  MaxAnchors = 3
  MaxFaults = 2
INVARIANTS
  TypeOK
  LossesAreGaps
  PassedIsPublished
  FaithfulDirectoryPasses
  SignedDirectoryDecides
CHECK_DEADLOCK FALSE
