SPECIFICATION Spec
CONSTANTS
  Bodies = {a, b}
  MaxLen = 3
  MaxFaults = 2
INVARIANTS
  PassedIsPublished
  LastHashPinsChain
  FaithfulCopyPasses
  VerifiedCountIsTrue
CHECK_DEADLOCK FALSE
