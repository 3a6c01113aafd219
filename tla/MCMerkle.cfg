SPECIFICATION TreeSpec
CONSTANTS
  Bodies = {a, b}
  MaxLeaves = 9
INVARIANTS
  ProofsVerify
  ProofsBindLeaf
CHECK_DEADLOCK FALSE
