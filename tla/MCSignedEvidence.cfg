SPECIFICATION Spec
CONSTANTS
  Runs = {r1, r2}
  Docs = {d1, d2}
  Keys = {k1, k2}
  MaxList = 2
  NoRun = NoRun
  Missing = Missing
  Emptied = Emptied
INVARIANTS
  VerifiedIsSigned
  FinishedRunVerifies
  ListDecides
SYMMETRY Symmetry
CHECK_DEADLOCK FALSE
