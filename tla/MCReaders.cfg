SPECIFICATION ReadSpec
CONSTANTS
  Ids = {i1, i2, i3}
  Collections = {c1, c2}
  Absent = Absent
  MaxRecords = 3
INVARIANTS
  BundleIsFirstGood
  NoWarningNothingMissing
  StatusIsTrue
SYMMETRY Symmetry
CHECK_DEADLOCK FALSE
