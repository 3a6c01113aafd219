SPECIFICATION Spec
CONSTANTS
  Orgs = {o1, o2, o3}
  Keys = {k1, k2, k3}
  Hashes = {h1, h2}
  Absent = Absent
  Enrolled = 2
  MaxStatements = 3
  MaxChanges = 1
  MaxFaults = 1
  MaxQuorum = 2
INVARIANTS
  TypeOK
  QuorumAttested
  ContradictionFails
  AgreementPasses
SYMMETRY Symmetry
CHECK_DEADLOCK FALSE
