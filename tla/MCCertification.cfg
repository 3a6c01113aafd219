SPECIFICATION Spec
CONSTANTS
  MaxChanges = 2
INVARIANTS
  VerdictWasTrue
  AttestedIsEvidence
  UneditedNeverCertified
CHECK_DEADLOCK FALSE
