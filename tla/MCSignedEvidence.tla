-------------------------- MODULE MCSignedEvidence --------------------------
EXTENDS SignedEvidence, TLC

\* Runs, documents and keys are only compared for equality.
Symmetry == Permutations(Runs) \cup Permutations(Docs) \cup Permutations(Keys)
=============================================================================
