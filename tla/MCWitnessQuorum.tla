--------------------------- MODULE MCWitnessQuorum ---------------------------
EXTENDS WitnessQuorum, TLC

\* Names, keys and hashes are only compared for equality.
Symmetry == Permutations(Orgs) \cup Permutations(Keys) \cup Permutations(Hashes)
=============================================================================
