------------------------------ MODULE MCReaders -----------------------------
EXTENDS Readers, TLC

\* Ids and collections are only compared for equality.
Symmetry == Permutations(Ids) \cup Permutations(Collections)
=============================================================================
