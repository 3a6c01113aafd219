------------------------------ MODULE MCMerkle ------------------------------
(***************************************************************************)
(* The Merkle operators over every list of at most MaxLeaves leaf hashes:  *)
(* one state per list, grown a leaf at a time as the log grows.            *)
(***************************************************************************)
EXTENDS Merkle

CONSTANTS Bodies, MaxLeaves

VARIABLE leaves

TreeInit == leaves = <<>>

Grow(b) == Len(leaves) < MaxLeaves /\ leaves' = Append(leaves, LeafHash(b))

TreeNext == \E b \in Bodies : Grow(b)

TreeSpec == TreeInit /\ [][TreeNext]_leaves

Indices == 0..(Len(leaves) - 1)

\* The root builder, the path builder and the path verifier are three loops
\* that have to agree on how an odd layer is paired: the proof of every leaf
\* verifies, whatever the number of leaves.
ProofsVerify ==
  \A seq \in Indices : VerifyInclusionProof(InclusionProof(seq, leaves))

\* The path of one leaf verifies no other leaf hash, and when it is moved to
\* another position it verifies only an equal leaf.
ProofsBindLeaf ==
  \A seq \in Indices : \A b \in Bodies :
    LET proof == InclusionProof(seq, leaves)
    IN  VerifyInclusionProof([proof EXCEPT !.leaf_hash = LeafHash(b)])
          => leaves[seq + 1] = LeafHash(b)
=============================================================================
