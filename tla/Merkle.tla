------------------------------- MODULE Merkle -------------------------------
(***************************************************************************)
(* The Merkle tree of specora_verify/transparency.py: the root over an     *)
(* epoch's leaf hashes, the audit path of one leaf, and the verifier that  *)
(* replays a path.                                                         *)
(*                                                                         *)
(* SHA-256 is modelled as an injective constructor.  A leaf hash, an       *)
(* internal hash and the hash of the empty string are tuples of different  *)
(* lengths, so they never collide; in the code they are digests of byte    *)
(* strings of different shapes (JSON text, 64 raw bytes, nothing).         *)
(*                                                                         *)
(* Sequences count from 1 here; leaf_index and seq count from 0 as in the  *)
(* code.                                                                   *)
(***************************************************************************)
EXTENDS Integers, Sequences

LeafHash(body) == <<body>>
EmptyRoot == <<>>

\* Mutant: hashes its left argument twice.
InternalHashOfLeft(l, r) == <<l, l>>

InternalHash(l, r) == <<l, r>>

\* Mutant: promotes the rightmost hash of an odd layer as it is.
NextLayerPromoting(layer) ==
  [i \in 1..((Len(layer) + 1) \div 2) |->
     IF 2*i <= Len(layer) THEN InternalHash(layer[2*i - 1], layer[2*i])
     ELSE layer[2*i - 1]]

\* One turn of the while loop: pair neighbours, duplicating the rightmost
\* hash of an odd layer.
NextLayer(layer) ==
  [i \in 1..((Len(layer) + 1) \div 2) |->
     InternalHash(layer[2*i - 1],
                  IF 2*i <= Len(layer) THEN layer[2*i] ELSE layer[2*i - 1])]

\* Layers(leaves)[d] is the list "layer" after d turns of the loop, which takes
\* fewer turns than there are leaves.
Layers(leaves) ==
  LET layer[d \in 0..Len(leaves)] == IF d = 0 THEN leaves ELSE NextLayer(layer[d - 1])
  IN  layer

\* How many turns the loop takes: until one hash is left.
Depth(leaves) ==
  CHOOSE d \in 0..Len(leaves) : /\ Len(Layers(leaves)[d]) = 1
                                /\ \A e \in 0..(d - 1) : Len(Layers(leaves)[e]) > 1

MerkleRoot(leaves) ==
  IF leaves = <<>> THEN EmptyRoot ELSE Layers(leaves)[Depth(leaves)][1]

\* PathIndex(leafIndex, n)[d] is "idx" after d turns, up to n.
PathIndex(leafIndex, n) ==
  LET idx[d \in 0..n] == IF d = 0 THEN leafIndex ELSE idx[d - 1] \div 2
  IN  idx

\* The audit path of the leaf at leafIndex, bottom up.
InclusionPath(leafIndex, leaves) ==
  [k \in 1..Depth(leaves) |->
     LET layer == Layers(leaves)[k - 1]
         idx   == PathIndex(leafIndex, Len(leaves))[k - 1]
     IN  IF idx % 2 = 1
         THEN [sibling |-> layer[idx], position |-> "left"]
         ELSE [sibling  |-> layer[IF idx + 2 <= Len(layer) THEN idx + 2 ELSE idx + 1],
               position |-> "right"]]

\* The hash a verifier arrives at by replaying a path from a leaf hash.
Replay(leafHash, path) ==
  LET h[k \in 0..Len(path)] ==
        IF k = 0 THEN leafHash
        ELSE IF path[k].position = "left"
             THEN InternalHash(path[k].sibling, h[k - 1])
             ELSE InternalHash(h[k - 1], path[k].sibling)
  IN  h[Len(path)]

VerifyInclusionProof(proof) ==
  Replay(proof.leaf_hash, proof.audit_path) = proof.merkle_root_hash

\* TransparencyLog.inclusion_proof: everything comes from the entries file;
\* root.json is not consulted.
InclusionProof(seq, leaves) ==
  [seq              |-> seq,
   leaf_hash        |-> leaves[seq + 1],
   merkle_root_hash |-> MerkleRoot(leaves),
   audit_path       |-> InclusionPath(seq, leaves)]
=============================================================================
