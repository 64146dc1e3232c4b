-------------------------- MODULE BinaryMerkleTree --------------------------
(***************************************************************************)
(* The part of the binary-merkle-tree crate that pallet-papermgmt calls    *)
(* (lib.rs:6, 99, 101).  The crate is a dependency, not part of the        *)
(* repository: it is modelled from the two calls and is external.          *)
(*                                                                         *)
(* Hashes are symbolic: a hash is the term it was computed from, so two    *)
(* hashes are equal only when their inputs are.                            *)
(***************************************************************************)
EXTENDS Integers, Sequences

(* H::hash(content) of a leaf. *)
LeafHash(x) == <<"leaf", x>>

(* H::hash(a ++ b) of two sibling nodes. *)
NodeHash(a, b) == <<"node", a, b>>

(* H::Output::default(), the root of the tree with no leaf. *)
DefaultHash == <<"default">>

(* Mutant of Row: an odd last node, below the root, is paired with itself. *)
RowDoublesOdd(hs) ==
  IF Len(hs) = 1 THEN hs
  ELSE [i \in 1..((Len(hs) + 1) \div 2) |->
          NodeHash(hs[2*i - 1], hs[IF 2 * i <= Len(hs) THEN 2*i ELSE 2*i - 1])]

(* The row above the row hs: neighbours are hashed in pairs, and an odd    *)
(* last node is promoted as it is.                                         *)
Row(hs) ==
  [i \in 1..((Len(hs) + 1) \div 2) |->
     IF 2 * i <= Len(hs) THEN NodeHash(hs[2*i - 1], hs[2*i]) ELSE hs[2*i - 1]]

(* Where merkle_root and merkle_proof stand: at a row of the tree, at the  *)
(* node of it that the leaf to be proved is under, with its proof so far.  *)
Leaves(leaves, index) ==
  [row      |-> [i \in 1..Len(leaves) |-> LeafHash(leaves[i])],
   position |-> index,
   proof    |-> << >>]

(* The node's sibling, if it has one: an odd last node has none.           *)
Sibling(level) ==
  LET s == IF level.position % 2 = 0 THEN level.position + 1 ELSE level.position - 1
  IN  IF s < Len(level.row) THEN << level.row[s + 1] >> ELSE << >>

(* One row up.                                                             *)
Above(level) ==
  [row      |-> Row(level.row),
   position |-> level.position \div 2,
   proof    |-> level.proof \o Sibling(level)]

(* At the root: a tree has not more rows than leaves, and one node stays   *)
(* as it is in the rows above.                                             *)
Root(leaves, index) ==
  LET level[k \in 0..Len(leaves)] ==
        IF k = 0 THEN Leaves(leaves, index) ELSE Above(level[k - 1])
  IN  level[Len(leaves)]

(* merkle_root::<H, _>(leaves). *)
MerkleRoot(leaves) == IF leaves = << >> THEN DefaultHash ELSE Root(leaves, 0).row[1]

(* merkle_proof::<H, _, _>(leaves, index).proof: the siblings on the way   *)
(* from leaf index (counted from 0) to the root, lowest first.  The pallet *)
(* never calls it; whoever calls verify_proof does.                        *)
MerkleProof(leaves, index) == Root(leaves, index).proof

(* Mutant of Climb: the last node of an odd row is taken for a left one.   *)
ClimbForgetsWidth(a, b) ==
  [hash     |-> IF a.position % 2 = 1 THEN NodeHash(b, a.hash) ELSE NodeHash(a.hash, b),
   position |-> a.position \div 2,
   width    |-> ((a.width - 1) \div 2) + 1]

(* One step of verify_proof's fold: the node a hashed with its sibling b,  *)
(* on the side the position and the width of the row tell.                 *)
Climb(a, b) ==
  [hash     |-> IF a.position % 2 = 1 \/ a.position + 1 = a.width
                THEN NodeHash(b, a.hash) ELSE NodeHash(a.hash, b),
   position |-> a.position \div 2,
   width    |-> ((a.width - 1) \div 2) + 1]

(* The node that a proof leads to, from the one that it is for.            *)
Climbed(a, proof) ==
  LET node[k \in 0..Len(proof)] == IF k = 0 THEN a ELSE Climb(node[k - 1], proof[k])
  IN  node[Len(proof)]

(* Mutant of VerifyProof: the computed root is not compared.               *)
VerifyProofInRange(root, proof, number, index, hash) == index < number

(* verify_proof::<H, _, _>(root, proof, number_of_leaves, leaf_index, leaf)*)
(* with leaf = Leaf::Hash(hash), which the crate does not hash again.      *)
VerifyProof(root, proof, number, index, hash) ==
  /\ index < number
  /\ Climbed([hash |-> hash, position |-> index, width |-> number], proof).hash = root

=============================================================================
