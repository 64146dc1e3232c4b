----------------------------- MODULE TreeGrowth -----------------------------
(***************************************************************************)
(* Every tree of leaves over Leaf, grown one leaf at a time: the inputs    *)
(* that the algorithms of BinaryMerkleTree are checked over, against a     *)
(* reference that does not go by rows.                                     *)
(***************************************************************************)
EXTENDS BinaryMerkleTree

CONSTANTS Leaf,      \* the leaf contents
          MaxTree    \* bound on the size of the tree

VARIABLE tree        \* the leaves, in the order they were added

Planted == tree = << >>

Grow(x) == /\ Len(tree) < MaxTree
           /\ tree' = Append(tree, x)

Grows == \E x \in Leaf : Grow(x)

Growth == Planted /\ [][Grows]_tree

-----------------------------------------------------------------------------
(* The reference definition: the balanced tree of RFC 6962, which splits n *)
(* leaves at the largest power of two below n.                             *)
Power[k \in Nat] == IF k = 0 THEN 1 ELSE 2 * Power[k - 1]

SplitPoint(n) == CHOOSE p \in {Power[k] : k \in 0..n} : p < n /\ n <= 2 * p

(* split[n][from] is the tree of the n leaves from the one at from on.     *)
SplitRoot(s) ==
  LET split[n \in 1..Len(s)] ==
        [from \in 1..(Len(s) - n + 1) |->
           IF n = 1 THEN LeafHash(s[from])
           ELSE NodeHash(split[SplitPoint(n)][from],
                         split[n - SplitPoint(n)][from + SplitPoint(n)])]
  IN  split[Len(s)][1]

(* Hashing row by row and promoting the odd node, as the root that         *)
(* verify_proof compares with is computed (lib.rs:99), gives the tree that *)
(* is split at powers of two.                                              *)
RowsMatchSplit == tree # << >> => MerkleRoot(tree) = SplitRoot(tree)

(* A proof made when the tree had fewer leaves is refused once a leaf has  *)
(* been added, whatever leaf and index it is presented with: a client must *)
(* make its proof against the leaves that are in storage when the call is  *)
(* dispatched.                                                             *)
StaleProofsRefused ==
  LET root == MerkleRoot(tree)
  IN  \A m \in 1..(Len(tree) - 1) : \A i \in 0..(m - 1) :
        LET stale == MerkleProof(SubSeq(tree, 1, m), i)
        IN  \A j \in 0..(Len(tree) - 1), x \in Leaf :
              ~ VerifyProof(root, stale, Len(tree), j, LeafHash(x))

=============================================================================
