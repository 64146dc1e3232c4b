--------------------------- MODULE PaperMgmtProofs ---------------------------
(***************************************************************************)
(* Proofs about PaperMgmt for every value of its constants: any limits,    *)
(* any submissions, any list length.                                       *)
(*                                                                         *)
(* Every call either leaves the storage and the events as they are or is   *)
(* one of three changes (StepEffects); each invariant is then proved to    *)
(* survive the three changes.                                              *)
(*                                                                         *)
(* The Merkle trees come first: their rows and the paths of their proofs   *)
(* are recursive functions, so their laws need induction, for which a set  *)
(* of numbers takes the place of the hypothesis. The trees of TreeGrowth   *)
(* are any leaves at all: what is proved of them holds of those the pallet *)
(* stores.                                                                 *)
(***************************************************************************)
EXTENDS PaperMgmt, TreeGrowth, SequenceTheorems, WellFoundedInduction, TLAPS

(* A set with 0, and with n + 1 for each n in it, has all numbers.         *)
LEMMA NatSetInduction ==
  ASSUME NEW T, 0 \in T, \A n \in Nat : n \in T => n + 1 \in T
  PROVE  \A n \in Nat : n \in T
<1> DEFINE Below   == {ss \in Nat \X Nat : ss[1] < ss[2]}
           Missing == {n \in Nat : n \notin T}
<1>1. SUFFICES ASSUME Missing # {} PROVE FALSE
  OBVIOUS
<1>2. IsWellFoundedOn(Below, Nat)
  BY NatLessThanWellFounded DEF OpToRel
<1>3. PICK x \in Missing : \A y \in Missing : ~ (<< y, x >> \in Below)
  <2>1. Missing \subseteq Nat
    OBVIOUS
  <2> HIDE DEF Below, Missing
  <2> QED
    BY <1>1, <1>2, <2>1, WFMin, Zenon
<1>4. \A y \in Missing : ~ (y < x)
  BY <1>3
<1>5. x \in Nat /\ x # 0 /\ x - 1 \in Nat
  OBVIOUS
<1>6. x - 1 \in T
  <2>1. x - 1 \notin Missing
    BY <1>4, <1>5
  <2> QED
    BY <1>5, <2>1
<1> QED
  BY <1>5, <1>6

(* The length and the nodes of a row that is computed from another.        *)
LEMMA RowNodes ==
  ASSUME NEW hs, NEW m \in Nat, Len(hs) = m
  PROVE  /\ Len(Row(hs)) = (m + 1) \div 2
         /\ \A i \in 1..((m + 1) \div 2) :
              Row(hs)[i] = IF 2 * i <= m THEN NodeHash(hs[2*i - 1], hs[2*i]) ELSE hs[2*i - 1]
<1>1. (m + 1) \div 2 \in Nat
  OBVIOUS
<1> QED
  BY <1>1 DEF Row

-----------------------------------------------------------------------------
(* level[k] is where merkle_proof stands after k rows, up to row n.        *)
Levels(level, ls, index, n) ==
  level = [k \in 0..n |-> IF k = 0 THEN Leaves(ls, index) ELSE Above(level[k - 1])]

LEMMA LevelsExist ==
  ASSUME NEW ls, NEW index
  PROVE  \A n \in Nat : \E f : Levels(f, ls, index, n)
<1> DEFINE T == {n \in Nat : \E f : Levels(f, ls, index, n)}
<1>1. 0 \in T
  <2> DEFINE f == [k \in 0..0 |-> Leaves(ls, index)]
  <2>1. Levels(f, ls, index, 0)
    BY DEF Levels
  <2> HIDE DEF f
  <2> QED
    BY <2>1
<1>2. ASSUME NEW n \in Nat, n \in T  PROVE n + 1 \in T
  <2>1. PICK f : Levels(f, ls, index, n)
    BY <1>2
  <2> DEFINE g == [k \in 0..(n + 1) |-> IF k <= n THEN f[k] ELSE Above(f[n])]
  <2>2. ASSUME NEW k \in 0..(n + 1)
        PROVE  g[k] = IF k = 0 THEN Leaves(ls, index) ELSE Above(g[k - 1])
    <3>1. CASE k <= n
      BY <2>1, <3>1 DEF Levels
    <3>2. CASE k = n + 1
      BY <3>2
    <3> QED
      BY <3>1, <3>2
  <2>3. Levels(g, ls, index, n + 1)
    <3>1. g = [k \in 0..(n + 1) |-> g[k]]
      OBVIOUS
    <3> HIDE DEF g
    <3> QED
      BY <2>2, <3>1 DEF Levels
  <2> HIDE DEF g
  <2> QED
    BY <2>3
<1> HIDE DEF T
<1>3. \A n \in Nat : n \in T
  BY <1>1, <1>2, NatSetInduction
<1> QED
  BY <1>3 DEF T

(* The root is the last of the levels.                                     *)
LEMMA RootLevel ==
  ASSUME NEW ls, NEW index, Len(ls) \in Nat
  PROVE  \E f : Levels(f, ls, index, Len(ls)) /\ Root(ls, index) = f[Len(ls)]
<1> DEFINE f == CHOOSE f : Levels(f, ls, index, Len(ls))
<1>1. \E g : Levels(g, ls, index, Len(ls))
  BY LevelsExist
<1>2. Levels(f, ls, index, Len(ls))
  BY <1>1
<1>3. Root(ls, index) = f[Len(ls)]
  BY DEF Root, Levels
<1> HIDE DEF f
<1> QED
  BY <1>2, <1>3

(* node[k] is the node that the first k hashes of a proof lead to.         *)
Path(node, a, proof, n) ==
  node = [k \in 0..n |-> IF k = 0 THEN a ELSE Climb(node[k - 1], proof[k])]

LEMMA PathsExist ==
  ASSUME NEW a, NEW proof
  PROVE  \A n \in Nat : \E f : Path(f, a, proof, n)
<1> DEFINE T == {n \in Nat : \E f : Path(f, a, proof, n)}
<1>1. 0 \in T
  <2> DEFINE f == [k \in 0..0 |-> a]
  <2>1. Path(f, a, proof, 0)
    BY DEF Path
  <2> HIDE DEF f
  <2> QED
    BY <2>1
<1>2. ASSUME NEW n \in Nat, n \in T  PROVE n + 1 \in T
  <2>1. PICK f : Path(f, a, proof, n)
    BY <1>2
  <2> DEFINE g == [k \in 0..(n + 1) |-> IF k <= n THEN f[k] ELSE Climb(f[n], proof[n + 1])]
  <2>2. ASSUME NEW k \in 0..(n + 1)
        PROVE  g[k] = IF k = 0 THEN a ELSE Climb(g[k - 1], proof[k])
    <3>1. CASE k <= n
      BY <2>1, <3>1 DEF Path
    <3>2. CASE k = n + 1
      BY <3>2
    <3> QED
      BY <3>1, <3>2
  <2>3. Path(g, a, proof, n + 1)
    <3>1. g = [k \in 0..(n + 1) |-> g[k]]
      OBVIOUS
    <3> HIDE DEF g
    <3> QED
      BY <2>2, <3>1 DEF Path
  <2> HIDE DEF g
  <2> QED
    BY <2>3
<1> HIDE DEF T
<1>3. \A n \in Nat : n \in T
  BY <1>1, <1>2, NatSetInduction
<1> QED
  BY <1>3 DEF T

(* What verify_proof computes is the end of the path.                      *)
LEMMA ClimbedPath ==
  ASSUME NEW a, NEW proof, Len(proof) \in Nat
  PROVE  \E f : Path(f, a, proof, Len(proof)) /\ Climbed(a, proof) = f[Len(proof)]
<1> DEFINE f == CHOOSE f : Path(f, a, proof, Len(proof))
<1>1. \E g : Path(g, a, proof, Len(proof))
  BY PathsExist
<1>2. Path(f, a, proof, Len(proof))
  BY <1>1
<1>3. Climbed(a, proof) = f[Len(proof)]
  BY DEF Climbed, Path
<1> HIDE DEF f
<1> QED
  BY <1>2, <1>3

(* The empty proof leads nowhere, and the last hash of a proof is used     *)
(* last.                                                                   *)
LEMMA ClimbNone == ASSUME NEW a PROVE Climbed(a, << >>) = a
<1>1. Len(<< >>) = 0
  OBVIOUS
<1>2. PICK f : Path(f, a, << >>, 0) /\ Climbed(a, << >>) = f[0]
  BY <1>1, ClimbedPath
<1>3. f[0] = a
  BY <1>2 DEF Path
<1> QED
  BY <1>2, <1>3

LEMMA ClimbLast ==
  ASSUME NEW a, NEW S, NEW proof \in Seq(S), NEW b \in S
  PROVE  Climbed(a, proof \o << b >>) = Climb(Climbed(a, proof), b)
<1> DEFINE all == proof \o << b >>
           n   == Len(proof)
<1>1. /\ n \in Nat /\ Len(all) = n + 1
      /\ all[n + 1] = b /\ \A i \in 1..n : proof[i] = all[i]
  BY LenProperties
<1>2. PICK f : Path(f, a, proof, n) /\ Climbed(a, proof) = f[n]
  BY <1>1, ClimbedPath
<1> HIDE DEF all, n
<1>3. PICK g : Path(g, a, all, n + 1) /\ Climbed(a, all) = g[n + 1]
  <2>1. Len(all) = n + 1 /\ Len(all) \in Nat
    BY <1>1
  <2>2. \E g : Path(g, a, all, Len(all)) /\ Climbed(a, all) = g[Len(all)]
    BY <2>1, ClimbedPath
  <2> QED
    BY <2>1, <2>2
<1>4. f[n] = g[n]
  <2> DEFINE T == {k \in Nat : k <= n => f[k] = g[k]}
  <2>1. 0 \in T
    BY <1>1, <1>2, <1>3 DEF Path
  <2>2. ASSUME NEW k \in Nat, k \in T  PROVE k + 1 \in T
    <3>1. SUFFICES ASSUME k + 1 <= n  PROVE f[k + 1] = g[k + 1]
      OBVIOUS
    <3>2. f[k] = g[k] /\ proof[k + 1] = all[k + 1]
      BY <1>1, <2>2, <3>1
    <3>3. f[k + 1] = Climb(f[k], proof[k + 1])
      BY <1>1, <1>2, <3>1 DEF Path
    <3>4. g[k + 1] = Climb(g[k], all[k + 1])
      BY <1>1, <1>3, <3>1 DEF Path
    <3> QED
      BY <3>2, <3>3, <3>4
  <2> HIDE DEF T
  <2>3. \A k \in Nat : k \in T
    BY <2>1, <2>2, NatSetInduction
  <2> QED
    BY <1>1, <2>3 DEF T
<1>5. g[n + 1] = Climb(g[n], all[n + 1])
  BY <1>1, <1>3 DEF Path
<1>6. Climbed(a, all) = Climb(Climbed(a, proof), b)
  BY <1>1, <1>2, <1>3, <1>4, <1>5
<1> QED
  BY <1>6 DEF all

-----------------------------------------------------------------------------
LEMMA LevelSteps ==
  ASSUME NEW ls, NEW index, NEW n \in Nat, NEW f, Levels(f, ls, index, n)
  PROVE  f[0] = Leaves(ls, index) /\ \A k \in Nat : k + 1 <= n => f[k + 1] = Above(f[k])
BY DEF Levels

(* A row has a node for the leaf to be under, and fewer nodes than the row *)
(* below until one is left.                                                *)
Shaped(level, k, n) ==
  /\ Len(level.row) \in Nat
  /\ Len(level.row) = 1 \/ Len(level.row) + k <= n
  /\ level.position \in Nat /\ level.position < Len(level.row)

LEMMA LevelsShaped ==
  ASSUME NEW ls, NEW n \in Nat, Len(ls) = n, NEW index \in 0..(n - 1),
         NEW f, Levels(f, ls, index, n)
  PROVE  \A k \in 0..n : Shaped(f[k], k, n)
<1>0. \A k \in Nat : k + 1 <= n => f[k + 1] = Above(f[k])
  BY DEF Levels
<1> DEFINE T == {k \in Nat : k <= n => Shaped(f[k], k, n)}
<1>1. 0 \in T
  <2>1. f[0] = Leaves(ls, index)
    BY LevelSteps
  <2>2. Len([i \in 1..Len(ls) |-> LeafHash(ls[i])]) = n
    OBVIOUS
  <2>3. Shaped(Leaves(ls, index), 0, n)
    BY <2>2 DEF Shaped, Leaves
  <2> QED
    BY <2>1, <2>3
<1>2. ASSUME NEW k \in Nat, k \in T  PROVE k + 1 \in T
  <2>1. SUFFICES ASSUME k + 1 <= n  PROVE Shaped(f[k + 1], k + 1, n)
    OBVIOUS
  <2>2. Shaped(f[k], k, n)
    BY <1>2, <2>1
  <2>3. f[k + 1] = Above(f[k])
    BY <1>0, <2>1
  <2> DEFINE m == Len(f[k].row)
             p == f[k].position
  <2>4. m \in Nat /\ (m = 1 \/ m + k <= n) /\ p \in Nat /\ p < m
    BY <2>2 DEF Shaped
  <2>5. Len(Row(f[k].row)) = (m + 1) \div 2
    BY <2>4, RowNodes
  <2>6. f[k + 1].row = Row(f[k].row) /\ f[k + 1].position = p \div 2
    BY <2>3 DEF Above
  <2> HIDE DEF m, p
  <2>7. /\ (m + 1) \div 2 \in Nat
        /\ (m + 1) \div 2 = 1 \/ (m + 1) \div 2 + (k + 1) <= n
        /\ p \div 2 \in Nat /\ p \div 2 < (m + 1) \div 2
    BY <2>1, <2>4
  <2> DEFINE up == f[k + 1]
  <2>8. Len(up.row) = (m + 1) \div 2 /\ up.position = p \div 2
    BY <2>5, <2>6
  <2> HIDE DEF up
  <2>9. Shaped(up, k + 1, n)
    BY <2>7, <2>8 DEF Shaped
  <2> QED
    BY <2>9 DEF up
<1> HIDE DEF T
<1>3. \A k \in Nat : k \in T
  BY <1>1, <1>2, NatSetInduction
<1> QED
  BY <1>3 DEF T

(* The rows are those of the tree, whichever leaf a proof is made for.     *)
LEMMA RowsOfTree ==
  ASSUME NEW ls, NEW n \in Nat, NEW i, NEW j, NEW f, Levels(f, ls, i, n),
         NEW g, Levels(g, ls, j, n)
  PROVE  \A k \in 0..n : f[k].row = g[k].row
<1> DEFINE T == {k \in Nat : k <= n => f[k].row = g[k].row}
<1>1. 0 \in T
  <2>1. f[0] = Leaves(ls, i) /\ g[0] = Leaves(ls, j)
    BY LevelSteps
  <2> QED
    BY <2>1 DEF Leaves
<1>2. ASSUME NEW k \in Nat, k \in T  PROVE k + 1 \in T
  <2>1. SUFFICES ASSUME k + 1 <= n  PROVE f[k + 1].row = g[k + 1].row
    OBVIOUS
  <2>2. f[k].row = g[k].row
    BY <1>2, <2>1
  <2>3. f[k + 1] = Above(f[k]) /\ g[k + 1] = Above(g[k])
    BY <2>1, LevelSteps
  <2> QED
    BY <2>2, <2>3 DEF Above
<1> HIDE DEF T
<1>3. \A k \in Nat : k \in T
  BY <1>1, <1>2, NatSetInduction
<1> QED
  BY <1>3 DEF T

(* The root: the one node of the last row.                                 *)
LEMMA RootNode ==
  ASSUME NEW ls, NEW n \in Nat, Len(ls) = n, NEW index \in 0..(n - 1),
         NEW f, Levels(f, ls, index, n)
  PROVE  /\ Len(f[n].row) = 1 /\ f[n].position = 0
         /\ MerkleRoot(ls) = f[n].row[1]
<1>1. Shaped(f[n], n, n) /\ n >= 1
  BY LevelsShaped
<1>2. Len(f[n].row) = 1 /\ f[n].position = 0
  <2> DEFINE m == Len(f[n].row)
             p == f[n].position
  <2>1. m \in Nat /\ (m = 1 \/ m + n <= n) /\ p \in Nat /\ p < m
    BY <1>1 DEF Shaped
  <2> HIDE DEF m, p
  <2>2. m = 1 /\ p = 0
    BY <2>1
  <2> QED
    BY <2>2 DEF m, p
<1>3. PICK g : Levels(g, ls, 0, n) /\ Root(ls, 0) = g[n]
  BY RootLevel
<1>4. f[n].row = g[n].row
  BY <1>3, RowsOfTree
<1>5. ls # << >>
  BY <1>1
<1> QED
  BY <1>2, <1>3, <1>4, <1>5 DEF MerkleRoot

-----------------------------------------------------------------------------
(* Every node of the tree, from the leaves to the root.                    *)
Nodes(level, n) ==
  UNION {{level[k].row[i] : i \in 1..Len(level[k].row)} : k \in 0..n}

(* What a hash in the tree was computed from is in the tree as well.       *)
LEMMA NodesClosed ==
  ASSUME NEW ls, NEW n \in Nat, Len(ls) = n, NEW index \in 0..(n - 1),
         NEW f, Levels(f, ls, index, n)
  PROVE  /\ \A a, b : NodeHash(a, b) \in Nodes(f, n) => a \in Nodes(f, n) /\ b \in Nodes(f, n)
         /\ \A x : LeafHash(x) \in Nodes(f, n) => \E j \in 1..n : ls[j] = x
<1>0. \A k \in Nat : k + 1 <= n => f[k + 1] = Above(f[k])
  BY DEF Levels
<1> DEFINE C == Nodes(f, n)
           Founded(h) == /\ \A a, b : h = NodeHash(a, b) => a \in C /\ b \in C
                         /\ \A x : h = LeafHash(x) => \E j \in 1..n : ls[j] = x
           T == {k \in Nat : k <= n => \A i \in 1..Len(f[k].row) : Founded(f[k].row[i])}
<1>1. \A k \in 0..n : Len(f[k].row) \in Nat
  BY LevelsShaped DEF Shaped
<1>2. \A k \in 0..n : \A i \in 1..Len(f[k].row) : f[k].row[i] \in C
  BY DEF Nodes
<1>3. \A h \in C : \E k \in 0..n : \E i \in 1..Len(f[k].row) : h = f[k].row[i]
  BY DEF Nodes
<1> HIDE DEF C
<1>4. 0 \in T
  <2>1. f[0].row = [i \in 1..n |-> LeafHash(ls[i])]
    <3>1. f[0] = Leaves(ls, index)
      BY LevelSteps
    <3> QED
      BY <3>1 DEF Leaves
  <2>2. Len(f[0].row) = n
    BY <2>1
  <2>3. \A i \in 1..n : Founded(LeafHash(ls[i]))
    BY DEF LeafHash, NodeHash
  <2> HIDE DEF Founded
  <2> QED
    BY <2>1, <2>2, <2>3
<1>5. ASSUME NEW k \in Nat, k \in T  PROVE k + 1 \in T
  <2>1. SUFFICES ASSUME k + 1 <= n, NEW i \in 1..Len(f[k + 1].row)
                 PROVE  Founded(f[k + 1].row[i])
    OBVIOUS
  <2> DEFINE hs == f[k].row
             m  == Len(hs)
  <2>2. m \in Nat /\ k \in 0..n
    BY <1>1, <2>1
  <2>3. f[k + 1].row = Row(hs)
    <3>1. f[k + 1] = Above(f[k])
      BY <1>0, <2>1
    <3> QED
      BY <3>1 DEF Above
  <2>4. \A j \in 1..m : hs[j] \in C
    BY <1>2, <2>2
  <2>5. \A j \in 1..m : Founded(hs[j])
    BY <1>5, <2>1
  <2> HIDE DEF hs, Founded
  <2>6. /\ i \in 1..((m + 1) \div 2)
        /\ Row(hs)[i] = IF 2 * i <= m THEN NodeHash(hs[2*i - 1], hs[2*i]) ELSE hs[2*i - 1]
    BY <2>1, <2>2, <2>3, RowNodes
  <2> HIDE DEF m
  <2>7. CASE 2 * i <= m
    <3>1. 2*i - 1 \in 1..m /\ 2*i \in 1..m
      BY <2>2, <2>6, <2>7
    <3>2. hs[2*i - 1] \in C /\ hs[2*i] \in C
      BY <2>4, <3>1
    <3>3. Founded(NodeHash(hs[2*i - 1], hs[2*i]))
      BY <3>2 DEF Founded, LeafHash, NodeHash
    <3> QED
      BY <2>3, <2>6, <2>7, <3>3
  <2>8. CASE ~ (2 * i <= m)
    <3>1. 2*i - 1 \in 1..m
      BY <2>2, <2>6, <2>8
    <3> QED
      BY <2>3, <2>5, <2>6, <2>8, <3>1
  <2> QED
    BY <2>7, <2>8
<1> HIDE DEF Founded, T
<1>6. \A k \in Nat : k \in T
  BY <1>4, <1>5, NatSetInduction
<1>7. \A h \in C : Founded(h)
  BY <1>3, <1>6 DEF T
<1> QED
  BY <1>7 DEF Founded, C

(* Whatever hashes a proof consists of, it leads into such a set only from *)
(* inside.                                                                 *)
LEMMA ClimbedInside ==
  ASSUME NEW C, \A a, b : NodeHash(a, b) \in C => a \in C /\ b \in C,
         NEW start, NEW proof, Len(proof) \in Nat, Climbed(start, proof).hash \in C
  PROVE  start.hash \in C
<1> DEFINE n == Len(proof)
<1>1. PICK f : Path(f, start, proof, n) /\ Climbed(start, proof) = f[n]
  BY ClimbedPath
<1> DEFINE T == {k \in Nat : k <= n => (f[k].hash \in C => start.hash \in C)}
<1>2. 0 \in T
  BY <1>1 DEF Path
<1>3. ASSUME NEW k \in Nat, k \in T  PROVE k + 1 \in T
  <2>1. SUFFICES ASSUME k + 1 <= n, f[k + 1].hash \in C  PROVE start.hash \in C
    OBVIOUS
  <2>2. f[k + 1] = Climb(f[k], proof[k + 1])
    BY <1>1, <2>1 DEF Path
  <2>3. \/ f[k + 1].hash = NodeHash(proof[k + 1], f[k].hash)
        \/ f[k + 1].hash = NodeHash(f[k].hash, proof[k + 1])
    BY <2>2 DEF Climb
  <2>4. f[k].hash \in C
    BY <2>1, <2>3
  <2> QED
    BY <1>3, <2>1, <2>4
<1> HIDE DEF T
<1>4. \A k \in Nat : k \in T
  BY <1>2, <1>3, NatSetInduction
<1>5. n \in T /\ f[n].hash \in C
  BY <1>1, <1>4
<1> QED
  BY <1>5 DEF T

(* Soundness of the tree: no proof, of whatever hashes, gets a leaf hash   *)
(* accepted that is not the hash of a leaf.                                *)
LEMMA AcceptedLeaf ==
  ASSUME NEW ls, NEW n \in Nat, Len(ls) = n, NEW proof, Len(proof) \in Nat,
         NEW index \in Nat, NEW x, VerifyProof(MerkleRoot(ls), proof, n, index, LeafHash(x))
  PROVE  \E j \in 1..n : ls[j] = x
<1>1. index \in 0..(n - 1) /\ n \in 0..n
  BY DEF VerifyProof
<1>2. PICK f : Levels(f, ls, index, n)
  BY LevelsExist
<1> DEFINE C == Nodes(f, n)
<1>3. /\ \A a, b : NodeHash(a, b) \in C => a \in C /\ b \in C
      /\ LeafHash(x) \in C => \E j \in 1..n : ls[j] = x
  BY <1>1, <1>2, NodesClosed
<1>4. MerkleRoot(ls) \in C
  <2>1. Len(f[n].row) = 1 /\ MerkleRoot(ls) = f[n].row[1]
    BY <1>1, <1>2, RootNode
  <2> QED
    BY <1>1, <2>1 DEF Nodes
<1> HIDE DEF C
<1> DEFINE start == [hash |-> LeafHash(x), position |-> index, width |-> n]
<1>5. Climbed(start, proof).hash \in C /\ start.hash = LeafHash(x)
  BY <1>4 DEF VerifyProof
<1> HIDE DEF start
<1>6. start.hash \in C
  BY <1>3, <1>5, ClimbedInside
<1> QED
  BY <1>3, <1>5, <1>6

-----------------------------------------------------------------------------
(* A verifier that has climbed to c stands at the node of the level: in    *)
(* the same place of an equally wide row, or, where nodes were promoted    *)
(* without it noticing, at the end of a wider one.                         *)
StandsAt(c, level) ==
  /\ c.position \in Nat /\ c.width \in Nat
  /\ c.hash = level.row[level.position + 1]
  /\ \/ c.position = level.position /\ c.width = Len(level.row)
     \/ c.position + 1 = c.width /\ level.position + 1 = Len(level.row)

(* The node's hash one row up, by whether it has a sibling and on which    *)
(* side.                                                                   *)
LEMMA OneRowUp ==
  ASSUME NEW level, NEW m \in Nat, Len(level.row) = m,
         NEW p \in Nat, level.position = p, p < m, NEW c, StandsAt(c, level)
  PROVE  \/ Sibling(level) = << >> /\ StandsAt(c, Above(level))
         \/ \E b \in {level.row[i] : i \in 1..m} :
              Sibling(level) = << b >> /\ StandsAt(Climb(c, b), Above(level))
<1> DEFINE hs == level.row
           up == Above(level)
           cp == c.position
           cw == c.width
<1>1. /\ Len(Row(hs)) = (m + 1) \div 2
      /\ \A i \in 1..((m + 1) \div 2) :
           Row(hs)[i] = IF 2 * i <= m THEN NodeHash(hs[2*i - 1], hs[2*i]) ELSE hs[2*i - 1]
  BY RowNodes
<1>2. up.row = Row(hs) /\ up.position = p \div 2
  BY DEF Above
<1>3. p \div 2 \in Nat /\ p \div 2 + 1 \in 1..((m + 1) \div 2)
  OBVIOUS
<1>4. /\ cp \in Nat /\ cw \in Nat /\ c.hash = hs[p + 1]
      /\ (cp = p /\ cw = m) \/ (cp + 1 = cw /\ p + 1 = m)
  BY DEF StandsAt
<1>5. \A b : /\ Climb(c, b).position = cp \div 2 /\ Climb(c, b).width = ((cw - 1) \div 2) + 1
             /\ Climb(c, b).hash = IF cp % 2 = 1 \/ cp + 1 = cw
                                   THEN NodeHash(b, c.hash) ELSE NodeHash(c.hash, b)
  BY DEF Climb
<1> DEFINE q == p \div 2 + 1
<1>6. Row(hs)[q] = IF 2 * q <= m THEN NodeHash(hs[2*q - 1], hs[2*q]) ELSE hs[2*q - 1]
  BY <1>1, <1>3
<1>7. CASE p % 2 = 0 /\ p + 1 < m
  <2>1. Sibling(level) = << hs[p + 2] >>
    <3>1. p + 1 + 1 = p + 2
      OBVIOUS
    <3> QED
      BY <1>7, <3>1 DEF Sibling
  <2>2. 2 * q = p + 2 /\ 2 * q - 1 = p + 1 /\ 2 * q <= m /\ p + 2 \in 1..m
    BY <1>7
  <2>3. up.row[q] = NodeHash(c.hash, hs[p + 2])
    BY <1>2, <1>4, <1>6, <2>2
  <2>4. cp = p /\ cw = m /\ ~ (cp % 2 = 1) /\ cp + 1 # cw
    BY <1>4, <1>7
  <2>5. StandsAt(Climb(c, hs[p + 2]), up)
    <3> DEFINE d == Climb(c, hs[p + 2])
    <3>1. d.hash = NodeHash(c.hash, hs[p + 2])
      BY <1>5, <2>4
    <3>2. d.position = p \div 2 /\ d.width = ((m - 1) \div 2) + 1
      BY <1>5, <2>4
    <3>3. ((m - 1) \div 2) + 1 = (m + 1) \div 2 /\ (m + 1) \div 2 \in Nat
      OBVIOUS
    <3> HIDE DEF d, up, hs
    <3>4. d.position \in Nat /\ d.width \in Nat /\ d.hash = up.row[up.position + 1]
          /\ d.position = up.position /\ d.width = Len(up.row)
      BY <1>1, <1>2, <1>3, <2>3, <3>1, <3>2, <3>3
    <3> QED
      BY <3>4 DEF StandsAt, d
  <2> QED
    BY <2>1, <2>2, <2>5
<1>8. CASE p % 2 = 1
  <2>1. Sibling(level) = << hs[p] >>
    <3>1. p - 1 + 1 = p /\ p - 1 < m /\ ~ (p % 2 = 0)
      BY <1>8
    <3> QED
      BY <3>1 DEF Sibling
  <2>2. 2 * q = p + 1 /\ 2 * q - 1 = p /\ 2 * q <= m /\ p \in 1..m
    BY <1>8
  <2>3. up.row[q] = NodeHash(hs[p], c.hash)
    BY <1>2, <1>4, <1>6, <2>2
  <2>4. cp % 2 = 1 \/ cp + 1 = cw
    BY <1>4, <1>8
  <2>5. StandsAt(Climb(c, hs[p]), up)
    <3> DEFINE d == Climb(c, hs[p])
    <3>1. d.hash = NodeHash(hs[p], c.hash)
      BY <1>5, <2>4
    <3>2. d.position = cp \div 2 /\ d.width = ((cw - 1) \div 2) + 1
      BY <1>5
    <3> HIDE DEF cp, cw
    <3>3. /\ cp \div 2 \in Nat /\ ((cw - 1) \div 2) + 1 \in Nat
          /\ \/ cp \div 2 = p \div 2 /\ ((cw - 1) \div 2) + 1 = (m + 1) \div 2
             \/ cp \div 2 + 1 = ((cw - 1) \div 2) + 1 /\ p \div 2 + 1 = (m + 1) \div 2
      <4>1. CASE cp = p /\ cw = m
        BY <1>4, <1>8, <4>1
      <4>2. CASE cp + 1 = cw /\ p + 1 = m
        BY <1>4, <1>8, <4>2
      <4> QED
        BY <1>4, <4>1, <4>2
    <3> HIDE DEF d, up, hs
    <3>4. d.position \in Nat /\ d.width \in Nat /\ d.hash = up.row[up.position + 1]
      BY <1>2, <2>3, <3>1, <3>2, <3>3
    <3>5. \/ d.position = up.position /\ d.width = Len(up.row)
          \/ d.position + 1 = d.width /\ up.position + 1 = Len(up.row)
      BY <1>1, <1>2, <3>2, <3>3
    <3> QED
      BY <3>4, <3>5 DEF StandsAt, d
  <2> QED
    BY <2>1, <2>2, <2>5
<1>9. CASE p % 2 = 0 /\ p + 1 = m
  <2>1. Sibling(level) = << >>
    BY <1>9 DEF Sibling
  <2>2. 2 * q = p + 2 /\ 2 * q - 1 = p + 1 /\ ~ (2 * q <= m) /\ q = (m + 1) \div 2
    BY <1>9
  <2>3. up.row[q] = c.hash
    BY <1>2, <1>4, <1>6, <2>2
  <2>4. cp + 1 = cw
    BY <1>4, <1>9
  <2>5. StandsAt(c, up)
    <3>1. /\ cp \in Nat /\ cw \in Nat /\ c.hash = up.row[up.position + 1]
          /\ up.position + 1 = Len(up.row)
      <4> HIDE DEF up, hs
      <4> QED
        BY <1>1, <1>2, <1>4, <2>2, <2>3
    <3> HIDE DEF up
    <3> QED
      BY <2>4, <3>1 DEF StandsAt
  <2> QED
    BY <2>1, <2>5
<1>10. p % 2 \in {0, 1} /\ (p + 1 < m \/ p + 1 = m)
  OBVIOUS
<1> QED
  BY <1>7, <1>8, <1>9, <1>10

(* A proof that is made from the tree consists of nodes of it, and leads   *)
(* from its leaf to where it was made.                                     *)
LEMMA ProofFollowed ==
  ASSUME NEW ls, NEW n \in Nat, Len(ls) = n, NEW index \in 0..(n - 1),
         NEW f, Levels(f, ls, index, n), NEW start,
         start = [hash |-> LeafHash(ls[index + 1]), position |-> index, width |-> n]
  PROVE  \A k \in 0..n :
           f[k].proof \in Seq(Nodes(f, n)) /\ StandsAt(Climbed(start, f[k].proof), f[k])
<1> DEFINE C == Nodes(f, n)
           Followed(level) == level.proof \in Seq(C) /\ StandsAt(Climbed(start, level.proof), level)
           T == {k \in Nat : k <= n => Followed(f[k])}
<1>1. f[0] = Leaves(ls, index) /\ \A k \in Nat : k + 1 <= n => f[k + 1] = Above(f[k])
  BY DEF Levels
<1>2. \A k \in 0..n : Shaped(f[k], k, n)
  BY LevelsShaped
<1>3. \A k \in 0..n : \A i \in 1..Len(f[k].row) : f[k].row[i] \in C
  BY DEF Nodes
<1> HIDE DEF C
<1>4. 0 \in T
  <2>1. f[0].proof = << >> /\ << >> \in Seq(C)
    BY <1>1 DEF Leaves
  <2>2. Climbed(start, << >>) = start
    BY ClimbNone
  <2>3. StandsAt(start, f[0])
    <3> DEFINE row == [i \in 1..Len(ls) |-> LeafHash(ls[i])]
    <3>1. f[0].row = row /\ f[0].position = index
      BY <1>1 DEF Leaves
    <3>2. Len(row) = n /\ row[index + 1] = LeafHash(ls[index + 1])
      OBVIOUS
    <3> HIDE DEF row
    <3> QED
      BY <3>1, <3>2 DEF StandsAt
  <2> QED
    BY <2>1, <2>2, <2>3
<1>5. ASSUME NEW k \in Nat, k \in T  PROVE k + 1 \in T
  <2>1. SUFFICES ASSUME k + 1 <= n  PROVE Followed(f[k + 1])
    OBVIOUS
  <2> DEFINE lv == f[k]
             c  == Climbed(start, lv.proof)
             m  == Len(lv.row)
             p  == lv.position
  <2>2. f[k + 1] = Above(lv)
    BY <1>1, <2>1
  <2>3. lv.proof \in Seq(C) /\ StandsAt(c, lv)
    BY <1>5, <2>1
  <2>4. m \in Nat /\ p \in Nat /\ p < m
    BY <1>2, <2>1 DEF Shaped
  <2>5. \A i \in 1..m : lv.row[i] \in C
    BY <1>3, <2>1
  <2>6. Above(lv).proof = lv.proof \o Sibling(lv)
    BY DEF Above
  <2> HIDE DEF lv
  <2>7. \/ Sibling(lv) = << >> /\ StandsAt(c, Above(lv))
        \/ \E b \in {lv.row[i] : i \in 1..m} :
             Sibling(lv) = << b >> /\ StandsAt(Climb(c, b), Above(lv))
    BY <2>3, <2>4, OneRowUp
  <2>8. CASE Sibling(lv) = << >> /\ StandsAt(c, Above(lv))
    <3>1. Above(lv).proof = lv.proof
      BY <2>3, <2>6, <2>8
    <3> QED
      BY <2>2, <2>3, <2>8, <3>1
  <2>9. CASE \E b \in {lv.row[i] : i \in 1..m} :
               Sibling(lv) = << b >> /\ StandsAt(Climb(c, b), Above(lv))
    <3>1. PICK b \in C : Sibling(lv) = << b >> /\ StandsAt(Climb(c, b), Above(lv))
      BY <2>5, <2>9
    <3>2. Above(lv).proof = lv.proof \o << b >>
      BY <2>6, <3>1
    <3>3. lv.proof \o << b >> \in Seq(C)
      BY <2>3
    <3>4. Climbed(start, lv.proof \o << b >>) = Climb(c, b)
      BY <2>3, ClimbLast
    <3> QED
      BY <2>2, <3>1, <3>2, <3>3, <3>4
  <2> QED
    BY <2>7, <2>8, <2>9
<1> HIDE DEF T
<1>6. \A k \in Nat : k \in T
  BY <1>4, <1>5, NatSetInduction
<1> QED
  BY <1>6 DEF T, C

(* Completeness of the tree: the proof that is made for a leaf is a finite *)
(* sequence and is accepted for it.                                        *)
LEMMA LeafAccepted ==
  ASSUME NEW ls, NEW n \in Nat, Len(ls) = n, NEW index \in 0..(n - 1)
  PROVE  /\ Len(MerkleProof(ls, index)) \in Nat
         /\ VerifyProof(MerkleRoot(ls), MerkleProof(ls, index), n, index, LeafHash(ls[index + 1]))
<1> DEFINE start == [hash |-> LeafHash(ls[index + 1]), position |-> index, width |-> n]
<1>1. PICK f : Levels(f, ls, index, n) /\ Root(ls, index) = f[n]
  BY RootLevel
<1>2. MerkleProof(ls, index) = f[n].proof
  BY <1>1 DEF MerkleProof
<1>3. f[n].proof \in Seq(Nodes(f, n)) /\ StandsAt(Climbed(start, f[n].proof), f[n])
  BY <1>1, ProofFollowed
<1>4. f[n].position = 0 /\ MerkleRoot(ls) = f[n].row[1]
  BY <1>1, RootNode
<1>5. Climbed(start, f[n].proof).hash = MerkleRoot(ls)
  BY <1>3, <1>4 DEF StandsAt
<1>6. Len(f[n].proof) \in Nat
  BY <1>3, LenProperties
<1> QED
  BY <1>2, <1>5, <1>6 DEF VerifyProof

-----------------------------------------------------------------------------
(* The powers of two.                                                      *)
Doubles(f, n) == f = [k \in 0..n |-> IF k = 0 THEN 1 ELSE 2 * f[k - 1]]

LEMMA DoublesExist == \A n \in Nat : \E f : Doubles(f, n)
<1> DEFINE T == {n \in Nat : \E f : Doubles(f, n)}
<1>1. 0 \in T
  <2> DEFINE f == [k \in 0..0 |-> 1]
  <2>1. Doubles(f, 0)
    BY DEF Doubles
  <2> HIDE DEF f
  <2> QED
    BY <2>1
<1>2. ASSUME NEW n \in Nat, n \in T  PROVE n + 1 \in T
  <2>1. PICK f : Doubles(f, n)
    BY <1>2
  <2> DEFINE g == [k \in 0..(n + 1) |-> IF k <= n THEN f[k] ELSE 2 * f[n]]
  <2>2. ASSUME NEW k \in 0..(n + 1)  PROVE g[k] = IF k = 0 THEN 1 ELSE 2 * g[k - 1]
    <3>1. CASE k <= n
      BY <2>1, <3>1 DEF Doubles
    <3>2. CASE k = n + 1
      BY <3>2
    <3> QED
      BY <3>1, <3>2
  <2>3. Doubles(g, n + 1)
    <3>1. g = [k \in 0..(n + 1) |-> g[k]]
      OBVIOUS
    <3> HIDE DEF g
    <3> QED
      BY <2>2, <3>1 DEF Doubles
  <2> HIDE DEF g
  <2> QED
    BY <2>3
<1> HIDE DEF T
<1>3. \A n \in Nat : n \in T
  BY <1>1, <1>2, NatSetInduction
<1> QED
  BY <1>3 DEF T

LEMMA DoublesAgree ==
  ASSUME NEW n \in Nat, NEW m \in Nat, n <= m, NEW f, Doubles(f, n), NEW g, Doubles(g, m)
  PROVE  \A k \in 0..n : f[k] = g[k]
<1> DEFINE T == {k \in Nat : k <= n => f[k] = g[k]}
<1>1. 0 \in T
  BY DEF Doubles
<1>2. ASSUME NEW k \in Nat, k \in T  PROVE k + 1 \in T
  <2>1. SUFFICES ASSUME k + 1 <= n  PROVE f[k + 1] = g[k + 1]
    OBVIOUS
  <2>2. f[k] = g[k]
    BY <1>2, <2>1
  <2>3. f[k + 1] = 2 * f[k]
    BY <2>1 DEF Doubles
  <2>4. g[k + 1] = 2 * g[k]
    BY <2>1 DEF Doubles
  <2> QED
    BY <2>2, <2>3, <2>4
<1> HIDE DEF T
<1>3. \A k \in Nat : k \in T
  BY <1>1, <1>2, NatSetInduction
<1> QED
  BY <1>3 DEF T

LEMMA PowerSteps == Power[0] = 1 /\ \A k \in Nat : Power[k + 1] = 2 * Power[k]
<1> DEFINE f(n) == CHOOSE f : Doubles(f, n)
           g == [k \in Nat |-> f(k)[k]]
<1>1. \A n \in Nat : Doubles(f(n), n)
  BY DoublesExist
<1> HIDE DEF f
<1>2. g[0] = 1
  <2>1. f(0)[0] = 1
    BY <1>1 DEF Doubles
  <2> QED
    BY <2>1
<1>3. ASSUME NEW k \in Nat  PROVE g[k + 1] = 2 * g[k]
  <2>1. Doubles(f(k), k) /\ Doubles(f(k + 1), k + 1)
    BY <1>1
  <2>2. f(k)[k] = f(k + 1)[k]
    BY <2>1, DoublesAgree
  <2>3. f(k + 1)[k + 1] = 2 * f(k + 1)[k]
    BY <2>1 DEF Doubles
  <2> QED
    BY <2>2, <2>3
<1>4. g = [k \in Nat |-> IF k = 0 THEN 1 ELSE 2 * g[k - 1]]
  <2>1. ASSUME NEW k \in Nat  PROVE g[k] = IF k = 0 THEN 1 ELSE 2 * g[k - 1]
    <3>1. CASE k = 0
      BY <1>2, <3>1
    <3>2. CASE k # 0
      <4>1. k - 1 \in Nat /\ k - 1 + 1 = k
        BY <3>2
      <4> HIDE DEF g
      <4> QED
        BY <1>3, <3>2, <4>1
    <3> QED
      BY <3>1, <3>2
  <2>2. g = [k \in Nat |-> g[k]]
    OBVIOUS
  <2> HIDE DEF g
  <2> QED
    BY <2>1, <2>2
<1> HIDE DEF g
<1>5. Power = [k \in Nat |-> IF k = 0 THEN 1 ELSE 2 * Power[k - 1]]
  BY <1>4 DEF Power
<1> QED
  BY <1>5

(* They grow, by at least their double from one to any later one.          *)
LEMMA PowersGrow ==
  /\ \A k \in Nat : Power[k] \in Nat /\ Power[k] > k
  /\ \A k, j \in Nat : k < j => 2 * Power[k] <= Power[j]
<1>1. \A k \in Nat : Power[k] \in Nat /\ Power[k] > k
  <2> DEFINE T == {k \in Nat : Power[k] \in Nat /\ Power[k] > k}
  <2>1. 0 \in T
    BY PowerSteps
  <2>2. ASSUME NEW k \in Nat, k \in T  PROVE k + 1 \in T
    BY <2>2, PowerSteps
  <2> HIDE DEF T
  <2>3. \A k \in Nat : k \in T
    BY <2>1, <2>2, NatSetInduction
  <2> QED
    BY <2>3 DEF T
<1>2. ASSUME NEW k \in Nat  PROVE \A j \in Nat : k < j => 2 * Power[k] <= Power[j]
  <2> DEFINE T == {j \in Nat : k < j => 2 * Power[k] <= Power[j]}
  <2>1. 0 \in T
    OBVIOUS
  <2>2. ASSUME NEW j \in Nat, j \in T  PROVE j + 1 \in T
    <3>1. Power[j + 1] = 2 * Power[j] /\ Power[j] \in Nat /\ Power[k] \in Nat
      BY <1>1, PowerSteps
    <3>2. CASE k < j
      BY <2>2, <3>1, <3>2
    <3>3. CASE k = j
      BY <3>1, <3>3
    <3> QED
      BY <3>2, <3>3
  <2> HIDE DEF T
  <2>3. \A j \in Nat : j \in T
    BY <2>1, <2>2, NatSetInduction
  <2> QED
    BY <2>3 DEF T
<1> QED
  BY <1>1, <1>2

(* Where to split: the only power of two that is less than n, and at least *)
(* half of it.                                                             *)
LEMMA SplitAt ==
  ASSUME NEW n \in Nat, NEW k \in Nat, Power[k] < n, n <= 2 * Power[k]
  PROVE  SplitPoint(n) = Power[k]
<1> DEFINE P == {Power[j] : j \in 0..n}
<1>1. Power[k] \in P
  <2>1. k \in 0..n
    BY PowersGrow
  <2> QED
    BY <2>1
<1>2. ASSUME NEW p \in P, p < n, n <= 2 * p  PROVE p = Power[k]
  <2>1. PICK j \in 0..n : p = Power[j]
    BY <1>2
  <2>2. Power[j] \in Nat /\ Power[k] \in Nat
    BY PowersGrow
  <2>3. CASE j < k
    <3>1. 2 * Power[j] <= Power[k]
      BY <2>3, PowersGrow
    <3> QED
      BY <1>2, <2>1, <2>2, <3>1
  <2>4. CASE k < j
    <3>1. 2 * Power[k] <= Power[j]
      BY <2>4, PowersGrow
    <3> QED
      BY <1>2, <2>1, <2>2, <3>1
  <2> QED
    BY <2>1, <2>3, <2>4
<1>3. SplitPoint(n) = CHOOSE p \in P : p < n /\ n <= 2 * p
  BY DEF SplitPoint
<1> HIDE DEF P
<1> QED
  BY <1>1, <1>2, <1>3

LEMMA SplitInside ==
  ASSUME NEW n \in Nat, n >= 2
  PROVE  SplitPoint(n) \in 1..(n - 1) /\ n - SplitPoint(n) \in 1..(n - 1)
<1> DEFINE T == {i \in Nat : i >= 2 => \E k \in Nat : Power[k] < i /\ i <= 2 * Power[k]}
<1>1. 0 \in T
  OBVIOUS
<1>2. ASSUME NEW i \in Nat, i \in T  PROVE i + 1 \in T
  <2>1. CASE i + 1 < 2
    BY <2>1
  <2>2. CASE i + 1 = 2
    BY <2>2, PowerSteps
  <2>3. CASE i >= 2
    <3>1. PICK k \in Nat : Power[k] < i /\ i <= 2 * Power[k]
      BY <1>2, <2>3
    <3>2. Power[k] \in Nat /\ Power[k + 1] = 2 * Power[k]
      BY PowerSteps, PowersGrow
    <3>3. CASE i < 2 * Power[k]
      BY <3>1, <3>2, <3>3
    <3>4. CASE i = 2 * Power[k]
      <4>1. Power[k + 1] < i + 1 /\ i + 1 <= 2 * Power[k + 1]
        BY <2>3, <3>2, <3>4
      <4> QED
        BY <4>1
    <3> QED
      BY <3>1, <3>2, <3>3, <3>4
  <2> QED
    BY <2>1, <2>2, <2>3
<1> HIDE DEF T
<1>3. \A i \in Nat : i \in T
  BY <1>1, <1>2, NatSetInduction
<1>4. PICK k \in Nat : Power[k] < n /\ n <= 2 * Power[k]
  BY <1>3 DEF T
<1>5. Power[k] \in Nat /\ Power[k] > 0
  BY PowersGrow
<1>6. SplitPoint(n) = Power[k]
  BY <1>4, SplitAt
<1> QED
  BY <1>4, <1>5, <1>6

-----------------------------------------------------------------------------
(* The trees of n leaves, by where they begin, from those of fewer leaves. *)
Halves(split, s, n) ==
  [from \in 1..(Len(s) - n + 1) |->
     IF n = 1 THEN LeafHash(s[from])
     ELSE NodeHash(split[SplitPoint(n)][from],
                   split[n - SplitPoint(n)][from + SplitPoint(n)])]

Splits(split, s, m) == split = [n \in 1..m |-> Halves(split, s, n)]

LEMMA SplitsExist ==
  ASSUME NEW s
  PROVE  \A m \in Nat : \E f : Splits(f, s, m)
<1> DEFINE T == {m \in Nat : \E f : Splits(f, s, m)}
<1>1. 0 \in T
  <2> DEFINE f == [n \in 1..0 |-> << >>]
  <2>1. Splits(f, s, 0)
    BY DEF Splits
  <2> HIDE DEF f
  <2> QED
    BY <2>1
<1>2. ASSUME NEW m \in Nat, m \in T  PROVE m + 1 \in T
  <2>1. PICK f : Splits(f, s, m)
    BY <1>2
  <2> DEFINE g == [n \in 1..(m + 1) |-> IF n <= m THEN f[n] ELSE Halves(f, s, n)]
  <2>2. \A n \in 1..(m + 1) : g[n] = Halves(f, s, n)
    <3> TAKE n \in 1..(m + 1)
    <3>1. CASE n <= m
      BY <2>1, <3>1 DEF Splits
    <3>2. CASE n = m + 1
      BY <3>2
    <3> QED
      BY <3>1, <3>2
  <2>3. \A n \in 1..m : g[n] = f[n]
    OBVIOUS
  <2>4. g = [n \in 1..(m + 1) |-> g[n]]
    OBVIOUS
  <2> HIDE DEF g
  <2>5. ASSUME NEW n \in 1..(m + 1)  PROVE Halves(g, s, n) = Halves(f, s, n)
    <3>1. CASE n = 1
      BY <3>1 DEF Halves
    <3>2. CASE n >= 2
      <4>1. SplitPoint(n) \in 1..m /\ n - SplitPoint(n) \in 1..m
        <5>1. SplitPoint(n) \in 1..(n - 1) /\ n - SplitPoint(n) \in 1..(n - 1)
          BY <3>2, SplitInside
        <5>2. 1..(n - 1) \subseteq 1..m
          OBVIOUS
        <5> QED
          BY <5>1, <5>2
      <4>2. g[SplitPoint(n)] = f[SplitPoint(n)] /\ g[n - SplitPoint(n)] = f[n - SplitPoint(n)]
        BY <2>3, <4>1
      <4> QED
        BY <4>2, Zenon DEF Halves
    <3> QED
      BY <3>1, <3>2
  <2>6. \A n \in 1..(m + 1) : g[n] = Halves(g, s, n)
    BY <2>2, <2>5
  <2>7. Splits(g, s, m + 1)
    BY <2>4, <2>6 DEF Splits
  <2> QED
    BY <2>7
<1> HIDE DEF T
<1>3. \A m \in Nat : m \in T
  BY <1>1, <1>2, NatSetInduction
<1> QED
  BY <1>3 DEF T

(* The reference, by its defining equations.                               *)
SplitsInto(split, s, n) ==
  /\ \A from \in 1..n : split[1][from] = LeafHash(s[from])
  /\ \A w \in 2..n : \A from \in 1..(n - w + 1) :
       split[w][from] = NodeHash(split[SplitPoint(w)][from],
                                 split[w - SplitPoint(w)][from + SplitPoint(w)])

LEMMA SplitTree ==
  ASSUME NEW s, NEW n \in Nat, Len(s) = n
  PROVE  \E split : SplitsInto(split, s, n) /\ SplitRoot(s) = split[n][1]
<1> DEFINE split == CHOOSE f : Splits(f, s, n)
<1>1. Splits(split, s, n)
  BY SplitsExist
<1>2. SplitRoot(s) = split[n][1]
  BY DEF SplitRoot, Splits, Halves
<1> HIDE DEF split
<1>3. \A w \in 1..n : split[w] = Halves(split, s, w)
  BY <1>1 DEF Splits
<1>4. ASSUME NEW from \in 1..n  PROVE split[1][from] = LeafHash(s[from])
  <2>1. 1 \in 1..n /\ from \in 1..(Len(s) - 1 + 1)
    OBVIOUS
  <2>2. split[1] = Halves(split, s, 1)
    BY <1>3, <2>1
  <2>3. Halves(split, s, 1)[from] = LeafHash(s[from])
    BY <2>1 DEF Halves
  <2> QED
    BY <2>2, <2>3
<1>5. ASSUME NEW w \in 2..n, NEW from \in 1..(n - w + 1)
      PROVE  split[w][from] = NodeHash(split[SplitPoint(w)][from],
                                       split[w - SplitPoint(w)][from + SplitPoint(w)])
  <2>1. w \in 1..n /\ w # 1 /\ from \in 1..(Len(s) - w + 1)
    OBVIOUS
  <2>2. split[w] = Halves(split, s, w)
    BY <1>3, <2>1
  <2>3. Halves(split, s, w)[from] = NodeHash(split[SplitPoint(w)][from],
                                             split[w - SplitPoint(w)][from + SplitPoint(w)])
    BY <2>1, Zenon DEF Halves
  <2> QED
    BY <2>2, <2>3
<1> QED
  BY <1>2, <1>4, <1>5 DEF SplitsInto

(* The trees of w neighbouring leaves.                                     *)
Blocks(split, n, w) == {split[w][from] : from \in 1..(n - w + 1)}

LEMMA BlockParts ==
  ASSUME NEW s, NEW n \in Nat, NEW split, SplitsInto(split, s, n),
         NEW w \in 1..n, NEW h \in Blocks(split, n, w)
  PROVE  \/ w = 1 /\ \E x : h = LeafHash(x)
         \/ \E p, q \in 1..n : /\ p + q = w
                               /\ \E a \in Blocks(split, n, p), b \in Blocks(split, n, q) :
                                    h = NodeHash(a, b)
<1>1. PICK from \in 1..(n - w + 1) : h = split[w][from]
  BY DEF Blocks
<1>2. CASE w = 1
  <2>1. from \in 1..n
    BY <1>2
  <2>2. h = LeafHash(s[from])
    BY <1>1, <1>2, <2>1 DEF SplitsInto
  <2> QED
    BY <1>2, <2>2
<1>3. CASE w >= 2
  <2> DEFINE p == SplitPoint(w)
             q == w - SplitPoint(w)
  <2>1. p \in 1..(w - 1) /\ q \in 1..(w - 1)
    BY <1>3, SplitInside
  <2>2. w \in 2..n
    BY <1>3
  <2>3. h = NodeHash(split[p][from], split[q][from + p])
    BY <1>1, <2>2, Zenon DEF SplitsInto
  <2>4. p + q = w
    BY <2>1
  <2> HIDE DEF p, q
  <2>5. p \in 1..n /\ q \in 1..n /\ from \in 1..(n - p + 1) /\ from + p \in 1..(n - q + 1)
    BY <2>1, <2>4
  <2>6. split[p][from] \in Blocks(split, n, p) /\ split[q][from + p] \in Blocks(split, n, q)
    BY <2>5 DEF Blocks
  <2> QED
    BY <2>3, <2>4, <2>5, <2>6
<1> QED
  BY <1>2, <1>3

(* No hash is that of trees of different sizes.                            *)
LEMMA BlockSize ==
  ASSUME NEW s, NEW n \in Nat, NEW split, SplitsInto(split, s, n)
  PROVE  \A w, v \in 1..n : \A h \in Blocks(split, n, w) : h \in Blocks(split, n, v) => w = v
<1> DEFINE B(w) == Blocks(split, n, w)
           T == {k \in Nat : \A w, v \in 1..n : \A h \in B(w) : w <= k /\ h \in B(v) => w = v}
<1>1. \A a, b, c, d, x : NodeHash(a, b) # LeafHash(x)
                         /\ (NodeHash(a, b) = NodeHash(c, d) => a = c /\ b = d)
  BY DEF NodeHash, LeafHash
<1>2. \A w \in 1..n : \A h \in B(w) :
        \/ w = 1 /\ \E x : h = LeafHash(x)
        \/ \E p, q \in 1..n : p + q = w /\ \E a \in B(p), b \in B(q) : h = NodeHash(a, b)
  BY BlockParts
<1> HIDE DEF B
<1>3. 0 \in T
  OBVIOUS
<1>4. ASSUME NEW k \in Nat, k \in T  PROVE k + 1 \in T
  <2>1. SUFFICES ASSUME NEW w \in 1..n, NEW v \in 1..n, NEW h \in B(w), w <= k + 1, h \in B(v)
                 PROVE  w = v
    OBVIOUS
  <2>2. CASE w = 1 /\ \E x : h = LeafHash(x)
    <3>1. v = 1
      BY <1>1, <1>2, <2>1, <2>2
    <3> QED
      BY <2>2, <3>1
  <2>3. CASE \E p, q \in 1..n : p + q = w /\ \E a \in B(p), b \in B(q) : h = NodeHash(a, b)
    <3>1. PICK p, q \in 1..n :
            p + q = w /\ \E a \in B(p), b \in B(q) : h = NodeHash(a, b)
      BY <2>3
    <3>2. PICK a \in B(p), b \in B(q) : h = NodeHash(a, b)
      BY <3>1
    <3>3. PICK r, t \in 1..n : r + t = v /\ a \in B(r) /\ b \in B(t)
      BY <1>1, <1>2, <2>1, <3>2
    <3>4. p <= k /\ q <= k
      BY <2>1, <3>1
    <3>5. p = r /\ q = t
      BY <1>4, <3>2, <3>3, <3>4
    <3> QED
      BY <3>1, <3>3, <3>5
  <2> QED
    BY <1>2, <2>2, <2>3
<1> HIDE DEF T
<1>5. \A k \in Nat : k \in T
  BY <1>3, <1>4, NatSetInduction
<1> QED
  BY <1>5 DEF T, B

-----------------------------------------------------------------------------
(* A row of r nodes over m leaves, cut up: node i is the tree of the       *)
(* leaves between cut[i - 1] and cut[i], and all nodes but the last have   *)
(* span leaves.                                                            *)
CutUp(cut, split, hs, r, m, span) ==
  /\ cut[0] = 0 /\ cut[r] = m
  /\ \A i \in 0..r : cut[i] \in 0..m
  /\ \A i \in 1..r : /\ cut[i] - cut[i - 1] \in 1..span
                     /\ i < r => cut[i] - cut[i - 1] = span
                     /\ hs[i] = split[cut[i] - cut[i - 1]][cut[i - 1] + 1]

LEMMA RowCutUp ==
  ASSUME NEW s, NEW n \in Nat, NEW split, SplitsInto(split, s, n), NEW m \in 1..n,
         NEW r \in Nat, r >= 1, NEW hs, Len(hs) = r, NEW k \in Nat,
         NEW cut, CutUp(cut, split, hs, r, m, Power[k])
  PROVE  \E next : CutUp(next, split, Row(hs), (r + 1) \div 2, m, Power[k + 1])
<1> DEFINE up   == Row(hs)
           half == (r + 1) \div 2
           next == [i \in 0..half |-> cut[IF 2 * i <= r THEN 2 * i ELSE r]]
           span == Power[k]
<1>1. span \in Nat /\ Power[k + 1] = 2 * span
  BY PowerSteps, PowersGrow
<1>2. half \in Nat /\ half >= 1
  OBVIOUS
<1>3. \A i \in 1..half : up[i] = IF 2 * i <= r THEN NodeHash(hs[2*i - 1], hs[2*i])
                                               ELSE hs[2*i - 1]
  BY RowNodes
<1>4. /\ cut[0] = 0 /\ cut[r] = m
      /\ \A i \in 0..r : cut[i] \in 0..m
      /\ \A i \in 1..r : /\ cut[i] - cut[i - 1] \in 1..span
                         /\ i < r => cut[i] - cut[i - 1] = span
                         /\ hs[i] = split[cut[i] - cut[i - 1]][cut[i - 1] + 1]
  BY DEF CutUp
<1> HIDE DEF up, span
<1>5. next[0] = 0 /\ next[half] = m /\ \A i \in 0..half : next[i] \in 0..m
  <2>1. next[0] = cut[0]
    BY <1>2
  <2>2. next[half] = cut[r]
    <3>1. 2 * half <= r => 2 * half = r
      OBVIOUS
    <3>2. half \in 0..half
      BY <1>2
    <3> QED
      BY <3>1, <3>2
  <2>3. ASSUME NEW i \in 0..half  PROVE next[i] \in 0..m
    <3>1. (IF 2 * i <= r THEN 2 * i ELSE r) \in 0..r
      OBVIOUS
    <3> QED
      BY <1>4, <3>1
  <2> QED
    BY <1>4, <2>1, <2>2, <2>3
<1>6. ASSUME NEW i \in 1..half
      PROVE  /\ next[i] - next[i - 1] \in 1..(2 * span)
             /\ i < half => next[i] - next[i - 1] = 2 * span
             /\ up[i] = split[next[i] - next[i - 1]][next[i - 1] + 1]
  <2> DEFINE x == cut[2*i - 2]
             y == cut[2*i - 1]
  <2>1. 2*i - 2 \in 0..r /\ 2*i - 1 \in 1..r /\ 2*i - 1 \in 0..r /\ 2*i - 1 - 1 = 2*i - 2
    OBVIOUS
  <2>2. next[i - 1] = x
    <3>1. i - 1 \in 0..half /\ 2 * (i - 1) = 2*i - 2 /\ 2 * (i - 1) <= r
      BY <2>1
    <3> QED
      BY <3>1
  <2>3. /\ x \in 0..m /\ y \in 0..m /\ y - x \in 1..span
        /\ 2*i - 1 < r => y - x = span
        /\ hs[2*i - 1] = split[y - x][x + 1]
    BY <1>4, <2>1
  <2>4. CASE 2 * i <= r
    <3> DEFINE z == cut[2*i]
    <3>1. 2*i \in 1..r /\ 2*i \in 0..r /\ i \in 0..half
      BY <1>2, <2>4
    <3>2. next[i] = z
      BY <2>4, <3>1
    <3>3. /\ z \in 0..m /\ z - y \in 1..span
          /\ 2*i < r => z - y = span
          /\ hs[2*i] = split[z - y][y + 1]
      BY <1>4, <3>1
    <3>4. y - x = span
      BY <2>3, <2>4
    <3>5. up[i] = NodeHash(hs[2*i - 1], hs[2*i])
      BY <1>3, <2>4
    <3>6. i < half => 2*i < r
      OBVIOUS
    <3> HIDE DEF x, y, z, next, half
    <3>7. x \in Nat /\ y \in Nat /\ z \in Nat /\ z <= n /\ y = x + span /\ z - y \in 1..span
      BY <1>1, <2>3, <3>3, <3>4
    <3>8. z - x \in 1..(2 * span) /\ (i < half => z - x = 2 * span)
      BY <1>1, <3>3, <3>6, <3>7
    <3>9. SplitPoint(z - x) = span
      <4>1. z - x \in Nat /\ span < z - x /\ z - x <= 2 * span
        BY <1>1, <3>7
      <4> QED
        BY <4>1, SplitAt DEF span
    <3>10. up[i] = split[z - x][x + 1]
      <4>1. z - x \in 2..n /\ x + 1 \in 1..(n - (z - x) + 1)
        <5>1. span >= 1 /\ z >= y + 1
          BY <1>1, <3>7
        <5> QED
          BY <1>1, <3>7, <5>1
      <4>2. split[z - x][x + 1] = NodeHash(split[span][x + 1], split[z - x - span][x + 1 + span])
        <5>1. split[z - x][x + 1] =
                NodeHash(split[SplitPoint(z - x)][x + 1],
                         split[z - x - SplitPoint(z - x)][x + 1 + SplitPoint(z - x)])
          BY <4>1, Zenon DEF SplitsInto
        <5> QED
          BY <3>9, <5>1, Zenon
      <4>3. z - x - span = z - y /\ x + 1 + span = y + 1
        BY <1>1, <3>7
      <4>4. hs[2*i - 1] = split[span][x + 1]
        BY <2>3, <3>4
      <4> QED
        BY <3>3, <3>5, <4>2, <4>3, <4>4
    <3> QED
      BY <2>2, <3>2, <3>8, <3>10
  <2>5. CASE 2 * i > r
    <3>1. 2*i - 1 = r /\ i = half /\ ~ (2 * i <= r) /\ i \in 0..half
      BY <1>2, <2>5
    <3>2. next[i] = y
      BY <3>1
    <3>3. up[i] = hs[2*i - 1]
      BY <1>3, <3>1
    <3> HIDE DEF x, y, next, half
    <3>4. y - x \in 1..(2 * span)
      BY <1>1, <2>3
    <3> QED
      BY <2>2, <2>3, <3>1, <3>2, <3>3, <3>4
  <2> QED
    BY <2>4, <2>5
<1> HIDE DEF next, half
<1>7. CutUp(next, split, up, half, m, 2 * span)
  BY <1>5, <1>6, Zenon DEF CutUp
<1> QED
  BY <1>1, <1>7 DEF up, half

(* So are all the rows over the first m of the leaves s.                   *)
LEMMA RowsCutUp ==
  ASSUME NEW s, NEW n \in Nat, NEW split, SplitsInto(split, s, n), NEW m \in 1..n,
         NEW ls, Len(ls) = m, \A i \in 1..m : ls[i] = s[i],
         NEW index \in 0..(m - 1), NEW f, Levels(f, ls, index, m)
  PROVE  \A k \in 0..m : \E cut : CutUp(cut, split, f[k].row, Len(f[k].row), m, Power[k])
<1> DEFINE T == {k \in Nat : k <= m =>
                   \E cut : CutUp(cut, split, f[k].row, Len(f[k].row), m, Power[k])}
<1>1. 0 \in T
  <2> DEFINE cut == [i \in 0..m |-> i]
  <2>1. f[0].row = [i \in 1..m |-> LeafHash(ls[i])]
    <3>1. f[0] = Leaves(ls, index)
      BY LevelSteps
    <3> QED
      BY <3>1 DEF Leaves
  <2>2. Len(f[0].row) = m
    BY <2>1
  <2>3. Power[0] = 1
    BY PowerSteps
  <2>4. \A i \in 1..m : /\ cut[i] - cut[i - 1] = 1 /\ cut[i - 1] + 1 = i
                        /\ f[0].row[i] = split[1][i]
    <3> TAKE i \in 1..m
    <3>1. i \in 1..n /\ i \in 0..m /\ i - 1 \in 0..m
      OBVIOUS
    <3>2. split[1][i] = LeafHash(s[i])
      BY <3>1 DEF SplitsInto
    <3> QED
      BY <2>1, <3>1, <3>2
  <2>5. cut[0] = 0 /\ cut[m] = m /\ \A i \in 0..m : cut[i] \in 0..m
    OBVIOUS
  <2> HIDE DEF cut
  <2>6. CutUp(cut, split, f[0].row, m, m, 1)
    BY <2>4, <2>5 DEF CutUp
  <2> QED
    BY <2>2, <2>3, <2>6
<1>2. ASSUME NEW k \in Nat, k \in T  PROVE k + 1 \in T
  <2> DEFINE hs == f[k].row
             r  == Len(hs)
  <2>1. SUFFICES ASSUME k + 1 <= m
                 PROVE  \E cut : CutUp(cut, split, f[k + 1].row, Len(f[k + 1].row), m, Power[k + 1])
    OBVIOUS
  <2>2. r \in Nat /\ r >= 1
    <3>1. Shaped(f[k], k, m)
      BY <2>1, LevelsShaped
    <3> QED
      BY <3>1 DEF Shaped
  <2>3. f[k + 1].row = Row(hs)
    <3>1. \A j \in Nat : j + 1 <= m => f[j + 1] = Above(f[j])
      BY DEF Levels
    <3>2. f[k + 1] = Above(f[k])
      BY <2>1, <3>1
    <3> QED
      BY <3>2 DEF Above
  <2>4. PICK cut : CutUp(cut, split, hs, r, m, Power[k])
    BY <1>2, <2>1
  <2> HIDE DEF hs
  <2>5. Len(Row(hs)) = (r + 1) \div 2
    BY <2>2, RowNodes
  <2>6. \E next : CutUp(next, split, Row(hs), (r + 1) \div 2, m, Power[k + 1])
    <3> HIDE DEF r
    <3>1. Len(hs) = r
      BY DEF r
    <3> QED
      BY <2>2, <2>4, <3>1, RowCutUp
  <2> QED
    BY <2>3, <2>5, <2>6
<1> HIDE DEF T
<1>3. \A k \in Nat : k \in T
  BY <1>1, <1>2, NatSetInduction
<1> QED
  BY <1>3 DEF T

-----------------------------------------------------------------------------
(* The nodes and the root of the tree over the first m of the leaves s are *)
(* trees of the reference.                                                 *)
LEMMA NodesInBlocks ==
  ASSUME NEW s, NEW n \in Nat, NEW split, SplitsInto(split, s, n), NEW m \in 1..n,
         NEW ls, Len(ls) = m, \A i \in 1..m : ls[i] = s[i],
         NEW index \in 0..(m - 1), NEW f, Levels(f, ls, index, m)
  PROVE  \A k \in 0..m : \A i \in 1..Len(f[k].row) :
           \E w \in 1..n : f[k].row[i] \in Blocks(split, n, w)
<1> SUFFICES ASSUME NEW k \in 0..m, NEW i \in 1..Len(f[k].row)
             PROVE  \E w \in 1..n : f[k].row[i] \in Blocks(split, n, w)
  OBVIOUS
<1> DEFINE hs == f[k].row
           r  == Len(hs)
           span == Power[k]
<1>1. r \in Nat
  <2>1. Shaped(f[k], k, m)
    BY LevelsShaped
  <2> QED
    BY <2>1 DEF Shaped
<1>2. PICK cut : CutUp(cut, split, hs, r, m, span)
  BY RowsCutUp
<1>3. span \in Nat
  BY PowersGrow
<1> HIDE DEF hs, r, span
<1> DEFINE x == cut[i - 1]
           y == cut[i]
<1>4. /\ x \in 0..m /\ y \in 0..m /\ y - x \in 1..span
      /\ hs[i] = split[y - x][x + 1]
  <2>1. i \in 1..r
    BY DEF hs, r
  <2>2. i \in 0..r /\ i - 1 \in 0..r
    BY <1>1, <2>1
  <2> QED
    BY <1>2, <2>1, <2>2 DEF CutUp
<1> HIDE DEF x, y
<1>5. x \in Nat /\ y \in Nat /\ y <= n /\ y - x >= 1
  BY <1>3, <1>4
<1>6. y - x \in 1..n /\ x + 1 \in 1..(n - (y - x) + 1)
  BY <1>5
<1>7. hs[i] \in Blocks(split, n, y - x)
  BY <1>4, <1>6 DEF Blocks
<1> QED
  BY <1>6, <1>7 DEF hs

LEMMA RootSplit ==
  ASSUME NEW s, NEW n \in Nat, NEW split, SplitsInto(split, s, n), NEW m \in 1..n,
         NEW ls, Len(ls) = m, \A i \in 1..m : ls[i] = s[i],
         NEW index \in 0..(m - 1), NEW f, Levels(f, ls, index, m)
  PROVE  /\ f[m].position = 0 /\ f[m].row[1] = MerkleRoot(ls)
         /\ MerkleRoot(ls) = split[m][1]
<1>1. Len(f[m].row) = 1 /\ f[m].position = 0 /\ MerkleRoot(ls) = f[m].row[1]
  BY RootNode
<1>2. PICK cut : CutUp(cut, split, f[m].row, 1, m, Power[m])
  <2>1. m \in 0..m
    OBVIOUS
  <2>2. \E cut : CutUp(cut, split, f[m].row, Len(f[m].row), m, Power[m])
    BY <2>1, RowsCutUp
  <2> QED
    BY <1>1, <2>2
<1>3. f[m].row[1] = split[m][1]
  <2>1. cut[0] = 0 /\ cut[1] = m
    BY <1>2 DEF CutUp
  <2>2. f[m].row[1] = split[cut[1] - cut[1 - 1]][cut[1 - 1] + 1]
    BY <1>2 DEF CutUp
  <2>3. 1 - 1 = 0 /\ m - 0 = m /\ 0 + 1 = 1
    OBVIOUS
  <2> QED
    BY <2>1, <2>2, <2>3
<1> QED
  BY <1>1, <1>3

(* h is the two hashed together, in the one order or the other.            *)
Joins(h, a, b) == h = NodeHash(a, b) \/ h = NodeHash(b, a)

(* A node of the tree with an inner one below it, by their sizes.          *)
LEMMA PairSize ==
  ASSUME NEW s, NEW n \in Nat, NEW split, SplitsInto(split, s, n)
  PROVE  \A a, b, h : \A u, w \in 1..n :
           b \in Blocks(split, n, u) /\ h \in Blocks(split, n, w) /\ Joins(h, a, b)
           => \E p \in 1..n : p + u = w /\ a \in Blocks(split, n, p)
<1>0. SUFFICES ASSUME NEW a, NEW b, NEW h, NEW u \in 1..n, NEW w \in 1..n,
                      b \in Blocks(split, n, u), h \in Blocks(split, n, w), Joins(h, a, b)
               PROVE  \E p \in 1..n : p + u = w /\ a \in Blocks(split, n, p)
  OBVIOUS
<1>1. \A c, d, x : NodeHash(c, d) # LeafHash(x)
  BY DEF NodeHash, LeafHash
<1>2. PICK p, q \in 1..n :
        /\ p + q = w
        /\ \E c \in Blocks(split, n, p), d \in Blocks(split, n, q) : h = NodeHash(c, d)
  <2>1. ~ \E x : h = LeafHash(x)
    BY <1>0, <1>1 DEF Joins
  <2> QED
    BY <1>0, <2>1, BlockParts
<1>3. PICK c \in Blocks(split, n, p), d \in Blocks(split, n, q) : h = NodeHash(c, d)
  BY <1>2
<1>4. CASE h = NodeHash(a, b)
  <2>1. c = a /\ d = b
    BY <1>3, <1>4 DEF NodeHash
  <2>2. q = u
    BY <1>0, <1>3, <2>1, BlockSize
  <2> QED
    BY <1>2, <1>3, <2>1, <2>2
<1>5. CASE h = NodeHash(b, a)
  <2>1. c = b /\ d = a
    BY <1>3, <1>5 DEF NodeHash
  <2>2. p = u
    BY <1>0, <1>3, <2>1, BlockSize
  <2>3. q + u = w
    BY <1>2, <2>2
  <2> QED
    BY <1>3, <2>1, <2>3
<1> QED
  BY <1>0, <1>4, <1>5 DEF Joins

(* The node one row up is the same one, or it and its sibling hashed.      *)
LEMMA NodeAbove ==
  ASSUME NEW level, NEW r \in Nat, Len(level.row) = r,
         NEW p \in Nat, level.position = p, p < r
  PROVE  LET node == level.row[p + 1]
             up   == Above(level).row[Above(level).position + 1]
         IN  \/ Sibling(level) = << >> /\ up = node
             \/ \E b \in {level.row[i] : i \in 1..r} :
                  Sibling(level) = << b >> /\ (up = NodeHash(node, b) \/ up = NodeHash(b, node))
<1> DEFINE node == level.row[p + 1]
           up   == Above(level).row[Above(level).position + 1]
           c    == [hash |-> node, position |-> p, width |-> r]
<1>1. StandsAt(c, level)
  BY DEF StandsAt
<1>2. c.hash = node /\ \A b : Climb(c, b).hash = NodeHash(node, b)
                              \/ Climb(c, b).hash = NodeHash(b, node)
  BY DEF Climb
<1> HIDE DEF c
<1>3. \/ Sibling(level) = << >> /\ StandsAt(c, Above(level))
      \/ \E b \in {level.row[i] : i \in 1..r} :
           Sibling(level) = << b >> /\ StandsAt(Climb(c, b), Above(level))
  BY <1>1, OneRowUp
<1>4. \A d : StandsAt(d, Above(level)) => d.hash = up
  BY DEF StandsAt
<1> HIDE DEF up, node
<1>5. \/ Sibling(level) = << >> /\ up = node
      \/ \E b \in {level.row[i] : i \in 1..r} :
           Sibling(level) = << b >> /\ (up = NodeHash(node, b) \/ up = NodeHash(b, node))
  BY <1>2, <1>3, <1>4
<1> QED
  BY <1>5 DEF up, node

(* A proof that was made over the first m leaves, started from another     *)
(* leaf hash: where it leads into the tree at all, it leads to as many     *)
(* leaves as where it was made.                                            *)
LEMMA StaleClimb ==
  ASSUME NEW s, NEW n \in Nat, NEW split, SplitsInto(split, s, n), NEW m \in 1..n,
         NEW ls, Len(ls) = m, \A i \in 1..m : ls[i] = s[i],
         NEW index \in 0..(m - 1), NEW f, Levels(f, ls, index, m),
         NEW start, NEW x, start.hash = LeafHash(x)
  PROVE  \A k \in 0..m : \A v, w \in 1..n :
           /\ Climbed(start, f[k].proof).hash \in Blocks(split, n, v)
           /\ f[k].row[f[k].position + 1] \in Blocks(split, n, w)
           => v = w
<1> DEFINE B(w)     == Blocks(split, n, w)
           Beside(a, u, w) == \E e \in 1..n : e + u = w /\ a \in B(e)
           node(k)  == f[k].row[f[k].position + 1]
           climb(k) == Climbed(start, f[k].proof)
           T == {k \in Nat : k <= m =>
                   \A v, w \in 1..n : climb(k).hash \in B(v) /\ node(k) \in B(w) => v = w}
<1>0. m \in Nat
  OBVIOUS
<1>1. f[0] = Leaves(ls, index) /\ \A k \in Nat : k + 1 <= m => f[k + 1] = Above(f[k])
  BY DEF Levels
<1>2. \A k \in 0..m : f[k].proof \in Seq(Nodes(f, m))
  <2> DEFINE honest == [hash |-> LeafHash(ls[index + 1]), position |-> index, width |-> m]
  <2>1. \A k \in 0..m : f[k].proof \in Seq(Nodes(f, m))
                        /\ StandsAt(Climbed(honest, f[k].proof), f[k])
    BY <1>0, ProofFollowed
  <2> QED
    BY <2>1
<1>3. \A k \in 0..m : \A i \in 1..Len(f[k].row) : \E w \in 1..n : f[k].row[i] \in B(w)
  BY NodesInBlocks
<1>4. \A a, b, h : \A u, w \in 1..n :
        b \in B(u) /\ h \in B(w) /\ Joins(h, a, b) => Beside(a, u, w)
  BY PairSize
<1>5. \A y : \A w \in 1..n : LeafHash(y) \in B(w) => w = 1
  <2> SUFFICES ASSUME NEW y, NEW w \in 1..n, LeafHash(y) \in B(w)  PROVE w = 1
    OBVIOUS
  <2>1. \A a, b : LeafHash(y) # NodeHash(a, b)
    BY DEF LeafHash, NodeHash
  <2> QED
    BY <2>1, BlockParts
<1> HIDE DEF Beside, B
<1>6. 0 \in T
  <2>1. f[0].proof = << >> /\ f[0].position = index
        /\ f[0].row = [i \in 1..Len(ls) |-> LeafHash(ls[i])]
    BY <1>1 DEF Leaves
  <2>2. climb(0).hash = LeafHash(x)
    BY <2>1, ClimbNone
  <2>3. node(0) = LeafHash(ls[index + 1])
    BY <2>1
  <2> QED
    BY <1>5, <2>2, <2>3
<1>7. ASSUME NEW k \in Nat, k \in T  PROVE k + 1 \in T
  <2>1. SUFFICES ASSUME k + 1 <= m, NEW v \in 1..n, NEW w \in 1..n,
                        climb(k + 1).hash \in B(v), node(k + 1) \in B(w)
                 PROVE  v = w
    OBVIOUS
  <2> DEFINE lv == f[k]
             r  == Len(lv.row)
             p  == lv.position
             c  == climb(k)
  <2>2. k \in 0..m /\ f[k + 1] = Above(lv)
    BY <1>1, <2>1
  <2>3. r \in Nat /\ p \in Nat /\ p < r
    <3>1. Shaped(f[k], k, m)
      BY <1>0, <2>2, LevelsShaped
    <3> QED
      BY <3>1 DEF Shaped
  <2>4. \A u, t \in 1..n : c.hash \in B(u) /\ lv.row[p + 1] \in B(t) => u = t
    BY <1>7, <2>1
  <2>5. lv.proof \in Seq(Nodes(f, m)) /\ c = Climbed(start, lv.proof)
    BY <1>2, <2>2
  <2>6. \A i \in 1..r : /\ \E u \in 1..n : lv.row[i] \in B(u)
                        /\ lv.row[i] \in Nodes(f, m)
    <3>1. \A i \in 1..r : \E u \in 1..n : lv.row[i] \in B(u)
      BY <1>3, <2>2
    <3>2. \A i \in 1..r : lv.row[i] \in Nodes(f, m)
      BY <2>2 DEF Nodes
    <3> QED
      BY <3>1, <3>2
  <2> DEFINE up == Above(lv).row[Above(lv).position + 1]
             d  == Climbed(start, Above(lv).proof)
  <2>7. up \in B(w) /\ d.hash \in B(v)
    BY <2>1, <2>2
  <2>8. Above(lv).proof = lv.proof \o Sibling(lv)
    BY DEF Above
  <2>9. \/ Sibling(lv) = << >> /\ up = lv.row[p + 1]
        \/ \E b \in {lv.row[i] : i \in 1..r} :
             /\ Sibling(lv) = << b >>
             /\ up = NodeHash(lv.row[p + 1], b) \/ up = NodeHash(b, lv.row[p + 1])
    BY <2>3, NodeAbove
  <2> HIDE DEF lv, r, p, c, up, d, node, climb
  <2>10. CASE Sibling(lv) = << >> /\ up = lv.row[p + 1]
    <3>1. Above(lv).proof = lv.proof
      BY <2>5, <2>8, <2>10
    <3>2. d = c
      BY <2>5, <3>1 DEF d
    <3> QED
      BY <2>4, <2>7, <2>10, <3>2
  <2>11. CASE \E b \in {lv.row[i] : i \in 1..r} :
                /\ Sibling(lv) = << b >>
                /\ up = NodeHash(lv.row[p + 1], b) \/ up = NodeHash(b, lv.row[p + 1])
    <3>1. PICK i \in 1..r :
            /\ Sibling(lv) = << lv.row[i] >>
            /\ up = NodeHash(lv.row[p + 1], lv.row[i]) \/ up = NodeHash(lv.row[i], lv.row[p + 1])
      BY <2>11
    <3> DEFINE b == lv.row[i]
    <3>2. b \in Nodes(f, m) /\ \E u \in 1..n : b \in B(u)
      BY <2>6
    <3> HIDE DEF b
    <3>3. PICK u \in 1..n : b \in B(u)
      BY <3>2
    <3>4. Sibling(lv) = << b >>
          /\ (up = NodeHash(lv.row[p + 1], b) \/ up = NodeHash(b, lv.row[p + 1]))
      BY <3>1 DEF b
    <3>5. d = Climb(c, b)
      <4>1. Above(lv).proof = lv.proof \o << b >>
        BY <2>8, <3>4
      <4>2. Climbed(start, lv.proof \o << b >>) = Climb(Climbed(start, lv.proof), b)
        BY <2>5, <3>2, ClimbLast
      <4> QED
        BY <2>5, <4>1, <4>2 DEF d
    <3>6. d.hash = NodeHash(c.hash, b) \/ d.hash = NodeHash(b, c.hash)
      BY <3>5 DEF Climb
    <3>7. PICK t \in 1..n : t + u = w /\ lv.row[p + 1] \in B(t)
      <4>1. b \in B(u) /\ up \in B(w) /\ Joins(up, lv.row[p + 1], b)
        BY <2>7, <3>3, <3>4 DEF Joins
      <4>2. Beside(lv.row[p + 1], u, w)
        BY <1>4, <4>1
      <4> QED
        BY <4>2 DEF Beside
    <3>8. PICK g \in 1..n : g + u = v /\ c.hash \in B(g)
      <4>1. b \in B(u) /\ d.hash \in B(v) /\ Joins(d.hash, c.hash, b)
        BY <2>7, <3>3, <3>6 DEF Joins
      <4>2. Beside(c.hash, u, v)
        BY <1>4, <4>1
      <4> QED
        BY <4>2 DEF Beside
    <3>9. g = t
      BY <2>4, <3>7, <3>8
    <3> QED
      BY <3>7, <3>8, <3>9
  <2> QED
    BY <2>9, <2>10, <2>11
<1> HIDE DEF T, node, climb
<1>8. \A k \in Nat : k \in T
  BY <1>6, <1>7, NatSetInduction
<1>9. \A k \in 0..m : \A v, w \in 1..n : climb(k).hash \in B(v) /\ node(k) \in B(w) => v = w
  BY <1>8 DEF T
<1> QED
  BY <1>9, Zenon DEF climb, node, B

(* A proof that was made over fewer leaves is refused.                     *)
LEMMA StaleProof ==
  ASSUME NEW s, NEW n \in Nat, Len(s) = n, NEW m \in 1..(n - 1),
         NEW ls, Len(ls) = m, \A i \in 1..m : ls[i] = s[i],
         NEW index \in 0..(m - 1), NEW j \in Nat, NEW x
  PROVE  ~ VerifyProof(MerkleRoot(s), MerkleProof(ls, index), n, j, LeafHash(x))
<1> SUFFICES ASSUME VerifyProof(MerkleRoot(s), MerkleProof(ls, index), n, j, LeafHash(x))
             PROVE  FALSE
  OBVIOUS
<1> DEFINE start == [hash |-> LeafHash(x), position |-> j, width |-> n]
<1>1. PICK split : SplitsInto(split, s, n)
  BY SplitTree
<1>2. m \in 1..n /\ n \in 1..n /\ 0 \in 0..(n - 1) /\ m # n /\ m \in 0..m
  OBVIOUS
<1>3. PICK f : Levels(f, ls, index, m) /\ Root(ls, index) = f[m]
  <2>1. Len(ls) \in Nat
    BY <1>2
  <2> QED
    BY <2>1, RootLevel
<1>4. PICK g : Levels(g, s, 0, n)
  BY LevelsExist
<1>5. MerkleRoot(s) = split[n][1]
  BY <1>1, <1>2, <1>4, RootSplit
<1>6. f[m].position = 0 /\ f[m].row[1] = split[m][1]
  BY <1>1, <1>2, <1>3, RootSplit
<1>7. split[n][1] \in Blocks(split, n, n) /\ split[m][1] \in Blocks(split, n, m)
  BY <1>2 DEF Blocks
<1>8. MerkleProof(ls, index) = f[m].proof
  BY <1>3 DEF MerkleProof
<1>9. Climbed(start, f[m].proof).hash = split[n][1] /\ start.hash = LeafHash(x)
  BY <1>5, <1>8 DEF VerifyProof
<1> HIDE DEF start
<1>10. \A k \in 0..m : \A v, w \in 1..n :
         /\ Climbed(start, f[k].proof).hash \in Blocks(split, n, v)
         /\ f[k].row[f[k].position + 1] \in Blocks(split, n, w)
         => v = w
  <2>1. start.hash = LeafHash(x) /\ m \in 1..n /\ Levels(f, ls, index, m)
    BY <1>2, <1>3, <1>9
  <2> QED
    BY <1>1, <2>1, StaleClimb
<1>11. f[m].row[f[m].position + 1] \in Blocks(split, n, m)
  BY <1>6, <1>7
<1> QED
  BY <1>2, <1>7, <1>9, <1>10, <1>11

(* The leaves of a tree that grows.                                        *)
Grown == tree \in Seq(Leaf)

LEMMA GrownAlways == Growth => []Grown
<1>1. Planted => Grown
  BY DEF Planted, Grown
<1>2. Grown /\ [Grows]_tree => Grown'
  BY DEF Grown, Grows, Grow
<1> QED
  BY <1>1, <1>2, PTL DEF Growth

(* At every size, hashing row by row and promoting the odd node makes the  *)
(* tree that is split at the largest power of two (lib.rs:99).             *)
THEOREM RowsSplit == Growth => []RowsMatchSplit
<1>1. ASSUME Grown  PROVE RowsMatchSplit
  <2> SUFFICES ASSUME tree # << >>  PROVE MerkleRoot(tree) = SplitRoot(tree)
    BY DEF RowsMatchSplit
  <2> DEFINE n == Len(tree)
  <2>1. n \in Nat /\ n # 0
    BY <1>1, LenProperties, EmptySeq DEF Grown
  <2>2. n \in 1..n /\ 0 \in 0..(n - 1) /\ \A i \in 1..n : tree[i] = tree[i]
    BY <2>1
  <2>3. PICK split : SplitsInto(split, tree, n) /\ SplitRoot(tree) = split[n][1]
    BY <2>1, SplitTree
  <2>4. PICK f : Levels(f, tree, 0, n)
    BY <2>1, LevelsExist
  <2>5. MerkleRoot(tree) = split[n][1]
    <3>1. Len(tree) = n
      OBVIOUS
    <3> HIDE DEF n
    <3> QED
      BY <2>1, <2>2, <2>3, <2>4, <3>1, RootSplit
  <2> QED
    BY <2>3, <2>5
<1> QED
  BY <1>1, GrownAlways, PTL

(* At every size, a proof that was made for a shorter list is refused for  *)
(* every leaf and index: verify_proof compares with the root of the leaves *)
(* that are stored when it is dispatched (lib.rs:99-106).                  *)
THEOREM StaleRefused == Growth => []StaleProofsRefused
<1>1. ASSUME Grown  PROVE StaleProofsRefused
  <2> DEFINE n == Len(tree)
  <2>1. n \in Nat
    BY <1>1, LenProperties DEF Grown
  <2>2. ASSUME NEW m \in 1..(n - 1), NEW i \in 0..(m - 1), NEW j \in 0..(n - 1), NEW x \in Leaf
        PROVE  ~ VerifyProof(MerkleRoot(tree), MerkleProof(SubSeq(tree, 1, m), i), n, j,
                             LeafHash(x))
    <3> DEFINE ls == SubSeq(tree, 1, m)
    <3>1. Len(ls) = m /\ \A k \in 1..m : ls[k] = tree[k]
      BY <1>1, <2>1 DEF Grown
    <3>2. j \in Nat /\ Len(tree) = n
      BY <2>1
    <3> HIDE DEF ls, n
    <3>3. ~ VerifyProof(MerkleRoot(tree), MerkleProof(ls, i), n, j, LeafHash(x))
      BY <2>1, <3>1, <3>2, StaleProof
    <3> QED
      BY <3>3 DEF ls
  <2> QED
    BY <2>2 DEF StaleProofsRefused
<1> QED
  BY <1>1, GrownAlways, PTL

-----------------------------------------------------------------------------
USE LimitsAssumption, SizeAssumption, SubmissionAssumption

(* What a call can do to the state. *)
Refused ==
  UNCHANGED << leaves, papers, events >> /\ result' \in Result

LeafStored ==
  \E h \in Hash :
    /\ Len(leaves) < MaxLeaves
    /\ leaves' = Append(leaves, h)
    /\ papers' = papers
    /\ events' = Append(events, LeafAdded(h))
    /\ result' = "Ok"

ProofAccepted ==
  /\ 0 < Len(leaves)
  /\ leaves' = leaves
  /\ papers' = papers
  /\ events' = Append(events, ProofVerified(TRUE))
  /\ result' = "Ok"

PaperStored ==
  \E a \in Submission :
    /\ ConversionResult(a) = "Ok"
    /\ leaves' = leaves
    /\ papers' = Inserted(papers, TitleHash(a.title), a)
    /\ events' = Append(events, PaperAdded(TitleHash(a.title)))
    /\ result' = "Ok"

-----------------------------------------------------------------------------
(* The outcome of the conversions of add_paper: one of its errors, or Ok,  *)
(* and then every conversion succeeds.                                     *)
LEMMA ConversionOutcome ==
  ASSUME NEW a \in Submission
  PROVE  /\ ConversionResult(a) \in Result
         /\ ConversionResult(a) = "Ok" => \A i \in 1..7 : Conversions(a)[i].fits
<1> DEFINE failing == {i \in 1..7 : ~ Conversions(a)[i].fits}
<1>1. \A i \in 1..7 : Conversions(a)[i].error \in Result \ {"Ok"}
  BY DEF Conversions, Result
<1>2. CASE failing = {}
  <2>1. ConversionResult(a) = "Ok"
    BY <1>2 DEF ConversionResult
  <2>2. QED  BY <1>2, <2>1 DEF Result
<1>3. CASE failing # {}
  <2> DEFINE first == CHOOSE i \in failing : \A j \in failing : i <= j
  <2>1. \E i \in failing : \A j \in failing : i <= j
    BY <1>3
  <2>2. first \in 1..7
    BY <2>1
  <2>3. ConversionResult(a) = Conversions(a)[first].error
    BY <1>3 DEF ConversionResult
  <2>4. QED  BY <1>1, <2>2, <2>3
<1>4. QED  BY <1>2, <1>3

(* The conversions succeed only for what is within all limits.             *)
LEMMA OkFits ==
  ASSUME NEW a \in Submission, ConversionResult(a) = "Ok"
  PROVE  FitsAll(a)
<1>1. \A i \in 1..7 : Conversions(a)[i].fits
  BY ConversionOutcome
<1>2. /\ Conversions(a)[1].fits /\ Conversions(a)[2].fits /\ Conversions(a)[3].fits
      /\ Conversions(a)[4].fits /\ Conversions(a)[5].fits /\ Conversions(a)[6].fits
      /\ Conversions(a)[7].fits
  BY <1>1
<1>3. QED  BY <1>2, Zenon DEF Conversions, FitsAll

(* Every step of the pallet is a refused call, an accepted call of one of  *)
(* the three kinds, or leaves all variables alone.                         *)
LEMMA StepEffects ==
  ASSUME TypeOK, [Next]_vars
  PROVE  Refused \/ LeafStored \/ ProofAccepted \/ PaperStored
<1>1. Len(leaves) \in Nat
  BY LenProperties DEF TypeOK
<1>2. ASSUME NEW origin \in Origin, NEW leaf \in Hash, AddLeaf(origin, leaf)
      PROVE  Refused \/ LeafStored
  BY <1>2 DEF AddLeaf, StorageLayer, IfSigned, Refused, LeafStored, Result
<1>3. ASSUME NEW origin \in Origin, NEW proof, NEW i \in 0..Len(leaves), NEW leaf,
             VerifyLeaf(origin, proof, i, leaf)
      PROVE  Refused \/ ProofAccepted
  <2> DEFINE v == IsValid(proof, i, leaf)
  <2>1. v \in BOOLEAN
    BY DEF IsValid, VerifyProof
  <2>2. v => 0 < Len(leaves)
    BY <1>1 DEF IsValid, VerifyProof
  <2>3. StorageLayer(IfSigned(origin, IF v THEN "Ok" ELSE "ProofVerificationFailed"),
                     leaves, papers, Append(events, ProofVerified(v)))
    BY <1>3 DEF VerifyLeaf
  <2> HIDE DEF v
  <2>4. CASE v
    BY <2>1, <2>2, <2>3, <2>4 DEF StorageLayer, IfSigned, Refused, ProofAccepted, Result
  <2>5. CASE ~ v
    BY <2>3, <2>5 DEF StorageLayer, IfSigned, Refused, Result
  <2>6. QED  BY <2>4, <2>5
<1>4. ASSUME NEW origin \in Origin, NEW a \in Submission, AddPaper(origin, a)
      PROVE  Refused \/ PaperStored
  BY <1>4, ConversionOutcome DEF AddPaper, StorageLayer, IfSigned, Refused, PaperStored, Result
<1>5. CASE UNCHANGED vars
  BY <1>5 DEF vars, Refused, TypeOK
<1>6. CASE Next
  BY <1>2, <1>3, <1>4, <1>6 DEF Next
<1>7. QED  BY <1>5, <1>6

(* Types are kept by every step. *)
THEOREM TypeCorrect == Spec => []TypeOK
<1>1. Init => TypeOK
  BY DEF Init, TypeOK, Result
<1>2. TypeOK /\ [Next]_vars => TypeOK'
  <2> SUFFICES ASSUME TypeOK, [Next]_vars  PROVE TypeOK'
    OBVIOUS
  <2>1. CASE Refused
    BY <2>1 DEF Refused, TypeOK
  <2>2. CASE LeafStored
    <3>1. PICK h \in Hash : LeafStored!(h)
      BY <2>2 DEF LeafStored
    <3>2. LeafAdded(h) \in Event
      BY DEF LeafAdded, Event
    <3>3. QED  BY <3>1, <3>2, LenProperties, AppendProperties DEF TypeOK, Result
  <2>3. CASE ProofAccepted
    <3>1. ProofVerified(TRUE) \in Event
      BY DEF ProofVerified, Event
    <3>2. QED  BY <2>3, <3>1, AppendProperties DEF TypeOK, ProofAccepted, Result
  <2>4. CASE PaperStored
    <3>1. PICK a \in Submission : PaperStored!(a)
      BY <2>4 DEF PaperStored
    <3>2. a.title \in Text
      BY DEF PaperArguments
    <3>3. PaperAdded(TitleHash(a.title)) \in Event
      BY <3>2 DEF PaperAdded, Event
    <3>4. /\ DOMAIN papers' \subseteq {TitleHash(t) : t \in Text}
          /\ papers' \in [DOMAIN papers' -> Submission]
      BY <3>1, <3>2 DEF TypeOK, Inserted
    <3>5. QED  BY <3>1, <3>3, <3>4, AppendProperties DEF TypeOK, Result
  <2>5. QED  BY StepEffects, <2>1, <2>2, <2>3, <2>4
<1>3. QED  BY <1>1, <1>2, PTL DEF Spec

-----------------------------------------------------------------------------
(* Appending one entry to a sequence: the facts every proof below uses.    *)
LEMMA Appended ==
  ASSUME NEW S, NEW seq \in Seq(S), NEW x, NEW seq2, seq2 = Append(seq, x)
  PROVE  /\ Len(seq) \in Nat
         /\ Len(seq2) = Len(seq) + 1
         /\ \A i \in 1..Len(seq) : seq2[i] = seq[i]
         /\ seq2[Len(seq) + 1] = x
<1>1. seq \in Seq(S \cup {x})
  BY SeqMonotonic
<1>2. x \in S \cup {x}
  OBVIOUS
<1>3. QED  BY <1>1, <1>2, LenProperties, AppendProperties

(* The events tell exactly which leaves are stored and in which order. The *)
(* witness that maps leaves to their events grows with each leaf.          *)
THEOREM LeavesReplayed == Spec => []EventsReplayLeaves
<1>1. Init => EventsReplayLeaves
  <2> SUFFICES ASSUME Init  PROVE EventsReplayLeaves
    OBVIOUS
  <2>1. leaves = << >> /\ events = << >>
    BY DEF Init
  <2>2. Len(leaves) = 0 /\ Len(events) = 0
    BY <2>1, EmptySeq
  <2> DEFINE at == [i \in 1..0 |-> i]
  <2>3. at \in [1..Len(leaves) -> 1..Len(events)]
    BY <2>2
  <2>4. /\ \A i, j \in 1..Len(leaves) : i < j => at[i] < at[j]
        /\ \A i \in 1..Len(leaves) : events[at[i]] = LeafAdded(leaves[i])
        /\ \A e \in 1..Len(events) :
             events[e].kind = "LeafAdded" => \E i \in 1..Len(leaves) : at[i] = e
    BY <2>2
  <2> HIDE DEF at
  <2>5. QED  BY <2>3, <2>4 DEF EventsReplayLeaves
<1>2. TypeOK /\ EventsReplayLeaves /\ [Next]_vars => EventsReplayLeaves'
  <2> SUFFICES ASSUME TypeOK, EventsReplayLeaves, [Next]_vars
               PROVE  EventsReplayLeaves'
    OBVIOUS
  <2>1. PICK at \in [1..Len(leaves) -> 1..Len(events)] : EventsReplayLeaves!(at)
    BY DEF EventsReplayLeaves
  <2>2. Len(leaves) \in Nat /\ Len(events) \in Nat
    BY LenProperties DEF TypeOK
  <2>3. CASE Refused
    BY <2>3 DEF Refused, EventsReplayLeaves
  <2>4. CASE LeafStored
    <3>1. PICK h \in Hash : LeafStored!(h)
      BY <2>4 DEF LeafStored
    <3>2. /\ Len(leaves') = Len(leaves) + 1
          /\ \A i \in 1..Len(leaves) : leaves'[i] = leaves[i]
          /\ leaves'[Len(leaves) + 1] = h
      BY <3>1, Appended DEF TypeOK
    <3>3. /\ Len(events') = Len(events) + 1
          /\ \A e \in 1..Len(events) : events'[e] = events[e]
          /\ events'[Len(events) + 1] = LeafAdded(h)
      BY <3>1, Appended DEF TypeOK
    <3> DEFINE at2 == [i \in 1..Len(leaves') |->
                         IF i = Len(leaves) + 1 THEN Len(events) + 1 ELSE at[i]]
    <3>4. at2 \in [1..Len(leaves') -> 1..Len(events')]
      BY <2>1, <2>2, <3>2, <3>3
    <3>5. \A i, j \in 1..Len(leaves') : i < j => at2[i] < at2[j]
      BY <2>1, <2>2, <3>2
    <3>6. \A i \in 1..Len(leaves') : events'[at2[i]] = LeafAdded(leaves'[i])
      BY <2>1, <2>2, <3>2, <3>3
    <3>7. \A e \in 1..Len(events') :
            events'[e].kind = "LeafAdded" => \E i \in 1..Len(leaves') : at2[i] = e
      <4> SUFFICES ASSUME NEW e \in 1..Len(events'), events'[e].kind = "LeafAdded"
                   PROVE  \E i \in 1..Len(leaves') : at2[i] = e
        OBVIOUS
      <4>1. CASE e = Len(events) + 1
        <5>1. Len(leaves) + 1 \in 1..Len(leaves')
          BY <2>2, <3>2
        <5>2. QED  BY <4>1, <5>1
      <4>2. CASE e \in 1..Len(events)
        <5>1. PICK i \in 1..Len(leaves) : at[i] = e
          BY <2>1, <3>3, <4>2
        <5>2. i \in 1..Len(leaves') /\ i # Len(leaves) + 1
          BY <2>2, <3>2
        <5>3. QED  BY <5>1, <5>2
      <4>3. QED  BY <2>2, <3>3, <4>1, <4>2
    <3> HIDE DEF at2
    <3>8. QED  BY <3>4, <3>5, <3>6, <3>7 DEF EventsReplayLeaves
  <2>5. ASSUME NEW ev, leaves' = leaves, events' = Append(events, ev), ev.kind # "LeafAdded"
        PROVE  EventsReplayLeaves'
    <3>1. /\ Len(events') = Len(events) + 1
          /\ \A e \in 1..Len(events) : events'[e] = events[e]
          /\ events'[Len(events) + 1] = ev
      BY <2>5, Appended DEF TypeOK
    <3>2. at \in [1..Len(leaves') -> 1..Len(events')]
      BY <2>1, <2>2, <2>5, <3>1
    <3>3. \A i \in 1..Len(leaves') : events'[at[i]] = LeafAdded(leaves'[i])
      BY <2>1, <2>5, <3>1
    <3>4. \A e \in 1..Len(events') :
            events'[e].kind = "LeafAdded" => \E i \in 1..Len(leaves') : at[i] = e
      BY <2>1, <2>2, <2>5, <3>1
    <3>5. \A i, j \in 1..Len(leaves') : i < j => at[i] < at[j]
      BY <2>1, <2>5
    <3>6. QED  BY <3>2, <3>3, <3>4, <3>5 DEF EventsReplayLeaves
  <2>6. CASE ProofAccepted
    BY <2>5, <2>6 DEF ProofAccepted, ProofVerified
  <2>7. CASE PaperStored
    BY <2>5, <2>7 DEF PaperStored, PaperAdded
  <2>8. QED  BY StepEffects, <2>3, <2>4, <2>6, <2>7
<1>3. QED  BY <1>1, <1>2, TypeCorrect, PTL DEF Spec

(* A paper is in the map exactly if its key was announced. *)
THEOREM AnnouncedPapers == Spec => []PapersAnnounced
<1>1. Init => PapersAnnounced
  BY EmptySeq DEF Init, PapersAnnounced
<1>2. TypeOK /\ PapersAnnounced /\ [Next]_vars => PapersAnnounced'
  <2> SUFFICES ASSUME TypeOK, PapersAnnounced, [Next]_vars
               PROVE  PapersAnnounced'
    OBVIOUS
  <2>1. Len(events) \in Nat
    BY LenProperties DEF TypeOK
  <2>2. CASE Refused
    BY <2>2 DEF Refused, PapersAnnounced
  <2>3. ASSUME NEW ev, papers' = papers, events' = Append(events, ev), ev.kind # "PaperAdded"
        PROVE  PapersAnnounced'
    <3>1. /\ Len(events') = Len(events) + 1
          /\ \A e \in 1..Len(events) : events'[e] = events[e]
          /\ events'[Len(events) + 1] = ev
      BY <2>3, Appended DEF TypeOK
    <3>2. \A k : ev # PaperAdded(k)
      BY <2>3 DEF PaperAdded
    <3>3. \A k : (\E e \in 1..Len(events') : events'[e] = PaperAdded(k))
                  <=> \E e \in 1..Len(events) : events[e] = PaperAdded(k)
      BY <2>1, <3>1, <3>2
    <3>4. QED  BY <2>3, <3>3 DEF PapersAnnounced
  <2>4. CASE LeafStored
    BY <2>3, <2>4 DEF LeafStored, LeafAdded
  <2>5. CASE ProofAccepted
    BY <2>3, <2>5 DEF ProofAccepted, ProofVerified
  <2>6. CASE PaperStored
    <3>1. PICK a \in Submission : PaperStored!(a)
      BY <2>6 DEF PaperStored
    <3> DEFINE key == TitleHash(a.title)
    <3>2. /\ Len(events') = Len(events) + 1
          /\ \A e \in 1..Len(events) : events'[e] = events[e]
          /\ events'[Len(events) + 1] = PaperAdded(key)
      BY <3>1, Appended DEF TypeOK
    <3>3. \A k : k \in DOMAIN papers' <=> k \in DOMAIN papers \/ k = key
      BY <3>1 DEF Inserted
    <3>4. \A k : PaperAdded(k) = PaperAdded(key) <=> k = key
      BY DEF PaperAdded
    <3> HIDE DEF key
    <3>5. \A k : (\E e \in 1..Len(events') : events'[e] = PaperAdded(k))
                  <=> (\E e \in 1..Len(events) : events[e] = PaperAdded(k)) \/ k = key
      BY <2>1, <3>2, <3>4
    <3>6. QED  BY <3>3, <3>5 DEF PapersAnnounced
  <2>7. QED  BY StepEffects, <2>2, <2>4, <2>5, <2>6
<1>3. QED  BY <1>1, <1>2, TypeCorrect, PTL DEF Spec

(* No failed verification is ever announced. *)
THEOREM NoFalseProof == Spec => []NoFalseProofEvent
<1>1. Init => NoFalseProofEvent
  BY EmptySeq DEF Init, NoFalseProofEvent
<1>2. TypeOK /\ NoFalseProofEvent /\ [Next]_vars => NoFalseProofEvent'
  <2> SUFFICES ASSUME TypeOK, NoFalseProofEvent, [Next]_vars
               PROVE  NoFalseProofEvent'
    OBVIOUS
  <2>1. Len(events) \in Nat
    BY LenProperties DEF TypeOK
  <2>2. CASE Refused
    BY <2>2 DEF Refused, NoFalseProofEvent
  <2>3. ASSUME NEW ev, events' = Append(events, ev), ev # ProofVerified(FALSE)
        PROVE  NoFalseProofEvent'
    <3>1. /\ Len(events') = Len(events) + 1
          /\ \A e \in 1..Len(events) : events'[e] = events[e]
          /\ events'[Len(events) + 1] = ev
      BY <2>3, Appended DEF TypeOK
    <3>2. \A e \in 1..Len(events') : e \in 1..Len(events) \/ e = Len(events) + 1
      BY <2>1, <3>1
    <3>3. \A e \in 1..Len(events) : events'[e] # ProofVerified(FALSE)
      BY <3>1 DEF NoFalseProofEvent
    <3>4. events'[Len(events) + 1] # ProofVerified(FALSE)
      BY <2>3, <3>1
    <3>5. \A e \in 1..Len(events') : events'[e] # ProofVerified(FALSE)
      BY <3>2, <3>3, <3>4, Zenon
    <3>6. QED  BY <3>5 DEF NoFalseProofEvent, ProofVerified
  <2>4. CASE LeafStored
    BY <2>3, <2>4 DEF LeafStored, LeafAdded, ProofVerified
  <2>5. CASE ProofAccepted
    <3>1. ProofVerified(TRUE) # ProofVerified(FALSE)
      BY DEF ProofVerified
    <3>2. QED  BY <2>3, <2>5, <3>1 DEF ProofAccepted
  <2>6. CASE PaperStored
    BY <2>3, <2>6 DEF PaperStored, PaperAdded, ProofVerified
  <2>7. QED  BY StepEffects, <2>2, <2>4, <2>5, <2>6
<1>3. QED  BY <1>1, <1>2, TypeCorrect, PTL DEF Spec

(* A proof is announced as verified only after a leaf: while no leaf is    *)
(* announced none is stored, by EventsReplayLeaves, and then every index   *)
(* is out of range.                                                        *)
THEOREM VerifiedAfterLeaf == Spec => []NothingVerifiesBeforeALeaf
<1>1. Init => NothingVerifiesBeforeALeaf
  BY EmptySeq DEF Init, NothingVerifiesBeforeALeaf
<1>2. TypeOK /\ EventsReplayLeaves /\ NothingVerifiesBeforeALeaf /\ [Next]_vars
        => NothingVerifiesBeforeALeaf'
  <2> SUFFICES ASSUME TypeOK, EventsReplayLeaves, NothingVerifiesBeforeALeaf, [Next]_vars
               PROVE  NothingVerifiesBeforeALeaf'
    OBVIOUS
  <2>1. Len(events) \in Nat /\ Len(leaves) \in Nat
    BY LenProperties DEF TypeOK
  <2>2. CASE Refused
    BY <2>2 DEF Refused, NothingVerifiesBeforeALeaf
  <2>3. ASSUME NEW ev, events' = Append(events, ev),
               ev.kind = "ProofVerified" => \E d \in 1..Len(events) : events[d].kind = "LeafAdded"
        PROVE  NothingVerifiesBeforeALeaf'
    <3>1. /\ Len(events') = Len(events) + 1
          /\ \A e \in 1..Len(events) : events'[e] = events[e]
          /\ events'[Len(events) + 1] = ev
      BY <2>3, Appended DEF TypeOK
    <3> SUFFICES ASSUME NEW e \in 1..Len(events'), events'[e].kind = "ProofVerified"
                 PROVE  \E d \in 1..(e - 1) : events'[d].kind = "LeafAdded"
      BY DEF NothingVerifiesBeforeALeaf
    <3>2. CASE e = Len(events) + 1
      <4>1. PICK d \in 1..Len(events) : events[d].kind = "LeafAdded"
        BY <2>3, <3>1, <3>2
      <4>2. d \in 1..(e - 1) /\ events'[d].kind = "LeafAdded"
        BY <2>1, <3>1, <3>2, <4>1
      <4>3. QED  BY <4>2
    <3>3. CASE e \in 1..Len(events)
      <4>1. PICK d \in 1..(e - 1) : events[d].kind = "LeafAdded"
        BY <3>1, <3>3 DEF NothingVerifiesBeforeALeaf
      <4>2. events'[d].kind = "LeafAdded"
        BY <2>1, <3>1, <3>3, <4>1
      <4>3. QED  BY <4>2
    <3>4. QED  BY <2>1, <3>1, <3>2, <3>3
  <2>4. CASE LeafStored
    BY <2>3, <2>4 DEF LeafStored, LeafAdded
  <2>5. CASE ProofAccepted
    <3>1. PICK at \in [1..Len(leaves) -> 1..Len(events)] : EventsReplayLeaves!(at)
      BY DEF EventsReplayLeaves
    <3>2. 1 \in 1..Len(leaves)
      BY <2>1, <2>5 DEF ProofAccepted
    <3>3. at[1] \in 1..Len(events) /\ events[at[1]] = LeafAdded(leaves[1])
      BY <3>1, <3>2
    <3>4. events[at[1]].kind = "LeafAdded"
      BY <3>3 DEF LeafAdded
    <3>5. QED  BY <2>3, <2>5, <3>3, <3>4 DEF ProofAccepted
  <2>6. CASE PaperStored
    BY <2>3, <2>6 DEF PaperStored, PaperAdded
  <2>7. QED  BY StepEffects, <2>2, <2>4, <2>5, <2>6
<1>3. QED  BY <1>1, <1>2, TypeCorrect, LeavesReplayed, PTL DEF Spec

(* Verification events are of valid proofs, with a leaf before them.       *)
THEOREM ProofEvents == Spec => []ProofEventsHonest
<1>1. NoFalseProofEvent /\ NothingVerifiesBeforeALeaf => ProofEventsHonest
  BY DEF ProofEventsHonest
<1>2. QED  BY <1>1, NoFalseProof, VerifiedAfterLeaf, PTL

(* Whatever is stored is under its own key and within every limit.         *)
THEOREM StoredPapersFit == Spec => []PapersFit
<1>1. Init => PapersFit
  BY DEF Init, PapersFit
<1>2. TypeOK /\ PapersFit /\ [Next]_vars => PapersFit'
  <2> SUFFICES ASSUME TypeOK, PapersFit, [Next]_vars  PROVE PapersFit'
    OBVIOUS
  <2>1. ASSUME papers' = papers  PROVE PapersFit'
    BY <2>1 DEF PapersFit
  <2>2. CASE PaperStored
    <3>1. PICK a \in Submission : PaperStored!(a)
      BY <2>2 DEF PaperStored
    <3>2. FitsAll(a)
      BY <3>1, OkFits
    <3>3. \A k \in DOMAIN papers' :
            \/ k = TitleHash(a.title) /\ papers'[k] = a
            \/ k \in DOMAIN papers /\ papers'[k] = papers[k]
      BY <3>1 DEF Inserted
    <3>4. QED  BY <3>2, <3>3 DEF PapersFit
  <2>3. QED  BY StepEffects, <2>1, <2>2 DEF Refused, LeafStored, ProofAccepted
<1>3. QED  BY <1>1, <1>2, TypeCorrect, PTL DEF Spec

(* Leaves keep their places and papers stay in the map. *)
THEOREM LossFree == Spec => NothingIsLost
<1>1. ASSUME TypeOK, [Next]_vars
      PROVE  /\ Len(leaves) <= Len(leaves')
             /\ \A i \in 1..Len(leaves) : leaves'[i] = leaves[i]
             /\ DOMAIN papers \subseteq DOMAIN papers'
  <2>1. Len(leaves) \in Nat
    BY LenProperties DEF TypeOK
  <2>2. CASE Refused
    BY <2>1, <2>2 DEF Refused
  <2>3. CASE LeafStored
    BY <2>1, <2>3, Appended DEF LeafStored, TypeOK
  <2>4. CASE ProofAccepted
    BY <2>1, <2>4 DEF ProofAccepted
  <2>5. CASE PaperStored
    BY <2>1, <2>5 DEF PaperStored, Inserted
  <2>6. QED  BY <1>1, StepEffects, <2>2, <2>3, <2>4, <2>5
<1>2. QED  BY <1>1, TypeCorrect, PTL DEF Spec, NothingIsLost

(* The pallet implements the registry: an accepted call is one step of it, *)
(* a refused call and a verification are none.                             *)
THEOREM RegistryImplemented == Spec => ImplementsRegistry
<1>1. Init => Registry!Init
  BY DEF Init, Registry!Init
<1>2. TypeOK /\ [Next]_vars => [Registry!Next]_<< leaves, papers >>
  <2> SUFFICES ASSUME TypeOK, [Next]_vars  PROVE [Registry!Next]_<< leaves, papers >>
    OBVIOUS
  <2>1. CASE Refused \/ ProofAccepted
    BY <2>1 DEF Refused, ProofAccepted
  <2>2. CASE LeafStored
    <3>1. PICK h \in Hash : LeafStored!(h)
      BY <2>2 DEF LeafStored
    <3>2. Registry!Record(h)
      BY <3>1 DEF Registry!Record
    <3>3. QED  BY <3>2 DEF Registry!Next
  <2>3. CASE PaperStored
    <3>1. PICK a \in Submission : PaperStored!(a)
      BY <2>3 DEF PaperStored
    <3>2. Registry!Publish(a)
      BY <3>1, OkFits DEF Registry!Publish, TitleKey, Inserted
    <3>3. QED  BY <3>2 DEF Registry!Next
  <2>4. QED  BY StepEffects, <2>1, <2>2, <2>3
<1>3. QED  BY <1>1, <1>2, TypeCorrect, PTL DEF Spec, ImplementsRegistry, Registry!Spec

-----------------------------------------------------------------------------
(* At every size of the tree the proof that a client makes for a stored    *)
(* leaf is accepted at that leaf's index.                                  *)
THEOREM HonestAccepted == Spec => []HonestProofsVerify
<1>1. ASSUME TypeOK  PROVE HonestProofsVerify
  <2>1. Len(leaves) \in Nat
    BY <1>1, LenProperties DEF TypeOK
  <2>2. ASSUME NEW i \in 1..Len(leaves)
        PROVE  IsValid(MerkleProof(leaves, i - 1), i - 1, LeafHash(leaves[i]))
    <3>1. i - 1 \in 0..(Len(leaves) - 1) /\ i - 1 + 1 = i
      BY <2>1
    <3>2. VerifyProof(MerkleRoot(leaves), MerkleProof(leaves, i - 1), Len(leaves), i - 1,
                      LeafHash(leaves[i - 1 + 1]))
      BY <2>1, <3>1, LeafAccepted
    <3> QED
      BY <3>1, <3>2 DEF IsValid
  <2> QED
    BY <2>2 DEF HonestProofsVerify
<1>2. QED  BY <1>1, TypeCorrect, PTL

(* A hash that is accepted as it is hashed in the tree is in storage,      *)
(* whatever hashes the proof is made up of and whatever index it is        *)
(* presented with.                                                         *)
NoProofForOthers ==
  \A proof : Len(proof) \in Nat =>
    \A i \in Nat, h \in Hash :
      IsValid(proof, i, LeafHash(h)) => \E k \in 1..Len(leaves) : leaves[k] = h

(* No proof that verify_proof accepts is one for a hash that add_leaf has  *)
(* not stored.                                                             *)
THEOREM OthersRefused == Spec => []NoProofForOthers
<1>1. ASSUME TypeOK  PROVE NoProofForOthers
  <2>1. Len(leaves) \in Nat
    BY <1>1, LenProperties DEF TypeOK
  <2>2. ASSUME NEW proof, Len(proof) \in Nat, NEW i \in Nat, NEW h,
               IsValid(proof, i, LeafHash(h))
        PROVE  \E k \in 1..Len(leaves) : leaves[k] = h
    <3>1. VerifyProof(MerkleRoot(leaves), proof, Len(leaves), i, LeafHash(h))
      BY <2>2 DEF IsValid
    <3> QED
      BY <2>1, <2>2, <3>1, AcceptedLeaf
  <2> QED
    BY <2>2 DEF NoProofForOthers
<1>2. QED  BY <1>1, TypeCorrect, PTL

(* In particular none of the proofs that were ever good for some leaf is.  *)
THEOREM MembersOnly == Spec => []OnlyMembersVerify
<1>1. ASSUME TypeOK, NoProofForOthers  PROVE OnlyMembersVerify
  <2>1. leaves \in Seq(Hash) /\ Len(leaves) \in Nat
    BY <1>1, LenProperties DEF TypeOK
  <2>2. ASSUME NEW proof \in Proofs  PROVE Len(proof) \in Nat
    <3>1. CASE proof = << >>
      BY <3>1
    <3>2. ASSUME NEW n \in 1..Len(leaves), NEW i \in 0..(n - 1),
                 proof = MerkleProof(SubSeq(leaves, 1, n), i)
          PROVE  Len(proof) \in Nat
      <4>1. n \in Nat /\ Len(SubSeq(leaves, 1, n)) = n
        BY <2>1, SubSeqProperties
      <4> QED
        BY <3>2, <4>1, LeafAccepted
    <3> QED
      BY <3>1, <3>2 DEF Proofs
  <2>3. 0..Len(leaves) \subseteq Nat
    BY <2>1
  <2> QED
    BY <1>1, <2>2, <2>3 DEF OnlyMembersVerify, NoProofForOthers
<1>2. QED  BY <1>1, TypeCorrect, OthersRefused, PTL

=============================================================================
