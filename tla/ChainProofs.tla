----------------------------- MODULE ChainProofs -----------------------------
(***************************************************************************)
(* Chain, for any nodes and authorities, any number of slots and any       *)
(* transactions.  The first part looks at chains as sequences only: what   *)
(* nodes know to be final never conflicts, and their best chains contain   *)
(* it.  The second follows the blocks from genesis on: every chain that    *)
(* was ever made can be executed, so that what is decided is a ledger.     *)
(* The third shows that few authorities never leave what is final.         *)
(***************************************************************************)
EXTENDS Chain, RuntimeProofs, TLAPS

(* A sequence, of whatever it is made of.                                  *)
IsChain(chain) == \E S : chain \in Seq(S)

(* Nodes know of chains that were made.                                    *)
Chains ==
  /\ \A chain \in made : IsChain(chain)
  /\ best \in [Node -> made] /\ final \in [Node -> made] /\ decided \in made

(* Finality goes from the decision to the nodes, and each node obeys it.   *)
Obeyed ==
  \A n \in Node : IsPrefix(final[n], best[n]) /\ IsPrefix(final[n], decided)

IInv == slot \in Nat /\ Chains /\ Obeyed

-----------------------------------------------------------------------------
(* A prefix is shorter, and agrees with the whole up to its end.           *)
LEMMA PrefixPoints ==
  ASSUME NEW s, NEW t, IsChain(s), IsChain(t)
  PROVE  IsPrefix(s, t) <=> /\ Len(s) <= Len(t)
                            /\ \A i \in 1..Len(s) : s[i] = t[i]
<1>1. PICK S : s \in Seq(S)
  BY DEF IsChain
<1>2. PICK T : t \in Seq(T)
  BY DEF IsChain
<1>3. Len(s) \in Nat /\ Len(t) \in Nat
  BY <1>1, <1>2
<1>4. SUFFICES ASSUME Len(s) <= Len(t)
               PROVE  SubSeq(s, 1, Len(s)) = SubSeq(t, 1, Len(s))
                        <=> \A i \in 1..Len(s) : s[i] = t[i]
  BY DEF IsPrefix
<1>5. SubSeq(s, 1, Len(s)) = [i \in 1..Len(s) |-> s[i]]
  BY <1>1, <1>3
<1>6. SubSeq(t, 1, Len(s)) = [i \in 1..Len(s) |-> t[i]]
  BY <1>2, <1>3, <1>4
<1> QED
  BY <1>5, <1>6

LEMMA PrefixReflexive == ASSUME NEW s, IsChain(s) PROVE IsPrefix(s, s)
<1> PICK S : s \in Seq(S)
  BY DEF IsChain
<1> QED
  BY PrefixPoints

LEMMA PrefixTransitive ==
  ASSUME NEW s, NEW t, NEW u, IsChain(s), IsChain(t), IsChain(u),
         IsPrefix(s, t), IsPrefix(t, u)
  PROVE  IsPrefix(s, u)
<1>1. Len(s) \in Nat /\ Len(t) \in Nat /\ Len(u) \in Nat
  BY DEF IsChain
<1>2. Len(s) <= Len(t) /\ Len(t) <= Len(u)
  BY PrefixPoints
<1>3. ASSUME NEW i \in 1..Len(s) PROVE s[i] = u[i]
  <2>1. i \in 1..Len(t)
    BY <1>1, <1>2
  <2>2. s[i] = t[i] /\ t[i] = u[i]
    BY <2>1, PrefixPoints
  <2> QED
    BY <2>2
<1> QED
  BY <1>1, <1>2, <1>3, PrefixPoints

(* Of two prefixes of one chain, one is a prefix of the other.             *)
LEMMA PrefixesAgree ==
  ASSUME NEW s, NEW t, NEW u, IsChain(s), IsChain(t), IsChain(u),
         IsPrefix(s, u), IsPrefix(t, u)
  PROVE  IsPrefix(s, t) \/ IsPrefix(t, s)
<1>1. Len(s) \in Nat /\ Len(t) \in Nat
  BY DEF IsChain
<1>2. /\ \A i \in 1..Len(s) : s[i] = u[i]
      /\ \A i \in 1..Len(t) : t[i] = u[i]
  BY PrefixPoints
<1>3. CASE Len(s) <= Len(t)
  <2>1. \A i \in 1..Len(s) : i \in 1..Len(t)
    BY <1>1, <1>3
  <2>2. \A i \in 1..Len(s) : s[i] = t[i]
    BY <1>2, <2>1
  <2> QED
    BY <1>3, <2>2, PrefixPoints
<1>4. CASE Len(t) <= Len(s)
  <2>1. \A i \in 1..Len(t) : i \in 1..Len(s)
    BY <1>1, <1>4
  <2>2. \A i \in 1..Len(t) : t[i] = s[i]
    BY <1>2, <2>1
  <2> QED
    BY <1>4, <2>2, PrefixPoints
<1> QED
  BY <1>1, <1>3, <1>4

(* A new block leaves the chain before it as it is.                        *)
LEMMA BlockExtends ==
  ASSUME NEW s, NEW b, IsChain(s)
  PROVE  IsChain(Append(s, b)) /\ IsPrefix(s, Append(s, b))
<1>1. PICK S : s \in Seq(S)
  BY DEF IsChain
<1>2. s \in Seq(S \cup {b})
  BY <1>1
<1>3. Append(s, b) \in Seq(S \cup {b})
  BY <1>2
<1>4. IsChain(Append(s, b))
  BY <1>3 DEF IsChain
<1>5. Len(s) <= Len(Append(s, b)) /\ \A i \in 1..Len(s) : s[i] = Append(s, b)[i]
  BY <1>2
<1> QED
  BY <1>4, <1>5, PrefixPoints

(* The author of a slot is one of the nodes.                               *)
LEMMA AuthorIsNode ==
  ASSUME NodeAssumption, NEW k \in Nat
  PROVE  Authority[(k % Len(Authority)) + 1] \in Node
<1>1. Authority \in Seq(Node) /\ Len(Authority) \in Nat \ {0}
  BY DEF NodeAssumption
<1>2. (k % Len(Authority)) + 1 \in 1..Len(Authority)
  BY <1>1
<1> QED
  BY <1>1, <1>2

-----------------------------------------------------------------------------
LEMMA InitInvariant == Init => IInv
<1> SUFFICES ASSUME Init PROVE IInv
  OBVIOUS
<1>1. IsChain(<< >>)
  BY DEF IsChain
<1>2. IsPrefix(<< >>, << >>)
  BY <1>1, PrefixReflexive
<1>3. Chains
  BY <1>1 DEF Init, Chains
<1>4. Obeyed
  BY <1>2 DEF Init, Obeyed
<1> QED
  BY <1>3, <1>4 DEF Init, IInv

(* A node takes another chain for the best one that contains what it knows *)
(* to be final.                                                            *)
LEMMA BestMoves ==
  ASSUME IInv, NEW n \in Node, NEW chain, SetBest(n, chain),
         chain \in made', IsChain(chain), IsPrefix(final[n], chain),
         made \subseteq made', \A c \in made' : IsChain(c),
         UNCHANGED << slot, final, decided >>
  PROVE  IInv'
<1>1. best' = [best EXCEPT ![n] = chain]
  BY DEF SetBest
<1>2. best' \in [Node -> made']
  BY <1>1 DEF IInv, Chains
<1>3. final' \in [Node -> made'] /\ decided' \in made'
  BY DEF IInv, Chains
<1>4. ASSUME NEW m \in Node PROVE IsPrefix(final[m], best'[m])
  BY <1>1 DEF IInv, Chains, Obeyed
<1> QED
  BY <1>2, <1>3, <1>4 DEF IInv, Chains, Obeyed

LEMMA ProposeStep ==
  ASSUME IInv, NodeAssumption, ProposeBlock
  PROVE  IInv'
<1> DEFINE n == SlotAuthor
<1> n \in Node
  BY AuthorIsNode DEF SlotAuthor, IInv
<1>1. PICK b : LET chain == Append(best[n], b)
               IN  made' = made \cup {chain} /\ SetBest(n, chain)
  BY DEF ProposeBlock
<1> DEFINE chain == Append(best[n], b)
<1>2. IsChain(best[n]) /\ IsChain(final[n])
  BY DEF IInv, Chains
<1>3. IsChain(chain) /\ IsPrefix(best[n], chain)
  BY <1>2, BlockExtends
<1>4. IsPrefix(final[n], chain)
  BY <1>2, <1>3, PrefixTransitive DEF IInv, Obeyed
<1>5. made \subseteq made' /\ chain \in made' /\ \A c \in made' : IsChain(c)
  BY <1>1, <1>3 DEF IInv, Chains
<1>6. UNCHANGED << slot, final, decided >>
  BY DEF ProposeBlock
<1>7. SetBest(n, chain)
  BY <1>1
<1> HIDE DEF n, chain
<1> QED
  BY <1>3, <1>4, <1>5, <1>6, <1>7, BestMoves

LEMMA ImportStep ==
  ASSUME IInv, NEW n \in Node, NEW chain \in made, ImportBlock(n, chain)
  PROVE  IInv'
<1>1. IsChain(chain) /\ chain \in made' /\ UNCHANGED << slot, final, decided, made >>
  BY DEF ImportBlock, IInv, Chains
<1>2. \A c \in made' : IsChain(c)
  BY <1>1 DEF IInv, Chains
<1>3. SetBest(n, chain) /\ IsPrefix(final[n], chain)
  BY DEF ImportBlock
<1> QED
  BY <1>1, <1>2, <1>3, BestMoves

LEMMA DecideStep ==
  ASSUME IInv, Decide
  PROVE  IInv'
<1>1. PICK chain \in made : IsPrefix(decided, chain) /\ decided' = chain
  BY DEF Decide
<1>2. UNCHANGED << slot, made, best, final >>
  BY DEF Decide
<1>3. ASSUME NEW n \in Node PROVE IsPrefix(final[n], chain)
  <2>1. IsChain(final[n]) /\ IsChain(decided) /\ IsChain(chain)
    BY DEF IInv, Chains
  <2> QED
    BY <2>1, <1>1, PrefixTransitive DEF IInv, Obeyed
<1> QED
  BY <1>1, <1>2, <1>3 DEF IInv, Chains, Obeyed

LEMMA JustificationStep ==
  ASSUME IInv, NEW n \in Node, ImportJustification(n)
  PROVE  IInv'
<1>1. final' = [final EXCEPT ![n] = decided] /\ UNCHANGED << slot, made, decided >>
  BY DEF ImportJustification
<1>2. PICK chain \in made : IsPrefix(decided, chain) /\ best' = [best EXCEPT ![n] = chain]
  <2>1. CASE IsPrefix(decided, best[n])
    <3>1. best' = [best EXCEPT ![n] = best[n]]
      BY <2>1 DEF ImportJustification, IInv, Chains
    <3> QED
      BY <2>1, <3>1 DEF IInv, Chains
  <2>2. CASE ~ IsPrefix(decided, best[n])
    BY <2>2 DEF ImportJustification, SetBest
  <2> QED
    BY <2>1, <2>2
<1>3. IsPrefix(decided, decided)
  BY PrefixReflexive DEF IInv, Chains
<1>4. Chains'
  BY <1>1, <1>2 DEF IInv, Chains
<1>5. ASSUME NEW m \in Node
      PROVE  IsPrefix(final'[m], best'[m]) /\ IsPrefix(final'[m], decided')
  <2>1. CASE m = n
    BY <1>1, <1>2, <1>3, <2>1 DEF IInv, Chains
  <2>2. CASE m # n
    BY <1>1, <1>2, <2>2 DEF IInv, Chains, Obeyed
  <2> QED
    BY <2>1, <2>2
<1> QED
  BY <1>1, <1>4, <1>5 DEF IInv, Obeyed

(* Pools and the clock have nothing to do with it.                         *)
LEMMA OtherSteps ==
  ASSUME IInv, slot' \in Nat, UNCHANGED << made, best, final, decided >>
  PROVE  IInv'
BY DEF IInv, Chains, Obeyed

LEMMA StepInvariant == NodeAssumption /\ IInv /\ [Next]_vars => IInv'
<1> SUFFICES ASSUME NodeAssumption, IInv, [Next]_vars
             PROVE  IInv'
  OBVIOUS
<1>0. slot \in Nat
  BY DEF IInv
<1>1. CASE Tick
  BY <1>0, <1>1, OtherSteps DEF Tick
<1>2. CASE ProposeBlock
  BY <1>2, ProposeStep
<1>3. CASE Decide
  BY <1>3, DecideStep
<1>4. ASSUME NEW n \in Node, NEW tx \in Tx, SubmitTransaction(n, tx)
      PROVE  IInv'
  BY <1>0, <1>4, OtherSteps DEF SubmitTransaction, Take, chainVars
<1>5. ASSUME NEW n \in Node, NEW m \in Gossip, NEW tx \in Tx, Propagate(n, m, tx)
      PROVE  IInv'
  BY <1>0, <1>5, OtherSteps DEF Propagate, Take, chainVars
<1>6. ASSUME NEW n \in Node, NEW chain \in made, ImportBlock(n, chain)
      PROVE  IInv'
  BY <1>6, ImportStep
<1>7. ASSUME NEW n \in Node, ImportJustification(n)
      PROVE  IInv'
  BY <1>7, JustificationStep
<1>8. ASSUME NEW n \in Node, Restart(n)
      PROVE  IInv'
  BY <1>0, <1>8, OtherSteps DEF Restart, chainVars
<1>9. ASSUME NEW n \in Node, NEW tx \in Tx, Drop(n, tx)
      PROVE  IInv'
  BY <1>0, <1>9, OtherSteps DEF Drop, chainVars
<1>10. ASSUME NEW n \in Node, MaintainPool(n)
       PROVE  IInv'
  BY <1>0, <1>10, OtherSteps DEF MaintainPool, chainVars
<1>11. CASE UNCHANGED vars
  BY <1>0, <1>11, OtherSteps DEF vars, chainVars
<1> QED
  BY <1>1, <1>2, <1>3, <1>4, <1>5, <1>6, <1>7, <1>8, <1>9, <1>10, <1>11 DEF Next

LEMMA InvariantImplies == IInv => BestExtendsFinal
<1> SUFFICES ASSUME IInv, NEW n \in Node, NEW m \in Node
             PROVE  /\ IsPrefix(final[n], best[n])
                    /\ IsPrefix(final[n], final[m]) \/ IsPrefix(final[m], final[n])
  BY DEF BestExtendsFinal
<1>1. IsChain(final[n]) /\ IsChain(final[m]) /\ IsChain(decided)
  BY DEF IInv, Chains
<1>2. IsPrefix(final[n], best[n]) /\ IsPrefix(final[n], decided) /\ IsPrefix(final[m], decided)
  BY DEF IInv, Obeyed
<1> QED
  BY <1>1, <1>2, PrefixesAgree

-----------------------------------------------------------------------------
(* Nodes hear of a prefix of what was decided, and their best chains       *)
(* contain it.                                                             *)
THEOREM Invariant == Spec => []IInv
<1>1. Init => IInv
  BY InitInvariant
<1>2. IInv /\ [Next]_vars => IInv'
  BY StepInvariant, NodeAssumption
<1> QED
  BY <1>1, <1>2, PTL DEF Spec

(* Two nodes never know conflicting blocks to be final, and none builds on *)
(* a fork of what it knows to be final: for any number of authorities,     *)
(* slots, transactions and forks (service.rs:65, 75-86).                   *)
THEOREM FinalityAgrees == Spec => []BestExtendsFinal
<1>1. IInv => BestExtendsFinal
  BY InvariantImplies
<1> QED
  BY <1>1, Invariant, PTL

-----------------------------------------------------------------------------
(* What FlattenSeq does, step by step: f[i] is the first i of some         *)
(* sequences, joined.                                                      *)
Joins(f, seqs, n) ==
  f = [i \in 1..n |-> IF i = 1 THEN seqs[i] ELSE f[i - 1] \o seqs[i]]

LEMMA JoinsAt ==
  ASSUME NEW f, NEW seqs, NEW n, Joins(f, seqs, n), NEW i \in 1..n
  PROVE  f[i] = IF i = 1 THEN seqs[i] ELSE f[i - 1] \o seqs[i]
<1> DEFINE at(j) == IF j = 1 THEN seqs[j] ELSE f[j - 1] \o seqs[j]
<1>1. f = [j \in 1..n |-> at(j)]
  BY DEF Joins
<1> HIDE DEF at
<1>2. f[i] = at(i)
  BY <1>1
<1> QED
  BY <1>2 DEF at

LEMMA JoinsExist ==
  ASSUME NEW seqs
  PROVE  \A n \in Nat : \E f : Joins(f, seqs, n)
<1> DEFINE T == {n \in Nat : \E f : Joins(f, seqs, n)}
<1>1. 0 \in T
  <2> DEFINE f == [i \in 1..0 |-> << >>]
  <2>1. Joins(f, seqs, 0)
    BY DEF Joins
  <2> HIDE DEF f
  <2> QED
    BY <2>1
<1>2. ASSUME NEW n \in Nat, n \in T  PROVE n + 1 \in T
  <2>1. PICK f : Joins(f, seqs, n)
    BY <1>2
  <2> DEFINE g == [i \in 1..(n + 1) |->
                    IF i <= n THEN f[i]
                    ELSE IF i = 1 THEN seqs[i] ELSE f[i - 1] \o seqs[i]]
  <2>2. ASSUME NEW i \in 1..(n + 1)
        PROVE  g[i] = IF i = 1 THEN seqs[i] ELSE g[i - 1] \o seqs[i]
    <3>1. CASE i <= n
      <4>1. g[i] = f[i] /\ (i # 1 => g[i - 1] = f[i - 1])
        BY <3>1
      <4>2. f[i] = IF i = 1 THEN seqs[i] ELSE f[i - 1] \o seqs[i]
        <5>1. i \in 1..n
          BY <3>1
        <5> QED
          BY <2>1, <5>1, JoinsAt
      <4> HIDE DEF g
      <4> QED
        BY <4>1, <4>2
    <3>2. CASE i = n + 1
      <4>1. /\ g[i] = IF i = 1 THEN seqs[i] ELSE f[i - 1] \o seqs[i]
            /\ i # 1 => g[i - 1] = f[i - 1]
        BY <3>2
      <4> HIDE DEF g
      <4> QED
        BY <4>1
    <3> QED
      BY <3>1, <3>2
  <2>3. Joins(g, seqs, n + 1)
    <3>1. g = [i \in 1..(n + 1) |-> g[i]]
      OBVIOUS
    <3> HIDE DEF g
    <3> QED
      BY <2>2, <3>1 DEF Joins
  <2> HIDE DEF g
  <2> QED
    BY <2>3
<1> HIDE DEF T
<1>3. \A n \in Nat : n \in T
  BY <1>1, <1>2, NatSetInduction
<1> QED
  BY <1>3 DEF T

LEMMA JoinsAgree ==
  ASSUME NEW seqs, NEW others, NEW n \in Nat, NEW f, Joins(f, seqs, n),
         NEW m \in Nat, n <= m, NEW g, Joins(g, others, m),
         \A i \in 1..n : seqs[i] = others[i]
  PROVE  \A i \in 1..n : f[i] = g[i]
<1> DEFINE T == {k \in Nat : k \in 1..n => f[k] = g[k]}
<1>1. 0 \in T
  OBVIOUS
<1>2. ASSUME NEW k \in Nat, k \in T  PROVE k + 1 \in T
  <2>1. SUFFICES ASSUME k + 1 <= n  PROVE f[k + 1] = g[k + 1]
    OBVIOUS
  <2>2. f[k + 1] = IF k = 0 THEN seqs[k + 1] ELSE f[k] \o seqs[k + 1]
    <3>1. k + 1 \in 1..n /\ (k + 1) - 1 = k /\ (k + 1 = 1 <=> k = 0)
      BY <2>1
    <3>2. f[k + 1] = IF k + 1 = 1 THEN seqs[k + 1] ELSE f[(k + 1) - 1] \o seqs[k + 1]
      BY <3>1, JoinsAt
    <3> QED
      BY <3>1, <3>2, Zenon
  <2>3. g[k + 1] = IF k = 0 THEN others[k + 1] ELSE g[k] \o others[k + 1]
    <3>1. k + 1 \in 1..m /\ (k + 1) - 1 = k /\ (k + 1 = 1 <=> k = 0)
      BY <2>1
    <3>2. g[k + 1] = IF k + 1 = 1 THEN others[k + 1] ELSE g[(k + 1) - 1] \o others[k + 1]
      BY <3>1, JoinsAt
    <3> QED
      BY <3>1, <3>2, Zenon
  <2>4. seqs[k + 1] = others[k + 1] /\ (k # 0 => f[k] = g[k])
    BY <1>2, <2>1
  <2> QED
    BY <2>2, <2>3, <2>4, Zenon
<1> HIDE DEF T
<1>3. \A k \in Nat : k \in T
  BY <1>1, <1>2, NatSetInduction
<1> QED
  BY <1>3 DEF T

LEMMA FlattenJoins ==
  ASSUME NEW S, NEW seqs \in Seq(S), seqs # << >>
  PROVE  \E f : Joins(f, seqs, Len(seqs)) /\ FlattenSeq(seqs) = f[Len(seqs)]
<1> DEFINE f == CHOOSE f : Joins(f, seqs, Len(seqs))
<1>1. Len(seqs) \in Nat /\ Len(seqs) # 0
  BY EmptySeq, LenProperties
<1>2. Joins(f, seqs, Len(seqs))
  <2>1. \E g : Joins(g, seqs, Len(seqs))
    BY <1>1, JoinsExist
  <2> QED
    BY <2>1
<1>3. FlattenSeq(seqs) = f[Len(seqs)]
  BY <1>1 DEF FlattenSeq, Joins
<1> HIDE DEF f
<1> QED
  BY <1>2, <1>3

LEMMA FlattenNone == FlattenSeq(<< >>) = << >>
BY DEF FlattenSeq

LEMMA FlattenLast ==
  ASSUME NEW S, NEW seqs \in Seq(Seq(S)), NEW s \in Seq(S)
  PROVE  FlattenSeq(Append(seqs, s)) = FlattenSeq(seqs) \o s
<1> DEFINE all == Append(seqs, s)
           n   == Len(seqs)
           m   == Len(all)
<1>1. /\ all \in Seq(Seq(S)) /\ all # << >> /\ n \in Nat /\ m \in Nat /\ m = n + 1
      /\ all[m] = s /\ \A i \in 1..n : seqs[i] = all[i]
  BY AppendProperties, LenProperties
<1> HIDE DEF all
<1>2. PICK g : Joins(g, all, m) /\ FlattenSeq(all) = g[m]
  BY <1>1, FlattenJoins
<1> HIDE DEF n, m
<1>3. g[m] = IF m = 1 THEN all[m] ELSE g[m - 1] \o all[m]
  <2>1. m \in 1..m
    BY <1>1
  <2> QED
    BY <1>2, <2>1, JoinsAt
<1>4. CASE seqs = << >>
  <2>1. n = 0
    BY <1>4 DEF n
  <2>2. FlattenSeq(all) = s
    BY <1>1, <1>2, <1>3, <2>1
  <2>3. << >> \o s = s
    BY ConcatEmptySeq
  <2> QED
    BY <1>4, <2>2, <2>3, FlattenNone, Zenon DEF all
<1>5. CASE seqs # << >>
  <2>1. n # 0 /\ n \in 1..n /\ m # 1 /\ m - 1 = n /\ n <= m
    <3>1. n # 0
      BY <1>5, EmptySeq DEF n
    <3> QED
      BY <1>1, <3>1
  <2>2. PICK f : Joins(f, seqs, n) /\ FlattenSeq(seqs) = f[n]
    BY <1>5, FlattenJoins DEF n
  <2>3. \A i \in 1..n : f[i] = g[i]
    <3>1. n \in Nat /\ m \in Nat /\ n <= m /\ \A i \in 1..n : seqs[i] = all[i]
      BY <1>1, <2>1
    <3>2. Joins(f, seqs, n) /\ Joins(g, all, m)
      BY <1>2, <2>2
    <3> QED
      BY <3>1, <3>2, JoinsAgree
  <2>4. FlattenSeq(all) = FlattenSeq(seqs) \o s
    BY <1>1, <1>2, <1>3, <2>1, <2>2, <2>3, Zenon
  <2> QED
    BY <1>5, <2>4, Zenon DEF all
<1> QED
  BY <1>4, <1>5

-----------------------------------------------------------------------------
(* The transactions of a chain are those of its blocks, one block after    *)
(* the other.                                                              *)
LEMMA TransactionsNone == Transactions(<< >>) = << >>
<1>1. [i \in 1..Len(<< >>) |-> << >>[i].txs] = << >>
  OBVIOUS
<1> QED
  BY <1>1, FlattenNone, Zenon DEF Transactions

LEMMA TransactionsGrow ==
  ASSUME NEW chain \in Seq(Block), NEW b \in Block
  PROVE  Transactions(Append(chain, b)) = Transactions(chain) \o b.txs
<1> DEFINE n      == Len(chain)
           longer == Append(chain, b)
           bodies == [i \in 1..n |-> chain[i].txs]
           all    == [i \in 1..Len(longer) |-> longer[i].txs]
<1>1. /\ n \in Nat /\ Len(longer) = n + 1 /\ longer[n + 1] = b
      /\ \A i \in 1..n : longer[i] = chain[i] /\ chain[i] \in Block
  BY AppendProperties, LenProperties, ElementOfSeq
<1>2. b.txs \in Seq(Tx) /\ \A i \in 1..n : chain[i].txs \in Seq(Tx)
  BY <1>1 DEF Block
<1> HIDE DEF n, longer
<1>3. bodies \in Seq(Seq(Tx)) /\ Len(bodies) = n /\ \A i \in 1..n : bodies[i] = chain[i].txs
  BY <1>1, <1>2
<1>4. /\ all \in Seq(Seq(Tx)) /\ Len(all) = n + 1
      /\ \A i \in 1..(n + 1) : all[i] = longer[i].txs
  BY <1>1, <1>2
<1> HIDE DEF bodies, all
<1>5. all = Append(bodies, b.txs)
  <2> DEFINE t == Append(bodies, b.txs)
  <2>1. /\ t \in Seq(Seq(Tx)) /\ Len(t) = n + 1
        /\ \A i \in 1..n : t[i] = bodies[i]
        /\ t[n + 1] = b.txs
    BY <1>2, <1>3, AppendProperties
  <2> HIDE DEF t
  <2>2. ASSUME NEW i \in 1..(n + 1)  PROVE all[i] = t[i]
    <3>1. i \in 1..n \/ i = n + 1
      BY <1>1
    <3> QED
      BY <1>1, <1>3, <1>4, <2>1, <3>1
  <2>3. all = t
    BY <1>4, <2>1, <2>2, SeqEqual
  <2> QED
    BY <2>3 DEF t
<1>6. FlattenSeq(all) = FlattenSeq(bodies) \o b.txs
  BY <1>2, <1>3, <1>5, FlattenLast
<1>7. Transactions(longer) = Transactions(chain) \o b.txs
  BY <1>6, Zenon DEF Transactions, bodies, all, n
<1> QED
  BY <1>7 DEF longer

LEMMA TransactionsType ==
  ASSUME NEW chain \in Seq(Block)
  PROVE  \A k \in 0..Len(chain) : Transactions(SubSeq(chain, 1, k)) \in Seq(Tx)
<1> DEFINE T == {k \in Nat : k <= Len(chain) => Transactions(SubSeq(chain, 1, k)) \in Seq(Tx)}
<1>1. 0 \in T
  <2>1. SubSeq(chain, 1, 0) = << >>
    BY FirstOnes
  <2>2. Transactions(SubSeq(chain, 1, 0)) = << >>
    BY <2>1, TransactionsNone, Zenon
  <2>3. Transactions(SubSeq(chain, 1, 0)) \in Seq(Tx)
    BY <2>2, EmptySeq, Zenon
  <2> QED
    BY <2>3, Zenon
<1>2. ASSUME NEW k \in Nat, k \in T  PROVE k + 1 \in T
  <2>1. SUFFICES ASSUME k + 1 <= Len(chain)
                 PROVE  Transactions(SubSeq(chain, 1, k + 1)) \in Seq(Tx)
    OBVIOUS
  <2>2. k \in 0..(Len(chain) - 1) /\ k \in 0..Len(chain) /\ k <= Len(chain)
    BY <2>1, LenProperties
  <2> DEFINE first == SubSeq(chain, 1, k)
             b     == chain[k + 1]
  <2>3. first \in Seq(Block) /\ b \in Block /\ SubSeq(chain, 1, k + 1) = Append(first, b)
    BY <2>2, FirstOnes
  <2>4. Transactions(first) \in Seq(Tx) /\ b.txs \in Seq(Tx)
    BY <1>2, <2>2, <2>3 DEF Block
  <2> HIDE DEF first, b
  <2>5. Transactions(Append(first, b)) = Transactions(first) \o b.txs
    BY <2>3, TransactionsGrow
  <2> QED
    BY <2>3, <2>4, <2>5, ConcatProperties
<1> HIDE DEF T
<1>3. \A k \in Nat : k \in T
  BY <1>1, <1>2, NatSetInduction
<1> QED
  BY <1>3 DEF T

(* A chain that begins with another has its transactions first.            *)
LEMMA TransactionsPrefix ==
  ASSUME NEW c \in Seq(Block), NEW d \in Seq(Block), IsPrefix(c, d)
  PROVE  IsPrefix(Transactions(c), Transactions(d))
<1> DEFINE upto(k) == Transactions(SubSeq(d, 1, k))
           T == {k \in Nat : Len(c) + k <= Len(d) => IsPrefix(Transactions(c), upto(Len(c) + k))}
<1>1. /\ Len(c) \in Nat /\ Len(d) \in Nat /\ Len(c) <= Len(d)
      /\ SubSeq(c, 1, Len(c)) = SubSeq(d, 1, Len(c))
  BY LenProperties DEF IsPrefix
<1>2. SubSeq(c, 1, Len(c)) = c /\ SubSeq(d, 1, Len(d)) = d
  BY FirstOnes
<1>3. Transactions(c) \in Seq(Tx) /\ \A k \in 0..Len(d) : upto(k) \in Seq(Tx)
  <2>1. Transactions(SubSeq(c, 1, Len(c))) \in Seq(Tx)
    BY <1>1, TransactionsType
  <2> QED
    BY <1>2, <2>1, TransactionsType
<1>4. 0 \in T
  <2>1. Len(c) + 0 = Len(c)
    BY <1>1
  <2>2. IsPrefix(Transactions(c), Transactions(c))
    BY <1>3, PrefixReflexive DEF IsChain
  <2>3. upto(Len(c)) = Transactions(c)
    BY <1>1, <1>2, Zenon
  <2> HIDE DEF upto
  <2> QED
    BY <2>1, <2>2, <2>3
<1>5. ASSUME NEW k \in Nat, k \in T  PROVE k + 1 \in T
  <2> DEFINE n == Len(c) + k
  <2>1. SUFFICES ASSUME n + 1 <= Len(d)
                 PROVE  IsPrefix(Transactions(c), upto(n + 1))
    BY <1>1
  <2>2. n \in 0..(Len(d) - 1) /\ n \in 0..Len(d) /\ n + 1 \in 0..Len(d) /\ n <= Len(d)
    BY <1>1, <2>1
  <2>3. IsPrefix(Transactions(c), upto(n))
    BY <1>5, <2>2
  <2> HIDE DEF n
  <2> DEFINE first == SubSeq(d, 1, n)
             b     == d[n + 1]
  <2>4. first \in Seq(Block) /\ b \in Block /\ SubSeq(d, 1, n + 1) = Append(first, b)
    BY <2>2, FirstOnes
  <2>5. b.txs \in Seq(Tx) /\ upto(n) \in Seq(Tx) /\ upto(n + 1) \in Seq(Tx)
    BY <1>3, <2>2, <2>4 DEF Block
  <2> HIDE DEF b
  <2>6. upto(n + 1) = upto(n) \o b.txs
    <3> HIDE DEF first
    <3>1. Transactions(Append(first, b)) = Transactions(first) \o b.txs
      BY <2>4, TransactionsGrow
    <3> QED
      BY <2>4, <3>1, Zenon DEF first
  <2> HIDE DEF upto
  <2>7. Len(upto(n)) <= Len(upto(n + 1))
        /\ \A i \in 1..Len(upto(n)) : upto(n)[i] = upto(n + 1)[i]
    BY <2>5, <2>6, ConcatProperties, LenProperties
  <2>8. IsPrefix(upto(n), upto(n + 1))
    BY <2>5, <2>7, PrefixPoints DEF IsChain
  <2> QED
    BY <1>3, <2>3, <2>5, <2>8, PrefixTransitive DEF IsChain
<1> HIDE DEF T
<1>6. \A k \in Nat : k \in T
  BY <1>4, <1>5, NatSetInduction
<1>7. Len(d) - Len(c) \in Nat /\ Len(c) + (Len(d) - Len(c)) = Len(d)
  BY <1>1
<1>8. IsPrefix(Transactions(c), upto(Len(c) + (Len(d) - Len(c))))
  <2> HIDE DEF upto
  <2>1. Len(c) + (Len(d) - Len(c)) <= Len(d)
    BY <1>1
  <2> QED
    BY <1>6, <1>7, <2>1 DEF T
<1>9. upto(Len(c) + (Len(d) - Len(c))) = Transactions(d)
  BY <1>2, <1>7, Zenon
<1> QED
  BY <1>8, <1>9, Zenon

-----------------------------------------------------------------------------
(* What is true of every chain that is made: its transactions are          *)
(* applicable from genesis on, and lead to the state that its last block   *)
(* carries.                                                                *)
Sound(chain) ==
  /\ chain \in Seq(Block)
  /\ Applicable(GenesisState, Transactions(chain))
  /\ StateAfter(chain) = ApplyAll(GenesisState, Transactions(chain))

LedgerInv == TypeOK /\ \A chain \in made : Sound(chain)

LEMMA StateIsStorage == State = Storage
BY DEF State, Storage, Numbers, Value, Leaves

LEMMA SoundState ==
  ASSUME NEW chain, Sound(chain)
  PROVE  /\ Transactions(chain) \in Seq(Tx)
         /\ StateAfter(chain) \in Storage /\ Dustless(StateAfter(chain))
<1>1. Transactions(chain) \in Seq(Tx)
  <2>1. chain \in Seq(Block) /\ Len(chain) \in 0..Len(chain)
    BY LenProperties DEF Sound
  <2>2. SubSeq(chain, 1, Len(chain)) = chain
    BY <2>1, FirstOnes
  <2>3. Transactions(SubSeq(chain, 1, Len(chain))) \in Seq(Tx)
    BY <2>1, TransactionsType
  <2> QED
    BY <2>2, <2>3
<1> DEFINE txs == Transactions(chain)
<1>2. SubSeq(txs, 1, Len(txs)) = txs /\ Len(txs) \in 0..Len(txs)
  BY <1>1, FirstOnes, LenProperties
<1>3. GenesisState \in Storage /\ Dustless(GenesisState)
  BY GenesisStorage
<1>4. Applicable(GenesisState, txs) /\ StateAfter(chain) = ApplyAll(GenesisState, txs)
  BY DEF Sound
<1> HIDE DEF txs
<1>5. /\ ApplyAll(GenesisState, SubSeq(txs, 1, Len(txs))) \in Storage
      /\ Dustless(ApplyAll(GenesisState, SubSeq(txs, 1, Len(txs))))
  BY <1>1, <1>2, <1>3, <1>4, AllKeep DEF txs
<1> QED
  BY <1>1, <1>2, <1>4, <1>5

LEMMA GenesisSound == Sound(<< >>)
<1>1. Transactions(<< >>) = << >> /\ StateAfter(<< >>) = GenesisState
  BY TransactionsNone DEF StateAfter
<1>2. << >> \in Seq(Block) /\ Applicable(GenesisState, << >>)
  BY DEF Applicable
<1>3. ApplyAll(GenesisState, << >>) = GenesisState
  BY ApplyNone
<1> QED
  BY <1>1, <1>2, <1>3 DEF Sound

(* A block of transactions that are applicable after a chain.              *)
LEMMA SoundExtends ==
  ASSUME NEW chain, Sound(chain), NEW txs \in Seq(Tx), Applicable(StateAfter(chain), txs),
         NEW k \in 1..MaxSlot
  PROVE  Sound(Append(chain, [slot |-> k, txs |-> txs, post |-> ApplyAll(StateAfter(chain), txs)]))
<1> DEFINE state  == StateAfter(chain)
           post   == ApplyAll(state, txs)
           b      == [slot |-> k, txs |-> txs, post |-> post]
           longer == Append(chain, b)
           before == Transactions(chain)
<1>1. /\ chain \in Seq(Block) /\ before \in Seq(Tx)
      /\ state \in Storage /\ Dustless(state)
      /\ Applicable(GenesisState, before) /\ state = ApplyAll(GenesisState, before)
  BY SoundState DEF Sound
<1>2. SubSeq(txs, 1, Len(txs)) = txs /\ Len(txs) \in 0..Len(txs)
  BY FirstOnes, LenProperties
<1>3. post \in Storage
  <2>1. ApplyAll(state, SubSeq(txs, 1, Len(txs))) \in Storage
    BY <1>1, <1>2, AllKeep
  <2> QED
    BY <1>2, <2>1
<1>4. b \in Block /\ b.txs = txs /\ b.post = post
  BY <1>3, StateIsStorage DEF Block
<1> HIDE DEF b, post, state, before
<1>5. longer \in Seq(Block) /\ longer # << >> /\ Last(longer) = b
  BY <1>1, <1>4, AppendProperties, LenProperties DEF Last
<1>6. StateAfter(longer) = post
  BY <1>4, <1>5 DEF StateAfter
<1>7. Transactions(longer) = before \o txs
  BY <1>1, <1>4, TransactionsGrow DEF before
<1>8. Applicable(GenesisState, before \o txs)
  BY <1>1, ApplicableBoth DEF state
<1>9. ApplyAll(GenesisState, before \o txs) = post
  BY <1>1, ApplyBoth DEF post
<1> HIDE DEF longer
<1>10. Sound(longer)
  BY <1>5, <1>6, <1>7, <1>8, <1>9 DEF Sound
<1> QED
  BY <1>10 DEF longer, b, post, state

-----------------------------------------------------------------------------
LEMMA IncludedTx == ASSUME NEW chain \in Seq(Block) PROVE Included(chain) \subseteq Tx
<1>1. ASSUME NEW i \in 1..Len(chain)  PROVE ToSet(chain[i].txs) \subseteq Tx
  <2>1. chain[i] \in Block
    BY ElementOfSeq
  <2>2. chain[i].txs \in Seq(Tx)
    BY <2>1 DEF Block
  <2> QED
    BY <2>2, ElementOfSeq, LenProperties DEF ToSet
<1> QED
  BY <1>1 DEF Included

(* A change of the best chain leaves the pools as they are and retracts    *)
(* transactions.                                                           *)
LEMMA PoolsStay ==
  ASSUME TypeOK, NEW n \in Node, NEW chain, SetBest(n, chain)
  PROVE  /\ best' = [best EXCEPT ![n] = chain]
         /\ pool' = pool /\ retracted' \in [Node -> SUBSET Tx]
<1>1. Included(best[n]) \subseteq Tx
  <2>1. best[n] \in Seq(Block)
    BY DEF TypeOK
  <2> QED
    BY <2>1, IncludedTx
<1>2. retracted' = [retracted EXCEPT ![n] = @ \cup (Included(best[n]) \ Included(chain))]
  BY DEF SetBest
<1>3. retracted' \in [Node -> SUBSET Tx]
  BY <1>1, <1>2 DEF TypeOK
<1> QED
  BY <1>3 DEF SetBest

LEMMA ProposeLedger ==
  ASSUME LedgerInv, NodeAssumption, BoundsAssumption, ProposeBlock
  PROVE  LedgerInv'
<1> DEFINE n     == SlotAuthor
           state == StateAfter(best[n])
<1>1. slot \in 0..MaxSlot /\ claimed \in 0..slot /\ MaxSlot \in Nat
  BY DEF LedgerInv, TypeOK, BoundsAssumption
<1>2. n \in Node
  <2>1. slot \in Nat
    BY <1>1
  <2> QED
    BY <2>1, AuthorIsNode DEF SlotAuthor
<1>3. Sound(best[n])
  BY <1>2 DEF LedgerInv, TypeOK
<1>4. PICK txs \in Proposals(pool[n], state) :
        LET chain == Append(best[n], [slot |-> slot, txs |-> txs, post |-> ApplyAll(state, txs)])
        IN  made' = made \cup {chain} /\ SetBest(n, chain)
  BY DEF ProposeBlock
<1> DEFINE chain == Append(best[n], [slot |-> slot, txs |-> txs, post |-> ApplyAll(state, txs)])
<1>5. slot \in 1..MaxSlot
  BY <1>1 DEF ProposeBlock
<1>6. txs \in Seq(Tx) /\ Applicable(state, txs)
  <2>1. PICK k \in 0..MaxBlockTx : txs \in [1..k -> pool[n]]
    BY DEF Proposals
  <2>2. pool[n] \subseteq Tx /\ k \in Nat
    BY <1>2 DEF LedgerInv, TypeOK, BoundsAssumption
  <2> QED
    BY <2>1, <2>2 DEF Proposals
<1>7. Sound(chain)
  BY <1>3, <1>5, <1>6, SoundExtends
<1>8. made' = made \cup {chain} /\ SetBest(n, chain)
  BY <1>4
<1>9. UNCHANGED << slot, final, decided >> /\ claimed' = slot
  BY DEF ProposeBlock
<1> HIDE DEF chain, n, state
<1>10. \A c \in made' : Sound(c)
  BY <1>7, <1>8 DEF LedgerInv
<1>11. /\ best' = [best EXCEPT ![n] = chain]
       /\ pool' \in [Node -> SUBSET Tx] /\ retracted' \in [Node -> SUBSET Tx]
  <2>1. TypeOK
    BY DEF LedgerInv
  <2>2. best' = [best EXCEPT ![n] = chain] /\ pool' = pool /\ retracted' \in [Node -> SUBSET Tx]
    BY <1>2, <1>8, <2>1, PoolsStay
  <2> QED
    BY <2>1, <2>2 DEF TypeOK
<1>12. best' \in [Node -> made'] /\ final' \in [Node -> made'] /\ decided' \in made'
  BY <1>8, <1>9, <1>11 DEF LedgerInv, TypeOK
<1>13. \A c \in made' : c \in Seq(Block)
  BY <1>10 DEF Sound
<1>14. slot' \in 0..MaxSlot /\ claimed' \in 0..slot'
  BY <1>1, <1>9
<1>15. TypeOK'
  BY <1>11, <1>12, <1>13, <1>14 DEF TypeOK
<1> QED
  BY <1>10, <1>15 DEF LedgerInv

(* The other actions make no chain.                                        *)
LEMMA OldChains ==
  ASSUME LedgerInv, UNCHANGED made, slot' \in 0..MaxSlot, claimed' \in 0..slot',
         best' \in [Node -> made], final' \in [Node -> made], decided' \in made,
         pool' \in [Node -> SUBSET Tx], retracted' \in [Node -> SUBSET Tx]
  PROVE  LedgerInv'
<1>1. TypeOK'
  BY DEF LedgerInv, TypeOK
<1> QED
  BY <1>1 DEF LedgerInv

LEMMA LedgerStep == NodeAssumption /\ BoundsAssumption /\ LedgerInv /\ [Next]_vars => LedgerInv'
<1> SUFFICES ASSUME NodeAssumption, BoundsAssumption, LedgerInv, [Next]_vars
             PROVE  LedgerInv'
  OBVIOUS
<1>0. /\ slot \in 0..MaxSlot /\ claimed \in 0..slot /\ MaxSlot \in Nat
      /\ best \in [Node -> made] /\ final \in [Node -> made] /\ decided \in made
      /\ pool \in [Node -> SUBSET Tx] /\ retracted \in [Node -> SUBSET Tx]
      /\ TypeOK
  BY DEF LedgerInv, TypeOK, BoundsAssumption
<1>1. CASE Tick
  <2>1. slot' \in 0..MaxSlot /\ claimed' \in 0..slot'
    BY <1>0, <1>1 DEF Tick
  <2> QED
    BY <1>0, <1>1, <2>1, OldChains DEF Tick
<1>2. CASE ProposeBlock
  BY <1>2, ProposeLedger
<1>3. CASE Decide
  BY <1>0, <1>3, OldChains DEF Decide
<1>4. ASSUME NEW n \in Node, NEW tx \in Tx, Take(n, tx)
      PROVE  LedgerInv'
  <2>1. pool' \in [Node -> SUBSET Tx]
    BY <1>0, <1>4 DEF Take
  <2> QED
    BY <1>0, <1>4, <2>1, OldChains DEF Take, chainVars
<1>5. ASSUME NEW m \in Gossip, NEW tx \in Tx, NEW n \in Node, Propagate(n, m, tx)
      PROVE  LedgerInv'
  BY <1>4, <1>5 DEF Propagate, NodeAssumption
<1>6. ASSUME NEW n \in Node, NEW chain \in made, ImportBlock(n, chain)
      PROVE  LedgerInv'
  <2>1. best' = [best EXCEPT ![n] = chain] /\ pool' = pool /\ retracted' \in [Node -> SUBSET Tx]
    BY <1>0, <1>6, PoolsStay DEF ImportBlock
  <2>2. best' \in [Node -> made]
    BY <1>0, <2>1
  <2> QED
    BY <1>0, <1>6, <2>1, <2>2, OldChains DEF ImportBlock
<1>7. ASSUME NEW n \in Node, ImportJustification(n)
      PROVE  LedgerInv'
  <2>1. final' \in [Node -> made]
    BY <1>0, <1>7 DEF ImportJustification
  <2>2. best' \in [Node -> made] /\ pool' = pool /\ retracted' \in [Node -> SUBSET Tx]
    <3>1. CASE UNCHANGED << best, pool, retracted >>
      BY <1>0, <3>1
    <3>2. ASSUME NEW chain \in made, SetBest(n, chain)
          PROVE  best' \in [Node -> made] /\ pool' = pool /\ retracted' \in [Node -> SUBSET Tx]
      BY <1>0, <3>2, PoolsStay
    <3> QED
      BY <1>7, <3>1, <3>2 DEF ImportJustification
  <2> QED
    BY <1>0, <1>7, <2>1, <2>2, OldChains DEF ImportJustification
<1>8. ASSUME NEW n \in Node, Restart(n)
      PROVE  LedgerInv'
  <2>1. pool' \in [Node -> SUBSET Tx] /\ retracted' \in [Node -> SUBSET Tx]
    BY <1>0, <1>8 DEF Restart
  <2> QED
    BY <1>0, <1>8, <2>1, OldChains DEF Restart, chainVars
<1>9. ASSUME NEW n \in Node, NEW tx \in Tx, Drop(n, tx)
      PROVE  LedgerInv'
  <2>1. pool' \in [Node -> SUBSET Tx]
    BY <1>0, <1>9 DEF Drop
  <2> QED
    BY <1>0, <1>9, <2>1, OldChains DEF Drop, chainVars
<1>10. ASSUME NEW n \in Node, MaintainPool(n)
       PROVE  LedgerInv'
  <2>1. PICK kept \in OneForEach({tx \in pool[n] \cup retracted[n] :
                                   tx.nonce >= StateAfter(best[n]).nonce[tx.signer]}) :
          pool' = [pool EXCEPT ![n] = kept]
    BY <1>10 DEF MaintainPool
  <2>2. kept \subseteq pool[n] \cup retracted[n]
    BY <2>1 DEF OneForEach
  <2>3. pool' \in [Node -> SUBSET Tx] /\ retracted' \in [Node -> SUBSET Tx]
    BY <1>0, <1>10, <2>1, <2>2 DEF MaintainPool
  <2> QED
    BY <1>0, <1>10, <2>3, OldChains DEF MaintainPool, chainVars
<1>11. CASE UNCHANGED vars
  BY <1>0, <1>11, OldChains DEF vars, chainVars
<1> QED
  BY <1>1, <1>2, <1>3, <1>4, <1>5, <1>6, <1>7, <1>8, <1>9, <1>10, <1>11
     DEF Next, SubmitTransaction

LEMMA LedgerInit == BoundsAssumption /\ Init => LedgerInv
<1> SUFFICES ASSUME BoundsAssumption, Init PROVE LedgerInv
  OBVIOUS
<1>1. \A chain \in made : Sound(chain)
  BY GenesisSound DEF Init
<1>2. \A chain \in made : chain \in Seq(Block)
  BY <1>1 DEF Sound
<1>3. TypeOK
  BY <1>2 DEF TypeOK, Init, BoundsAssumption
<1> QED
  BY <1>1, <1>3 DEF LedgerInv

-----------------------------------------------------------------------------
(* Every chain that was ever made is sound.                                *)
THEOREM LedgerInvariant == Spec => []LedgerInv
<1>1. LedgerInv /\ [Next]_vars => LedgerInv'
  BY LedgerStep, NodeAssumption, BoundsAssumption
<1>2. Init => LedgerInv
  BY LedgerInit, BoundsAssumption
<1> QED
  BY <1>1, <1>2, PTL DEF Spec

(* Chains are made of blocks with a state after them that fits into the    *)
(* runtime's storage, and pools hold transactions (runtime/src/lib.rs:     *)
(* 43-65).                                                                 *)
THEOREM TypeCorrect == Spec => []TypeOK
<1>1. LedgerInv => TypeOK
  BY DEF LedgerInv
<1> QED
  BY <1>1, LedgerInvariant, PTL

LEMMA SoundNonces ==
  ASSUME NEW chain, Sound(chain), NEW a \in Account
  PROVE  LET txs == Transactions(chain)
         IN  /\ \A i \in OwnFirst(txs, a, Len(txs)) :
                  txs[i].nonce = Cardinality(OwnFirst(txs, a, i - 1))
             /\ StateAfter(chain).nonce[a] = Cardinality(OwnFirst(txs, a, Len(txs)))
<1> DEFINE txs == Transactions(chain)
<1>1. /\ txs \in Seq(Tx) /\ Applicable(GenesisState, txs)
      /\ StateAfter(chain) = ApplyAll(GenesisState, txs)
  BY SoundState DEF Sound
<1> HIDE DEF txs
<1>2. Len(txs) \in Nat /\ Len(txs) \in 0..Len(txs) /\ SubSeq(txs, 1, Len(txs)) = txs
  BY <1>1, LenProperties, FirstOnes
<1>3. ASSUME NEW n \in 0..Len(txs)
      PROVE  AfterFirst(GenesisState, txs, n).nonce[a] = Cardinality(OwnFirst(txs, a, n))
  <2>1. /\ IsFiniteSet(OwnFirst(txs, a, n))
        /\ AfterFirst(GenesisState, txs, n).nonce[a]
             = GenesisState.nonce[a] + Cardinality(OwnFirst(txs, a, n))
    BY <1>1, GenesisStorage, NoncesPassed
  <2>2. Cardinality(OwnFirst(txs, a, n)) \in Nat
    BY <2>1, FS_CardinalityType
  <2> QED
    BY <2>1, <2>2, GenesisStorage
<1>4. StateAfter(chain).nonce[a] = Cardinality(OwnFirst(txs, a, Len(txs)))
  BY <1>1, <1>2, <1>3 DEF AfterFirst
<1>5. ASSUME NEW i \in OwnFirst(txs, a, Len(txs))
      PROVE  txs[i].nonce = Cardinality(OwnFirst(txs, a, i - 1))
  <2>1. i \in 1..Len(txs) /\ txs[i].signer = a /\ i - 1 \in 0..Len(txs)
    BY <1>2 DEF OwnFirst
  <2>2. txs[i].nonce = AfterFirst(GenesisState, txs, i - 1).nonce[a]
    BY <1>1, <2>1 DEF Applicable, PreDispatch, CheckNonce, AfterFirst
  <2> QED
    BY <1>3, <2>1, <2>2
<1> QED
  BY <1>4, <1>5 DEF txs

(* On every chain, for any transactions, slots and forks, the transactions *)
(* of an account are applied in the order of their nonces, none twice and  *)
(* none skipped (runtime/src/lib.rs:325).                                  *)
THEOREM NoncesOrdered == Spec => []NoncesInOrder
<1>1. LedgerInv => NoncesInOrder
  BY SoundNonces DEF LedgerInv, NoncesInOrder, OwnFirst
<1> QED
  BY <1>1, LedgerInvariant, PTL

-----------------------------------------------------------------------------
(* A sequence that begins with another is that one and what comes behind.  *)
LEMMA PrefixAndRest ==
  ASSUME NEW S, NEW s \in Seq(S), NEW t \in Seq(S), IsPrefix(s, t)
  PROVE  LET rest == SubSeq(t, Len(s) + 1, Len(t))
         IN  rest \in Seq(S) /\ t = s \o rest
<1> DEFINE rest == SubSeq(t, Len(s) + 1, Len(t))
<1>1. /\ Len(s) \in Nat /\ Len(t) \in Nat /\ Len(s) <= Len(t)
      /\ \A i \in 1..Len(s) : s[i] = t[i]
  BY PrefixPoints, LenProperties DEF IsChain
<1>2. rest \in Seq(S) /\ Len(rest) = Len(t) - Len(s)
      /\ \A i \in 1..(Len(t) - Len(s)) : rest[i] = t[Len(s) + i]
  <2> DEFINE n == Len(s)
             m == Len(t)
  <2>1. n \in Nat /\ m \in Nat /\ n <= m /\ \A i \in (n + 1)..m : t[i] \in S
    BY <1>1, ElementOfSeq
  <2>2. n + 1 \in Int /\ m \in Int
    BY <2>1
  <2> HIDE DEF n, m
  <2>3. /\ SubSeq(t, n + 1, m) \in Seq(S)
        /\ Len(SubSeq(t, n + 1, m)) = IF n + 1 <= m THEN m - (n + 1) + 1 ELSE 0
        /\ \A i \in 1..(m - (n + 1) + 1) : SubSeq(t, n + 1, m)[i] = t[n + 1 + i - 1]
    BY <2>1, <2>2, SubSeqProperties
  <2>4. m - (n + 1) + 1 = m - n /\ (~ (n + 1 <= m) => m - n = 0)
    BY <2>1
  <2>5. \A i \in 1..(m - n) : n + 1 + i - 1 = n + i
    BY <2>1
  <2>6. /\ SubSeq(t, n + 1, m) \in Seq(S) /\ Len(SubSeq(t, n + 1, m)) = m - n
        /\ \A i \in 1..(m - n) : SubSeq(t, n + 1, m)[i] = t[n + i]
    BY <2>3, <2>4, <2>5
  <2> QED
    BY <2>6 DEF n, m
<1> HIDE DEF rest
<1>3. s \o rest \in Seq(S) /\ Len(s \o rest) = Len(t)
      /\ \A i \in 1..Len(t) :
           (s \o rest)[i] = IF i <= Len(s) THEN s[i] ELSE rest[i - Len(s)]
  <2>1. Len(s) + (Len(t) - Len(s)) = Len(t)
    BY <1>1
  <2> QED
    BY <1>1, <1>2, <2>1, ConcatProperties
<1>4. ASSUME NEW i \in 1..Len(t)  PROVE t[i] = (s \o rest)[i]
  <2>1. CASE i <= Len(s)
    BY <1>1, <1>3, <2>1
  <2>2. CASE i > Len(s)
    <3>1. i - Len(s) \in 1..(Len(t) - Len(s)) /\ Len(s) + (i - Len(s)) = i
      BY <1>1, <2>2
    <3>2. rest[i - Len(s)] = t[i]
      BY <1>2, <3>1
    <3> QED
      BY <1>1, <1>3, <2>2, <3>2
  <2>3. i <= Len(s) \/ i > Len(s)
    BY <1>1
  <2> QED
    BY <2>1, <2>2, <2>3, Zenon
<1>5. t = s \o rest
  BY <1>3, <1>4, SeqEqual
<1> QED
  BY <1>2, <1>5 DEF rest

(* Deciding a longer chain settles the transactions of its new blocks, or  *)
(* leaves the ledger as it is when they are empty.                         *)
LEMMA DecideSettles ==
  ASSUME LedgerInv, Decide
  PROVE  [Ledger!SettleMore]_(<< Transactions(decided), StateAfter(decided) >>)
<1> DEFINE old   == Transactions(decided)
           new   == Transactions(decided')
           batch == SubSeq(new, Len(old) + 1, Len(new))
<1>1. PICK chain \in made : IsPrefix(decided, chain) /\ decided' = chain
  BY DEF Decide
<1>2. Sound(decided) /\ Sound(decided')
  BY <1>1 DEF LedgerInv, TypeOK
<1>3. decided \in Seq(Block) /\ decided' \in Seq(Block) /\ IsPrefix(decided, decided')
  BY <1>1, <1>2 DEF Sound
<1>4. /\ old \in Seq(Tx) /\ new \in Seq(Tx) /\ IsPrefix(old, new)
  BY <1>2, <1>3, SoundState, TransactionsPrefix
<1>5. /\ Applicable(GenesisState, new)
      /\ StateAfter(decided) = ApplyAll(GenesisState, old)
      /\ StateAfter(decided') = ApplyAll(GenesisState, new)
  BY <1>2 DEF Sound
<1>6. batch \in Seq(Tx) /\ new = old \o batch
  BY <1>4, PrefixAndRest
<1> HIDE DEF batch, old, new
<1>7. Applicable(StateAfter(decided), batch)
  BY <1>4, <1>5, <1>6, ApplicableAfter
<1>8. StateAfter(decided') = ApplyAll(StateAfter(decided), batch)
  BY <1>4, <1>5, <1>6, ApplyBoth
<1>9. CASE batch = << >>
  <2>1. new = old
    BY <1>4, <1>6, <1>9, ConcatProperties
  <2>2. StateAfter(decided') = StateAfter(decided)
    BY <1>5, <2>1
  <2> QED
    BY <2>1, <2>2 DEF old, new
<1>10. CASE batch # << >>
  <2>1. Ledger!Settle(batch)
    BY <1>6, <1>7, <1>8, <1>10 DEF Ledger!Settle, old, new
  <2> QED
    BY <2>1 DEF Ledger!SettleMore, batch, old, new
<1> QED
  BY <1>9, <1>10

(* What GRANDPA decides is a ledger: transactions are added at its end,    *)
(* each let through by the runtime in the state after those before it, and *)
(* none is ever taken back (runtime/src/lib.rs:318-328, service.rs:222-    *)
(* 313).                                                                   *)
THEOREM LedgerImplemented == Spec => ImplementsLedger
<1>1. Init => Ledger!Unsettled
  BY TransactionsNone DEF Init, StateAfter, Ledger!Unsettled
<1>2. LedgerInv /\ [Next]_vars
      => [Ledger!SettleMore]_(<< Transactions(decided), StateAfter(decided) >>)
  <2> SUFFICES ASSUME LedgerInv, [Next]_vars
               PROVE  [Ledger!SettleMore]_(<< Transactions(decided), StateAfter(decided) >>)
    OBVIOUS
  <2>1. CASE Decide
    BY <2>1, DecideSettles
  <2>2. CASE UNCHANGED decided
    BY <2>2 DEF StateAfter
  <2>3. Decide \/ UNCHANGED decided
    BY DEF Next, vars, chainVars, Tick, ProposeBlock, SubmitTransaction, Propagate, Take,
           Drop, MaintainPool, ImportBlock,
           ImportJustification, Restart
  <2> QED
    BY <2>1, <2>2, <2>3
<1> QED
  BY <1>1, <1>2, LedgerInvariant, PTL DEF Spec, ImplementsLedger, Ledger!Settling

-----------------------------------------------------------------------------
(* A chain that is longer than the best one of an authority is on the best *)
(* chain of an authority: no fork without an authority is ahead.           *)
Leads ==
  \A chain \in made, n \in ToSet(Authority) :
    \/ Len(chain) <= Len(best[n])
    \/ \E m \in ToSet(Authority) : IsPrefix(chain, best[m])

FewAuthorities == Len(Authority) <= 2

FollowInv == IInv /\ AuthoritiesKeepFinal /\ Leads

LEMMA AuthoritiesAreNodes == NodeAssumption => ToSet(Authority) \subseteq Node
<1> SUFFICES ASSUME NodeAssumption PROVE ToSet(Authority) \subseteq Node
  OBVIOUS
<1>1. Authority \in Seq(Node)
  BY DEF NodeAssumption
<1> QED
  BY <1>1, LenProperties, ElementOfSeq DEF ToSet

(* One authority, or two.                                                  *)
LEMMA AuthorityPair ==
  ASSUME NodeAssumption, FewAuthorities
  PROVE  \E a, b \in Node : /\ ToSet(Authority) = {a, b}
                            /\ (Len(Authority) = 1 /\ a = b) \/ Len(Authority) = 2
<1>1. Authority \in Seq(Node) /\ Len(Authority) \in Nat /\ Len(Authority) # 0
      /\ DOMAIN Authority = 1..Len(Authority)
  BY EmptySeq, LenProperties DEF NodeAssumption
<1>2. CASE Len(Authority) = 1
  <2>1. Authority[1] \in Node
    BY <1>1, <1>2
  <2>2. ToSet(Authority) = {Authority[1], Authority[1]}
    BY <1>1, <1>2 DEF ToSet
  <2> QED
    BY <1>2, <2>1, <2>2
<1>3. CASE Len(Authority) = 2
  <2>1. Authority[1] \in Node /\ Authority[2] \in Node
    BY <1>1, <1>3
  <2>2. ToSet(Authority) = {Authority[1], Authority[2]}
    <3>1. \A i : i \in DOMAIN Authority <=> i = 1 \/ i = 2
      BY <1>1, <1>3
    <3> QED
      BY <3>1 DEF ToSet
  <2> QED
    BY <1>3, <2>1, <2>2
<1> QED
  BY <1>1, <1>2, <1>3 DEF FewAuthorities

(* Both have to vote.                                                      *)
LEMMA AllVote ==
  ASSUME NodeAssumption, FewAuthorities, NEW Q \in Supermajority
  PROVE  Q = ToSet(Authority)
<1>1. PICK a, b \in Node : /\ ToSet(Authority) = {a, b}
                           /\ (Len(Authority) = 1 /\ a = b) \/ Len(Authority) = 2
  BY AuthorityPair
<1>2. Q \subseteq {a, b} /\ 3 * Cardinality(Q) > 2 * Len(Authority)
  BY <1>1 DEF Supermajority
<1>3. Q = {} \/ Q = {a} \/ Q = {b} \/ Q = {a, b}
  BY <1>2
<1>4. Q # {}
  <2>1. Cardinality({}) = 0
    BY FS_EmptySet
  <2>2. ~ (3 * 0 > 2 * Len(Authority))
    BY <1>1
  <2> QED
    BY <1>2, <2>1, <2>2
<1>5. CASE Q = {a} \/ Q = {b}
  <2>1. Cardinality(Q) = 1
    BY <1>5, FS_Singleton
  <2>2. Len(Authority) = 1
    BY <1>1, <1>2, <2>1
  <2> QED
    BY <1>1, <1>5, <2>2
<1> QED
  BY <1>1, <1>3, <1>4, <1>5

-----------------------------------------------------------------------------
(* An authority adds a block to its best chain.                            *)
LEMMA ProposeFollows ==
  ASSUME FollowInv, NodeAssumption, ProposeBlock
  PROVE  AuthoritiesKeepFinal' /\ Leads'
<1> DEFINE n == SlotAuthor
<1>1. n \in ToSet(Authority) /\ n \in Node /\ ToSet(Authority) \subseteq Node
  <2>1. slot \in Nat /\ Authority \in Seq(Node) /\ Len(Authority) \in Nat \ {0}
    BY DEF FollowInv, IInv, NodeAssumption
  <2>2. (slot % Len(Authority)) + 1 \in 1..Len(Authority)
    BY <2>1
  <2> QED
    BY <2>1, <2>2, AuthoritiesAreNodes, LenProperties DEF SlotAuthor, ToSet
<1>2. PICK b : LET chain == Append(best[n], b)
               IN  made' = made \cup {chain} /\ SetBest(n, chain)
  BY DEF ProposeBlock
<1> DEFINE chain == Append(best[n], b)
<1>3. /\ \A c \in made : IsChain(c)
      /\ \A m \in Node : IsChain(best[m])
      /\ IsChain(decided) /\ best \in [Node -> made]
  BY DEF FollowInv, IInv, Chains
<1>4. IsChain(chain) /\ IsPrefix(best[n], chain) /\ IsPrefix(chain, chain)
  BY <1>1, <1>3, BlockExtends, PrefixReflexive
<1>5. made' = made \cup {chain} /\ best' = [best EXCEPT ![n] = chain] /\ decided' = decided
  BY <1>2 DEF SetBest, ProposeBlock
<1> HIDE DEF n, chain
<1>6. ASSUME NEW m \in ToSet(Authority), NEW c, IsChain(c), IsPrefix(c, best[m])
      PROVE  IsPrefix(c, best'[m])
  <2>1. CASE m = n
    BY <1>1, <1>3, <1>4, <1>5, <1>6, <2>1, PrefixTransitive
  <2>2. CASE m # n
    BY <1>1, <1>3, <1>5, <1>6, <2>2
  <2> QED
    BY <2>1, <2>2
<1>7. AuthoritiesKeepFinal'
  <2>1. ASSUME NEW m \in ToSet(Authority) PROVE IsPrefix(decided, best'[m])
    BY <1>3, <1>6 DEF FollowInv, AuthoritiesKeepFinal
  <2> QED
    BY <1>5, <2>1 DEF AuthoritiesKeepFinal
<1>8. ASSUME NEW c \in made', NEW m \in ToSet(Authority)
      PROVE  \/ Len(c) <= Len(best'[m])
             \/ \E k \in ToSet(Authority) : IsPrefix(c, best'[k])
  <2>1. CASE c = chain
    <3>1. best'[n] = chain
      BY <1>1, <1>3, <1>5
    <3> QED
      BY <1>1, <1>4, <2>1, <3>1
  <2>2. CASE c \in made /\ Len(c) <= Len(best[m])
    <3>1. Len(best[m]) <= Len(best'[m])
      <4>1. CASE m = n
        BY <1>1, <1>3, <1>4, <1>5, <4>1, PrefixPoints
      <4>2. CASE m # n
        <5>1. best'[m] = best[m] /\ Len(best[m]) \in Nat
          BY <1>1, <1>3, <1>5, <4>2 DEF IsChain
        <5> QED
          BY <5>1
      <4> QED
        BY <4>1, <4>2
    <3>2. Len(c) \in Nat /\ Len(best[m]) \in Nat /\ Len(best'[m]) \in Nat
      <4>1. IsChain(c) /\ IsChain(best[m]) /\ IsChain(best'[m])
        BY <1>1, <1>3, <1>4, <1>5, <2>2
      <4> QED
        BY <4>1 DEF IsChain
    <3> QED
      BY <2>2, <3>1, <3>2
  <2>3. CASE c \in made /\ \E k \in ToSet(Authority) : IsPrefix(c, best[k])
    BY <1>3, <1>6, <2>3
  <2> QED
    BY <1>5, <2>1, <2>2, <2>3 DEF FollowInv, Leads
<1> QED
  BY <1>7, <1>8 DEF Leads

(* An authority that is behind takes what the other one has.               *)
LEMMA ImportFollows ==
  ASSUME FollowInv, NodeAssumption, FewAuthorities,
         NEW n \in Node, NEW chain \in made, ImportBlock(n, chain)
  PROVE  AuthoritiesKeepFinal' /\ Leads'
<1>1. /\ best' = [best EXCEPT ![n] = chain] /\ made' = made /\ decided' = decided
      /\ Len(chain) > Len(best[n])
  BY DEF ImportBlock, SetBest
<1>2. /\ \A c \in made : IsChain(c) /\ Len(c) \in Nat
      /\ best \in [Node -> made] /\ IsChain(decided) /\ Len(decided) \in Nat
  BY DEF FollowInv, IInv, Chains, IsChain
<1>3. ToSet(Authority) \subseteq Node
  BY AuthoritiesAreNodes
<1>4. CASE n \notin ToSet(Authority)
  <2>1. \A m \in ToSet(Authority) : best'[m] = best[m]
    BY <1>1, <1>2, <1>3, <1>4
  <2> QED
    BY <1>1, <2>1 DEF FollowInv, AuthoritiesKeepFinal, Leads
<1>5. CASE n \in ToSet(Authority)
  <2>1. PICK m \in ToSet(Authority) : IsPrefix(chain, best[m])
    BY <1>1, <1>2, <1>5 DEF FollowInv, Leads
  <2>2. Len(chain) <= Len(best[m]) /\ m # n /\ m \in Node
    BY <1>1, <1>2, <1>3, <2>1, PrefixPoints
  <2>3. \A k \in ToSet(Authority) : k = n \/ k = m
    BY <1>5, <2>2, AuthorityPair
  <2>4. best'[n] = chain /\ best'[m] = best[m]
    BY <1>1, <1>2, <2>2
  <2>5. IsPrefix(decided, chain)
    <3>1. IsPrefix(decided, best[n]) /\ IsPrefix(decided, best[m])
      BY <1>5 DEF FollowInv, AuthoritiesKeepFinal
    <3>2. Len(decided) <= Len(best[n]) /\ Len(best[n]) \in Nat
      BY <1>2, <3>1, PrefixPoints
    <3>3. IsPrefix(decided, chain) \/ IsPrefix(chain, decided)
      BY <1>2, <2>1, <2>2, <3>1, PrefixesAgree
    <3>4. IsPrefix(chain, decided) => Len(chain) <= Len(decided)
      BY <1>2, PrefixPoints
    <3> QED
      BY <1>1, <1>2, <3>2, <3>3, <3>4
  <2>6. AuthoritiesKeepFinal'
    BY <1>1, <2>3, <2>4, <2>5 DEF FollowInv, AuthoritiesKeepFinal
  <2>7. ASSUME NEW c \in made, NEW k \in ToSet(Authority)
        PROVE  \/ Len(c) <= Len(best'[k])
               \/ \E l \in ToSet(Authority) : IsPrefix(c, best'[l])
    <3>1. Len(c) \in Nat /\ Len(best[n]) \in Nat /\ Len(best[m]) \in Nat /\ Len(chain) \in Nat
      BY <1>2, <2>2
    <3>2. CASE Len(c) <= Len(best[n])
      BY <1>1, <2>2, <2>3, <2>4, <3>1, <3>2
    <3>3. CASE ~ (Len(c) <= Len(best[n]))
      <4>1. PICK l \in ToSet(Authority) : IsPrefix(c, best[l])
        BY <1>5, <3>3 DEF FollowInv, Leads
      <4>2. l # n
        BY <1>2, <3>3, <4>1, PrefixPoints
      <4> QED
        BY <2>3, <2>4, <4>1, <4>2
    <3> QED
      BY <3>2, <3>3
  <2> QED
    BY <1>1, <2>6, <2>7 DEF Leads
<1> QED
  BY <1>4, <1>5

LEMMA FollowStep ==
  NodeAssumption /\ FewAuthorities /\ FollowInv /\ IInv' /\ [Next]_vars => FollowInv'
<1> SUFFICES ASSUME NodeAssumption, FewAuthorities, FollowInv, [Next]_vars
             PROVE  AuthoritiesKeepFinal' /\ Leads'
  BY DEF FollowInv
<1>0. ToSet(Authority) \subseteq Node
  BY AuthoritiesAreNodes
<1>1. CASE UNCHANGED << made, best, decided >>
  BY <1>1 DEF FollowInv, AuthoritiesKeepFinal, Leads
<1>2. CASE ProposeBlock
  BY <1>2, ProposeFollows
<1>3. CASE Decide
  <2>1. PICK Q \in Supermajority, chain \in made :
          (\A n \in Q : IsPrefix(chain, best[n])) /\ decided' = chain
    BY <1>3 DEF Decide
  <2>2. \A n \in ToSet(Authority) : IsPrefix(chain, best[n])
    BY <2>1, AllVote
  <2>3. UNCHANGED << made, best >>
    BY <1>3 DEF Decide
  <2> QED
    BY <2>1, <2>2, <2>3 DEF FollowInv, AuthoritiesKeepFinal, Leads
<1>4. ASSUME NEW n \in Node, NEW chain \in made, ImportBlock(n, chain)
      PROVE  AuthoritiesKeepFinal' /\ Leads'
  BY <1>4, ImportFollows
<1>5. ASSUME NEW n \in Node, ImportJustification(n)
      PROVE  AuthoritiesKeepFinal' /\ Leads'
  <2>1. \A m \in ToSet(Authority) : best'[m] = best[m]
    <3>1. CASE UNCHANGED best
      BY <3>1
    <3>2. ASSUME NEW chain, ~ IsPrefix(decided, best[n]), SetBest(n, chain)
          PROVE  \A m \in ToSet(Authority) : best'[m] = best[m]
      <4>1. n \notin ToSet(Authority)
        BY <3>2 DEF FollowInv, AuthoritiesKeepFinal
      <4> QED
        BY <1>0, <3>2, <4>1 DEF SetBest, FollowInv, IInv, Chains
    <3> QED
      BY <1>5, <3>1, <3>2 DEF ImportJustification
  <2>2. UNCHANGED << made, decided >>
    BY <1>5 DEF ImportJustification
  <2> QED
    BY <2>1, <2>2 DEF FollowInv, AuthoritiesKeepFinal, Leads
<1> QED
  BY <1>1, <1>2, <1>3, <1>4, <1>5
     DEF Next, vars, chainVars, Tick, SubmitTransaction, Propagate, Take, Drop, MaintainPool,
         Restart

(* As long as there are one or two authorities, as in both configurations  *)
(* of chain_spec.rs, what is final was never taken off the best chain of   *)
(* any of them, also not before it knew (chain_spec.rs:71, service.rs:65,  *)
(* 270-313).                                                               *)
THEOREM AuthoritiesFollow == FewAuthorities => (Spec => []AuthoritiesKeepFinal)
<1> SUFFICES ASSUME FewAuthorities PROVE Spec => []AuthoritiesKeepFinal
  OBVIOUS
<1>1. Init => FollowInv
  <2> SUFFICES ASSUME Init PROVE FollowInv
    OBVIOUS
  <2>1. IsPrefix(<< >>, << >>)
    <3>1. IsChain(<< >>)
      BY DEF IsChain
    <3> QED
      BY <3>1, PrefixReflexive
  <2>2. ToSet(Authority) \subseteq Node
    BY AuthoritiesAreNodes, NodeAssumption
  <2>3. AuthoritiesKeepFinal /\ Leads
    BY <2>1, <2>2 DEF Init, AuthoritiesKeepFinal, Leads
  <2> QED
    BY <2>3, InitInvariant DEF FollowInv
<1>2. FollowInv /\ IInv' /\ [Next]_vars => FollowInv'
  BY FollowStep, NodeAssumption
<1>3. FollowInv => AuthoritiesKeepFinal
  BY DEF FollowInv
<1> QED
  BY <1>1, <1>2, <1>3, Invariant, PTL DEF Spec

=============================================================================
