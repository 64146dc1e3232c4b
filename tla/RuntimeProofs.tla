---------------------------- MODULE RuntimeProofs ----------------------------
(***************************************************************************)
(* What the state transition function does to a storage that is in order,  *)
(* one transaction and one block after the other.  Executive and Chain     *)
(* rest on it.                                                             *)
(*                                                                         *)
(* ApplyAll is a recursive function, so its laws need induction: a set of  *)
(* numbers takes the place of the induction hypothesis.                    *)
(***************************************************************************)
EXTENDS Runtime, SequenceTheorems, FiniteSetTheorems, WellFoundedInduction, TLAPS

(* A set with 0, and with n + 1 for each n in it, has all numbers.         *)
LEMMA NatSetInduction ==
  ASSUME NEW T, 0 \in T, \A n \in Nat : n \in T => n + 1 \in T
  PROVE  \A n \in Nat : n \in T
<1> DEFINE Below   == {ss \in Nat \X Nat : ss[1] < ss[2]}
           Missing == {n \in Nat : n \notin T}
<1>1. SUFFICES ASSUME Missing # {} PROVE FALSE
  OBVIOUS
<1>2. IsWellFoundedOn(Below, Nat)
  BY NatLessThanWellFounded DEF OpToRel
<1>3. PICK x \in Missing : \A y \in Missing : ~ (<< y, x >> \in Below)
  <2>1. Missing \subseteq Nat
    OBVIOUS
  <2> HIDE DEF Below, Missing
  <2> QED
    BY <1>1, <1>2, <2>1, WFMin, Zenon
<1>4. \A y \in Missing : ~ (y < x)
  BY <1>3
<1>5. x \in Nat /\ x # 0 /\ x - 1 \in Nat
  OBVIOUS
<1>6. x - 1 \in T
  <2>1. x - 1 \notin Missing
    BY <1>4, <1>5
  <2> QED
    BY <1>5, <2>1
<1> QED
  BY <1>5, <1>6

-----------------------------------------------------------------------------
(* f[i] is the state after the first i of some transactions.               *)
Runs(f, state, txs, n) ==
  f = [i \in 0..n |-> IF i = 0 THEN state ELSE ApplyExtrinsic(f[i - 1], txs[i])]

(* There are such states, up to any number of transactions.                *)
LEMMA RunsExist ==
  ASSUME NEW state, NEW txs
  PROVE  \A n \in Nat : \E f : Runs(f, state, txs, n)
<1> DEFINE T == {n \in Nat : \E f : Runs(f, state, txs, n)}
<1>1. 0 \in T
  <2> DEFINE f == [i \in 0..0 |-> state]
  <2>1. Runs(f, state, txs, 0)
    BY DEF Runs
  <2> HIDE DEF f
  <2> QED
    BY <2>1
<1>2. ASSUME NEW n \in Nat, n \in T  PROVE n + 1 \in T
  <2>1. PICK f : Runs(f, state, txs, n)
    BY <1>2
  <2> DEFINE g == [i \in 0..(n + 1) |-> IF i <= n THEN f[i]
                                        ELSE ApplyExtrinsic(f[n], txs[n + 1])]
  <2>2. ASSUME NEW i \in 0..(n + 1)
        PROVE  g[i] = IF i = 0 THEN state ELSE ApplyExtrinsic(g[i - 1], txs[i])
    <3>1. CASE i <= n
      BY <2>1, <3>1 DEF Runs
    <3>2. CASE i = n + 1
      BY <3>2
    <3> QED
      BY <3>1, <3>2
  <2>3. Runs(g, state, txs, n + 1)
    <3>1. g = [i \in 0..(n + 1) |-> g[i]]
      OBVIOUS
    <3> HIDE DEF g
    <3> QED
      BY <2>2, <3>1 DEF Runs
  <2> HIDE DEF g
  <2> QED
    BY <2>3
<1> HIDE DEF T
<1>3. \A n \in Nat : n \in T
  BY <1>1, <1>2, NatSetInduction
<1> QED
  BY <1>3 DEF T

(* Runs that begin with the same transactions agree on them.               *)
LEMMA RunsAgree ==
  ASSUME NEW state, NEW txs, NEW others, NEW n \in Nat, NEW m \in Nat, n <= m,
         NEW f, Runs(f, state, txs, n), NEW g, Runs(g, state, others, m),
         \A i \in 1..n : txs[i] = others[i]
  PROVE  \A i \in 0..n : f[i] = g[i]
<1> DEFINE T == {k \in Nat : k <= n => f[k] = g[k]}
<1>1. 0 \in T
  BY DEF Runs
<1>2. ASSUME NEW k \in Nat, k \in T  PROVE k + 1 \in T
  <2>1. SUFFICES ASSUME k + 1 <= n  PROVE f[k + 1] = g[k + 1]
    OBVIOUS
  <2>2. f[k] = g[k] /\ txs[k + 1] = others[k + 1]
    BY <1>2, <2>1
  <2>3. f[k + 1] = ApplyExtrinsic(f[k], txs[k + 1])
    BY <2>1 DEF Runs
  <2>4. g[k + 1] = ApplyExtrinsic(g[k], others[k + 1])
    BY <2>1 DEF Runs
  <2> QED
    BY <2>2, <2>3, <2>4
<1> HIDE DEF T
<1>3. \A k \in Nat : k \in T
  BY <1>1, <1>2, NatSetInduction
<1> QED
  BY <1>3 DEF T

LEMMA ApplyAllRuns ==
  ASSUME NEW state, NEW S, NEW txs \in Seq(S)
  PROVE  \E f : Runs(f, state, txs, Len(txs)) /\ ApplyAll(state, txs) = f[Len(txs)]
<1> DEFINE f == CHOOSE f : Runs(f, state, txs, Len(txs))
<1>1. \E g : Runs(g, state, txs, Len(txs))
  <2>1. Len(txs) \in Nat
    BY LenProperties
  <2> QED
    BY <2>1, RunsExist
<1>2. Runs(f, state, txs, Len(txs))
  BY <1>1
<1>3. ApplyAll(state, txs) = f[Len(txs)]
  BY DEF ApplyAll, Runs
<1> HIDE DEF f
<1> QED
  BY <1>2, <1>3

(* No transactions change nothing, and the last one is applied last.       *)
LEMMA ApplyNone == ASSUME NEW state PROVE ApplyAll(state, << >>) = state
<1>1. << >> \in Seq({}) /\ Len(<< >>) = 0
  OBVIOUS
<1>2. PICK f : Runs(f, state, << >>, 0) /\ ApplyAll(state, << >>) = f[0]
  BY <1>1, ApplyAllRuns
<1>3. f[0] = state
  BY <1>2 DEF Runs
<1> QED
  BY <1>2, <1>3

LEMMA ApplyLast ==
  ASSUME NEW state, NEW S, NEW txs \in Seq(S), NEW tx \in S
  PROVE  ApplyAll(state, Append(txs, tx)) = ApplyExtrinsic(ApplyAll(state, txs), tx)
<1> DEFINE all == Append(txs, tx)
           n   == Len(txs)
<1>1. /\ all \in Seq(S) /\ n \in Nat /\ Len(all) = n + 1
      /\ all[n + 1] = tx /\ \A i \in 1..n : txs[i] = all[i]
  BY AppendProperties
<1>2. PICK f : Runs(f, state, txs, n) /\ ApplyAll(state, txs) = f[n]
  BY ApplyAllRuns
<1>3. PICK g : Runs(g, state, all, n + 1) /\ ApplyAll(state, all) = g[n + 1]
  BY <1>1, ApplyAllRuns
<1> HIDE DEF all, n
<1>4. f[n] = g[n]
  <2>1. n + 1 \in Nat /\ n <= n + 1 /\ n \in 0..n
    BY <1>1
  <2>2. \A i \in 0..n : f[i] = g[i]
    BY <1>1, <1>2, <1>3, <2>1, RunsAgree
  <2> QED
    BY <2>1, <2>2
<1>5. g[n + 1] = ApplyExtrinsic(g[n], all[n + 1])
  BY <1>1, <1>3 DEF Runs
<1>6. ApplyAll(state, all) = ApplyExtrinsic(ApplyAll(state, txs), tx)
  BY <1>1, <1>2, <1>3, <1>4, <1>5
<1> QED
  BY <1>6 DEF all

(* The first n + 1 of some transactions are the first n and one more.      *)
LEMMA FirstOnes ==
  ASSUME NEW S, NEW txs \in Seq(S)
  PROVE  /\ SubSeq(txs, 1, 0) = << >> /\ SubSeq(txs, 1, Len(txs)) = txs
         /\ \A n \in 0..Len(txs) : SubSeq(txs, 1, n) \in Seq(S) /\ Len(SubSeq(txs, 1, n)) = n
         /\ \A n \in 0..(Len(txs) - 1) :
              txs[n + 1] \in S /\ SubSeq(txs, 1, n + 1) = Append(SubSeq(txs, 1, n), txs[n + 1])
<1>1. Len(txs) \in Nat /\ \A i \in 1..Len(txs) : txs[i] \in S
  BY LenProperties, ElementOfSeq
<1>2. ASSUME NEW n \in 0..Len(txs)
      PROVE  /\ SubSeq(txs, 1, n) \in Seq(S) /\ Len(SubSeq(txs, 1, n)) = n
             /\ \A i \in 1..n : SubSeq(txs, 1, n)[i] = txs[i]
  BY <1>1
<1>3. ASSUME NEW n \in 0..(Len(txs) - 1)
      PROVE  SubSeq(txs, 1, n + 1) = Append(SubSeq(txs, 1, n), txs[n + 1])
  <2> DEFINE t == SubSeq(txs, 1, n + 1)
             u == SubSeq(txs, 1, n)
             v == Append(u, txs[n + 1])
  <2>1. n \in 0..Len(txs) /\ n + 1 \in 0..Len(txs) /\ txs[n + 1] \in S
    BY <1>1
  <2>2. t \in Seq(S) /\ Len(t) = n + 1 /\ \A i \in 1..(n + 1) : t[i] = txs[i]
    BY <1>2, <2>1
  <2>3. u \in Seq(S) /\ Len(u) = n /\ \A i \in 1..n : u[i] = txs[i]
    BY <1>2, <2>1
  <2> HIDE DEF t, u
  <2>4. /\ v \in Seq(S) /\ Len(v) = n + 1
        /\ \A i \in 1..n : v[i] = u[i]
        /\ v[n + 1] = txs[n + 1]
    BY <2>1, <2>3, AppendProperties
  <2> HIDE DEF v
  <2>5. ASSUME NEW i \in 1..(n + 1)  PROVE t[i] = v[i]
    <3>1. i \in 1..n \/ i = n + 1
      OBVIOUS
    <3> QED
      BY <2>2, <2>3, <2>4, <3>1
  <2>6. t = v
    BY <2>2, <2>4, <2>5, SeqEqual
  <2> QED
    BY <2>6 DEF t, v, u
<1>4. SubSeq(txs, 1, 0) = << >>
  BY SubSeqEmpty
<1>5. SubSeq(txs, 1, Len(txs)) = txs
  BY SubSeqFull
<1>6. ASSUME NEW n \in 0..(Len(txs) - 1)  PROVE txs[n + 1] \in S
  BY <1>1
<1> QED
  BY <1>2, <1>3, <1>4, <1>5, <1>6

LEMMA ApplyNext ==
  ASSUME NEW state, NEW S, NEW txs \in Seq(S), NEW n \in 0..(Len(txs) - 1)
  PROVE  ApplyAll(state, SubSeq(txs, 1, n + 1))
           = ApplyExtrinsic(ApplyAll(state, SubSeq(txs, 1, n)), txs[n + 1])
<1> DEFINE first == SubSeq(txs, 1, n)
<1>1. n \in 0..Len(txs)
  BY LenProperties
<1>2. first \in Seq(S) /\ txs[n + 1] \in S
  BY <1>1, FirstOnes
<1>3. SubSeq(txs, 1, n + 1) = Append(first, txs[n + 1])
  BY FirstOnes
<1> HIDE DEF first
<1>4. ApplyAll(state, Append(first, txs[n + 1]))
        = ApplyExtrinsic(ApplyAll(state, first), txs[n + 1])
  BY <1>2, ApplyLast
<1> QED
  BY <1>3, <1>4 DEF first

(* Of two sequences of transactions, the second goes on where the first    *)
(* one has come to.                                                        *)
LEMMA ApplyOn ==
  ASSUME NEW state, NEW S, NEW t \in Seq(S), NEW u \in Seq(S)
  PROVE  \A k \in 0..Len(u) :
           ApplyAll(state, SubSeq(t \o u, 1, Len(t) + k))
             = ApplyAll(ApplyAll(state, t), SubSeq(u, 1, k))
<1> DEFINE all == t \o u
           T   == {k \in Nat : k <= Len(u) =>
                     ApplyAll(state, SubSeq(all, 1, Len(t) + k))
                       = ApplyAll(ApplyAll(state, t), SubSeq(u, 1, k))}
<1>1. /\ all \in Seq(S) /\ Len(t) \in Nat /\ Len(u) \in Nat /\ Len(all) = Len(t) + Len(u)
      /\ \A i \in 1..(Len(t) + Len(u)) : all[i] = IF i <= Len(t) THEN t[i] ELSE u[i - Len(t)]
  BY ConcatProperties, LenProperties
<1> HIDE DEF all
<1>2. 0 \in T
  <2>1. SubSeq(all, 1, Len(t)) = t
    BY <1>1
  <2>2. Len(t) + 0 = Len(t)
    BY <1>1
  <2>3. SubSeq(u, 1, 0) = << >>
    BY FirstOnes
  <2>4. ApplyAll(ApplyAll(state, t), << >>) = ApplyAll(state, t)
    BY ApplyNone
  <2> QED
    BY <2>1, <2>2, <2>3, <2>4
<1>3. ASSUME NEW k \in Nat, k \in T  PROVE k + 1 \in T
  <2>1. SUFFICES ASSUME k + 1 <= Len(u)
                 PROVE  ApplyAll(state, SubSeq(all, 1, Len(t) + (k + 1)))
                          = ApplyAll(ApplyAll(state, t), SubSeq(u, 1, k + 1))
    OBVIOUS
  <2> DEFINE n == Len(t) + k
  <2>2. /\ n \in 0..(Len(all) - 1) /\ k \in 0..(Len(u) - 1) /\ Len(t) + (k + 1) = n + 1
        /\ all[n + 1] = u[k + 1]
    BY <1>1, <2>1
  <2>3. ApplyAll(state, SubSeq(all, 1, n)) = ApplyAll(ApplyAll(state, t), SubSeq(u, 1, k))
    BY <1>1, <1>3, <2>1
  <2> HIDE DEF n
  <2>4. ApplyAll(state, SubSeq(all, 1, n + 1))
          = ApplyExtrinsic(ApplyAll(state, SubSeq(all, 1, n)), all[n + 1])
    BY <1>1, <2>2, ApplyNext
  <2>5. ApplyAll(ApplyAll(state, t), SubSeq(u, 1, k + 1))
          = ApplyExtrinsic(ApplyAll(ApplyAll(state, t), SubSeq(u, 1, k)), u[k + 1])
    BY <2>2, ApplyNext
  <2> QED
    BY <2>2, <2>3, <2>4, <2>5
<1> HIDE DEF T
<1>4. \A k \in Nat : k \in T
  BY <1>2, <1>3, NatSetInduction
<1> QED
  BY <1>1, <1>4 DEF T, all

LEMMA ApplyBoth ==
  ASSUME NEW state, NEW S, NEW t \in Seq(S), NEW u \in Seq(S)
  PROVE  ApplyAll(state, t \o u) = ApplyAll(ApplyAll(state, t), u)
<1>1. Len(u) \in Nat /\ t \o u \in Seq(S) /\ Len(t \o u) = Len(t) + Len(u)
  BY ConcatProperties, LenProperties
<1>2. SubSeq(t \o u, 1, Len(t) + Len(u)) = t \o u
  BY <1>1, FirstOnes
<1>3. SubSeq(u, 1, Len(u)) = u
  BY FirstOnes
<1>4. Len(u) \in 0..Len(u)
  BY <1>1
<1>5. ApplyAll(state, SubSeq(t \o u, 1, Len(t) + Len(u)))
        = ApplyAll(ApplyAll(state, t), SubSeq(u, 1, Len(u)))
  BY <1>4, ApplyOn
<1> QED
  BY <1>2, <1>3, <1>5

(* And it is applicable there.                                             *)
LEMMA ApplicableBoth ==
  ASSUME NEW state, NEW S, NEW t \in Seq(S), NEW u \in Seq(S),
         Applicable(state, t), Applicable(ApplyAll(state, t), u)
  PROVE  Applicable(state, t \o u)
<1> DEFINE all == t \o u
<1>1. /\ all \in Seq(S) /\ Len(t) \in Nat /\ Len(u) \in Nat /\ Len(all) = Len(t) + Len(u)
      /\ \A i \in 1..(Len(t) + Len(u)) : all[i] = IF i <= Len(t) THEN t[i] ELSE u[i - Len(t)]
  BY ConcatProperties, LenProperties
<1>2. \A k \in 0..Len(u) : ApplyAll(state, SubSeq(all, 1, Len(t) + k))
                              = ApplyAll(ApplyAll(state, t), SubSeq(u, 1, k))
  BY ApplyOn
<1> HIDE DEF all
<1>3. ASSUME NEW i \in 1..Len(all)
      PROVE  PreDispatch(ApplyAll(state, SubSeq(all, 1, i - 1)), all[i])
  <2>1. CASE i <= Len(t)
    <3>1. SubSeq(all, 1, i - 1) = SubSeq(t, 1, i - 1)
      BY <1>1, <2>1
    <3>2. all[i] = t[i] /\ i \in 1..Len(t)
      BY <1>1, <2>1
    <3> QED
      BY <3>1, <3>2 DEF Applicable
  <2>2. CASE i > Len(t)
    <3> DEFINE k == i - Len(t)
    <3>1. k \in 1..Len(u) /\ all[i] = u[k] /\ k - 1 \in 0..Len(u) /\ i - 1 = Len(t) + (k - 1)
      BY <1>1, <2>2
    <3> HIDE DEF k
    <3>2. PreDispatch(ApplyAll(ApplyAll(state, t), SubSeq(u, 1, k - 1)), u[k])
      BY <3>1 DEF Applicable
    <3> QED
      BY <1>2, <3>1, <3>2
  <2> QED
    BY <1>1, <2>1, <2>2
<1> QED
  BY <1>3 DEF Applicable, all

(* The other way round: what is applicable with others before it is so     *)
(* where they have come to.                                                *)
LEMMA ApplicableAfter ==
  ASSUME NEW state, NEW S, NEW t \in Seq(S), NEW u \in Seq(S), Applicable(state, t \o u)
  PROVE  Applicable(ApplyAll(state, t), u)
<1> DEFINE all == t \o u
<1>1. /\ Len(t) \in Nat /\ Len(u) \in Nat /\ Len(all) = Len(t) + Len(u)
      /\ \A i \in 1..(Len(t) + Len(u)) : all[i] = IF i <= Len(t) THEN t[i] ELSE u[i - Len(t)]
  BY ConcatProperties, LenProperties
<1>2. \A k \in 0..Len(u) : ApplyAll(state, SubSeq(all, 1, Len(t) + k))
                              = ApplyAll(ApplyAll(state, t), SubSeq(u, 1, k))
  BY ApplyOn
<1>3. \A i \in 1..Len(all) : PreDispatch(ApplyAll(state, SubSeq(all, 1, i - 1)), all[i])
  BY DEF Applicable
<1> HIDE DEF all
<1>4. ASSUME NEW k \in 1..Len(u)
      PROVE  PreDispatch(ApplyAll(ApplyAll(state, t), SubSeq(u, 1, k - 1)), u[k])
  <2>1. /\ k - 1 \in 0..Len(u) /\ Len(t) + k \in 1..Len(all)
        /\ Len(t) + k - 1 = Len(t) + (k - 1) /\ all[Len(t) + k] = u[k]
    BY <1>1
  <2>2. PreDispatch(ApplyAll(state, SubSeq(all, 1, Len(t) + (k - 1))), u[k])
    BY <1>3, <2>1
  <2> QED
    BY <1>2, <2>1, <2>2
<1> QED
  BY <1>4 DEF Applicable

-----------------------------------------------------------------------------
(* The storage of the runtime, with no account left with dust.             *)
Value == 0..MaxU32 \cup {NoValue}
Leaves == 0..MaxLeaves
Numbers == [Account -> Nat]

Storage == [nonce : Numbers, balance : Numbers, something : Value, leaves : Leaves]

Dustless(s) ==
  \A a \in Account : /\ s.balance[a] = 0 \/ s.balance[a] >= Existential
                     /\ s.nonce[a] > 0 => s.balance[a] >= Existential

(* The call of a transaction, and what sudo makes of one, is well formed.  *)
LEMMA TxCalls ==
  ASSUME NEW tx \in Tx
  PROVE  /\ tx.signer \in Account /\ tx.nonce \in Nat
         /\ WellFormed(tx.call) /\ tx.call.name \in CallName
         /\ Fee[tx.call.name] \in Nat
         /\ tx.call.name = "sudo" => WellFormed(tx.call.call) /\ tx.call.call.name # "sudo"
BY TxAssumption, NumbersAssumption DEF WellFormed

(* Taking nonce and fee leaves the signer's account alive.                 *)
LEMMA ChargedKeeps ==
  ASSUME NEW s \in Storage, NEW tx \in Tx, Dustless(s), PreDispatch(s, tx)
  PROVE  /\ Charged(s, tx) \in Storage /\ Dustless(Charged(s, tx))
         /\ Charged(s, tx).balance[tx.signer] >= Existential
         /\ Charged(s, tx).something = s.something
<1>1. /\ tx.signer \in Account /\ Fee[tx.call.name] \in Nat /\ Existential \in Nat
  BY TxCalls, NumbersAssumption
<1>2. s.balance[tx.signer] >= Fee[tx.call.name] + Existential
  BY DEF PreDispatch, ChargePayment
<1> DEFINE n == [s.nonce EXCEPT ![tx.signer] = @ + 1]
           b == [s.balance EXCEPT ![tx.signer] = @ - Fee[tx.call.name]]
<1>3. s.nonce \in Numbers /\ s.balance \in Numbers
  BY DEF Storage
<1>4. n \in Numbers /\ b \in Numbers
  BY <1>1, <1>2, <1>3 DEF Numbers
<1>5. b[tx.signer] >= Existential
  BY <1>1, <1>2, <1>3 DEF Numbers
<1>6. \A a \in Account : a # tx.signer => n[a] = s.nonce[a] /\ b[a] = s.balance[a]
  BY <1>3 DEF Numbers
<1>7. Charged(s, tx) = [s EXCEPT !.nonce = n, !.balance = b]
  BY DEF Charged, Storage
<1> HIDE DEF n, b
<1>8. /\ Charged(s, tx) \in Storage
      /\ Charged(s, tx).nonce = n /\ Charged(s, tx).balance = b
      /\ Charged(s, tx).something = s.something
  BY <1>4, <1>7 DEF Storage
<1>9. Dustless(Charged(s, tx))
  BY <1>1, <1>5, <1>6, <1>8 DEF Dustless
<1>10. QED  BY <1>5, <1>8, <1>9

(* A call keeps the storage in order, whoever its origin is.               *)
LEMMA CallKeeps ==
  ASSUME NEW s \in Storage, NEW origin \in Account \cup {"Root"}, NEW call,
         Dustless(s), WellFormed(call)
  PROVE  DispatchCall(s, origin, call) \in Storage /\ Dustless(DispatchCall(s, origin, call))
<1>1. /\ Existential \in Nat /\ MaxLeaves \in Nat /\ MaxU32 \in Nat /\ NoValue \notin Nat
      /\ "Root" \notin Account
  BY NumbersAssumption, RootAssumption
<1>2. CASE ~ Succeeds(s, origin, call)
  BY <1>2 DEF DispatchCall
<1>3. CASE Succeeds(s, origin, call) /\ call.name = "transfer_keep_alive"
  <2>1. /\ origin \in Account /\ call.dest \in Account /\ call.value \in Nat
        /\ TransferSucceeds(s, origin, call.dest, call.value)
    BY <1>1, <1>3 DEF Succeeds, EnsureSigned, WellFormed
  <2>2. DispatchCall(s, origin, call) = Transfer(s, origin, call.dest, call.value)
    BY <1>3 DEF DispatchCall, Effect
  <2> DEFINE sent == [s.balance EXCEPT ![origin] = @ - call.value]
             b    == [sent EXCEPT ![call.dest] = @ + call.value]
  <2>3. s.balance \in Numbers
    BY DEF Storage
  <2>4. b \in Numbers
    BY <1>1, <2>1, <2>3 DEF TransferSucceeds, Numbers
  <2>5. \A a \in Account : b[a] = s.balance[a] \/ b[a] >= Existential
    BY <1>1, <2>1, <2>3 DEF TransferSucceeds, Numbers
  <2>6. Transfer(s, origin, call.dest, call.value) = [s EXCEPT !.balance = b]
    BY DEF Transfer
  <2> HIDE DEF b
  <2>7. /\ [s EXCEPT !.balance = b] \in Storage
        /\ [s EXCEPT !.balance = b].nonce = s.nonce
        /\ [s EXCEPT !.balance = b].balance = b
    BY <2>4 DEF Storage
  <2>8. Dustless([s EXCEPT !.balance = b])
    BY <1>1, <2>3, <2>4, <2>5, <2>7 DEF Dustless, Numbers
  <2>9. QED  BY <2>2, <2>6, <2>7, <2>8
<1>4. CASE Succeeds(s, origin, call) /\ call.name = "do_something"
  <2>1. DispatchCall(s, origin, call) = [s EXCEPT !.something = call.something]
    BY <1>4 DEF DispatchCall, Effect, DoSomething
  <2>2. call.something \in Value
    BY <1>4 DEF WellFormed, Value
  <2>3. QED  BY <2>1, <2>2 DEF Storage, Dustless
<1>5. CASE Succeeds(s, origin, call) /\ call.name = "cause_error"
  <2>1. DispatchCall(s, origin, call) = [s EXCEPT !.something = @ + 1]
    BY <1>5 DEF DispatchCall, Effect, CauseError
  <2>2. s.something \in Value /\ s.something # NoValue /\ s.something < MaxU32
    BY <1>5 DEF Succeeds, CauseErrorSucceeds, Storage
  <2>3. s.something + 1 \in Value
    BY <1>1, <2>2 DEF Value
  <2>4. QED  BY <2>1, <2>3 DEF Storage, Dustless
<1>6. CASE Succeeds(s, origin, call) /\ call.name = "add_leaf"
  <2>1. DispatchCall(s, origin, call) = [s EXCEPT !.leaves = @ + 1]
    BY <1>6 DEF DispatchCall, Effect
  <2>2. s.leaves + 1 \in Leaves
    BY <1>1, <1>6 DEF Succeeds, AddLeafSucceeds, Storage, Leaves
  <2>3. QED  BY <2>1, <2>2 DEF Storage, Dustless
<1>7. CASE call.name \notin {"transfer_keep_alive", "do_something", "cause_error", "add_leaf"}
  BY <1>7 DEF DispatchCall, Effect
<1>8. QED  BY <1>2, <1>3, <1>4, <1>5, <1>6, <1>7

(* So does sudo, and a refund of the fee adds to an account that is alive. *)
LEMMA ApplyKeeps ==
  ASSUME NEW s \in Storage, NEW tx \in Tx, Dustless(s), PreDispatch(s, tx)
  PROVE  ApplyExtrinsic(s, tx) \in Storage /\ Dustless(ApplyExtrinsic(s, tx))
<1> DEFINE c     == Charged(s, tx)
           after == Dispatch(c, tx.signer, tx.call)
           back  == Fee[tx.call.name] - FeePaid(s, tx)
<1>1. c \in Storage /\ Dustless(c) /\ c.balance[tx.signer] >= Existential
  BY ChargedKeeps
<1>2. /\ tx.signer \in Account /\ WellFormed(tx.call) /\ Fee[tx.call.name] \in Nat
      /\ Existential \in Nat
      /\ tx.call.name = "sudo" => WellFormed(tx.call.call)
  BY TxCalls, NumbersAssumption
<1>3. after \in Storage /\ Dustless(after)
  <2>1. CASE tx.call.name = "sudo" /\ Succeeds(c, tx.signer, tx.call)
    BY <1>1, <1>2, <2>1, CallKeeps DEF Dispatch
  <2>2. CASE ~ (tx.call.name = "sudo" /\ Succeeds(c, tx.signer, tx.call))
    BY <1>1, <1>2, <2>2, CallKeeps DEF Dispatch
  <2>3. QED  BY <2>1, <2>2
<1>4. back = 0 \/ (tx.call.name = "sudo" /\ Succeeds(c, tx.signer, tx.call) /\ back \in Nat)
  BY <1>2 DEF FeePaid, ExtrinsicSuccess
<1>5. ApplyExtrinsic(s, tx) = [after EXCEPT !.balance[tx.signer] = @ + back]
  BY DEF ApplyExtrinsic
<1> HIDE DEF c, after, back
<1>6. back \in Nat
  BY <1>4
<1>7. after.balance \in Numbers
  BY <1>3 DEF Storage
<1> DEFINE b == [after.balance EXCEPT ![tx.signer] = @ + back]
<1>8. /\ b \in Numbers
      /\ b[tx.signer] = after.balance[tx.signer] + back
      /\ \A a \in Account : a # tx.signer => b[a] = after.balance[a]
  BY <1>2, <1>6, <1>7 DEF Numbers
<1>9. ApplyExtrinsic(s, tx) = [after EXCEPT !.balance = b]
  BY <1>3, <1>5 DEF Storage
<1> HIDE DEF b
<1>10. /\ ApplyExtrinsic(s, tx) \in Storage
       /\ ApplyExtrinsic(s, tx).nonce = after.nonce
       /\ ApplyExtrinsic(s, tx).balance = b
  BY <1>3, <1>8, <1>9 DEF Storage
<1>11. after.balance[tx.signer] >= Existential
  <2>1. c.nonce[tx.signer] > 0
    BY <1>2 DEF c, Charged, Storage, Numbers
  <2>2. after.nonce = c.nonce
    BY <1>1 DEF after, Dispatch, DispatchCall, Effect, Transfer, DoSomething, CauseError, Storage
  <2>3. QED  BY <1>2, <1>3, <2>1, <2>2 DEF Dustless
<1>12. b[tx.signer] >= Existential
  BY <1>2, <1>6, <1>7, <1>8, <1>11 DEF Numbers
<1>13. Dustless(ApplyExtrinsic(s, tx))
  BY <1>3, <1>8, <1>10, <1>12 DEF Dustless
<1>14. QED  BY <1>10, <1>13

(* What a transaction does to the value of pallet-template.                *)
LEMMA SomethingAfter ==
  ASSUME NEW s \in Storage, NEW tx \in Tx
  PROVE  LET new == ApplyExtrinsic(s, tx).something
             name == tx.call.name
         IN  /\ name = "do_something" => new = tx.call.something /\ new \in 0..MaxU32
             /\ name = "cause_error" /\ ExtrinsicSuccess(s, tx)
                  => s.something # NoValue /\ s.something < MaxU32 /\ new = s.something + 1
             /\ name # "do_something" /\ ~ (name = "cause_error" /\ ExtrinsicSuccess(s, tx))
                  => new = s.something
<1> DEFINE c     == Charged(s, tx)
           after == Dispatch(c, tx.signer, tx.call)
<1>1. /\ tx.signer \in Account /\ WellFormed(tx.call)
      /\ tx.call.name = "sudo" => tx.call.call.name # "sudo"
  BY TxCalls
<1>2. "Root" \notin Account
  BY RootAssumption
<1>3. c.something = s.something
  BY DEF Charged, Storage
<1>4. DOMAIN c = {"nonce", "balance", "something", "leaves"}
  BY DEF Charged, Storage
<1>5. ApplyExtrinsic(s, tx).something = after.something
  <2>1. ApplyExtrinsic(s, tx)
          = [after EXCEPT !.balance[tx.signer] = @ + (Fee[tx.call.name] - FeePaid(s, tx))]
    BY DEF ApplyExtrinsic
  <2> HIDE DEF after
  <2>2. QED  BY <2>1
<1> HIDE DEF c
<1>6. CASE tx.call.name = "sudo"
  <2>1. DispatchCall(c, "Root", tx.call.call).something = c.something
    BY <1>1, <1>2, <1>6 DEF DispatchCall, Succeeds, EnsureSigned, Effect
  <2>2. DispatchCall(c, tx.signer, tx.call).something = c.something
    BY <1>6 DEF DispatchCall, Effect
  <2>3. QED  BY <1>3, <1>5, <1>6, <2>1, <2>2 DEF Dispatch
<1>7. CASE tx.call.name # "sudo"
  <2>1. after = DispatchCall(c, tx.signer, tx.call)
    BY <1>7 DEF Dispatch
  <2>2. ExtrinsicSuccess(s, tx) = Succeeds(c, tx.signer, tx.call)
    BY DEF ExtrinsicSuccess, c
  <2>3. CASE tx.call.name = "do_something"
    BY <1>1, <1>4, <1>5, <2>1, <2>3
       DEF DispatchCall, Succeeds, EnsureSigned, Effect, DoSomething, WellFormed
  <2>4. CASE tx.call.name = "cause_error"
    BY <1>3, <1>4, <1>5, <2>1, <2>2, <2>4
       DEF DispatchCall, Succeeds, CauseErrorSucceeds, Effect, CauseError
  <2>5. CASE tx.call.name \notin {"do_something", "cause_error"}
    BY <1>3, <1>5, <2>1, <2>5 DEF DispatchCall, Effect, Transfer
  <2>6. QED  BY <2>3, <2>4, <2>5
<1>8. QED  BY <1>6, <1>7

(* A transaction takes one nonce, of its signer, whatever becomes of it.   *)
LEMMA NonceTaken ==
  ASSUME NEW s \in Storage, NEW tx \in Tx
  PROVE  ApplyExtrinsic(s, tx).nonce = [s.nonce EXCEPT ![tx.signer] = @ + 1]
<1> DEFINE c     == Charged(s, tx)
           after == Dispatch(c, tx.signer, tx.call)
<1>1. /\ c.nonce = [s.nonce EXCEPT ![tx.signer] = @ + 1]
      /\ DOMAIN c = {"nonce", "balance", "something", "leaves"}
  BY DEF Charged, Storage
<1> HIDE DEF c
<1>2. ASSUME NEW origin, NEW call  PROVE DispatchCall(c, origin, call).nonce = c.nonce
  BY <1>1 DEF DispatchCall, Effect, Transfer, DoSomething, CauseError
<1>3. after.nonce = c.nonce
  BY <1>2 DEF Dispatch
<1>4. ApplyExtrinsic(s, tx)
        = [after EXCEPT !.balance[tx.signer] = @ + (Fee[tx.call.name] - FeePaid(s, tx))]
  BY DEF ApplyExtrinsic, c
<1> HIDE DEF after
<1> QED
  BY <1>1, <1>3, <1>4

-----------------------------------------------------------------------------
(* A block of applicable transactions keeps the storage in order.          *)
LEMMA AllKeep ==
  ASSUME NEW s \in Storage, Dustless(s), NEW txs \in Seq(Tx), Applicable(s, txs)
  PROVE  \A n \in 0..Len(txs) : /\ ApplyAll(s, SubSeq(txs, 1, n)) \in Storage
                                /\ Dustless(ApplyAll(s, SubSeq(txs, 1, n)))
<1> DEFINE After(n) == ApplyAll(s, SubSeq(txs, 1, n))
           T == {n \in Nat : n <= Len(txs) => After(n) \in Storage /\ Dustless(After(n))}
<1>1. 0 \in T
  BY FirstOnes, ApplyNone
<1>2. ASSUME NEW n \in Nat, n \in T  PROVE n + 1 \in T
  <2>1. SUFFICES ASSUME n + 1 <= Len(txs)
                 PROVE  After(n + 1) \in Storage /\ Dustless(After(n + 1))
    OBVIOUS
  <2>2. n \in 0..(Len(txs) - 1) /\ n + 1 \in 1..Len(txs) /\ (n + 1) - 1 = n /\ n <= Len(txs)
    BY <2>1, LenProperties
  <2>3. After(n) \in Storage /\ Dustless(After(n))
    BY <1>2, <2>2
  <2>4. After(n + 1) = ApplyExtrinsic(After(n), txs[n + 1])
    BY <2>2, ApplyNext
  <2>5. PreDispatch(After(n), txs[n + 1]) /\ txs[n + 1] \in Tx
    BY <2>2, ElementOfSeq DEF Applicable
  <2> HIDE DEF After
  <2> QED
    BY <2>3, <2>4, <2>5, ApplyKeeps
<1> HIDE DEF T
<1>3. \A n \in Nat : n \in T
  BY <1>1, <1>2, NatSetInduction
<1> QED
  BY <1>3 DEF T

AfterFirst(s, txs, n) == ApplyAll(s, SubSeq(txs, 1, n))
OwnFirst(txs, a, n) == {i \in 1..n : txs[i].signer = a}

(* The nonce of an account counts its transactions.                        *)
LEMMA NoncesPassed ==
  ASSUME NEW s \in Storage, Dustless(s), NEW txs \in Seq(Tx), Applicable(s, txs),
         NEW a \in Account
  PROVE  \A n \in 0..Len(txs) :
           /\ IsFiniteSet(OwnFirst(txs, a, n))
           /\ AfterFirst(s, txs, n).nonce[a] = s.nonce[a] + Cardinality(OwnFirst(txs, a, n))
<1> DEFINE After(n) == AfterFirst(s, txs, n)
           Own(n) == OwnFirst(txs, a, n)
           Counted(n) ==
             /\ IsFiniteSet(Own(n)) /\ After(n).nonce[a] = s.nonce[a] + Cardinality(Own(n))
           T == {n \in Nat : n <= Len(txs) => Counted(n)}
<1>0. s.nonce[a] \in Nat
  BY DEF Storage, Numbers
<1> HIDE DEF Counted
<1>1. 0 \in T
  <2>1. After(0) = s
    BY FirstOnes, ApplyNone DEF AfterFirst
  <2>2. Own(0) = {}
    BY DEF OwnFirst
  <2>3. IsFiniteSet(Own(0)) /\ Cardinality(Own(0)) = 0
    BY <2>2, FS_EmptySet
  <2> HIDE DEF After, Own
  <2> QED
    BY <1>0, <2>1, <2>2, <2>3 DEF Counted
<1>2. ASSUME NEW n \in Nat, n \in T  PROVE n + 1 \in T
  <2>1. SUFFICES ASSUME n + 1 <= Len(txs)  PROVE Counted(n + 1)
    OBVIOUS
  <2> DEFINE tx == txs[n + 1]
  <2>2. /\ n \in 0..(Len(txs) - 1) /\ n + 1 \in 1..Len(txs) /\ (n + 1) - 1 = n
        /\ n \in 0..Len(txs) /\ n <= Len(txs)
    BY <2>1, LenProperties
  <2>3. After(n) \in Storage
    BY <2>2, AllKeep DEF AfterFirst
  <2>4. After(n + 1) = ApplyExtrinsic(After(n), tx)
    BY <2>2, ApplyNext DEF AfterFirst
  <2>5. PreDispatch(After(n), tx) /\ tx \in Tx
    BY <2>2, ElementOfSeq DEF Applicable, AfterFirst
  <2>6. /\ IsFiniteSet(Own(n)) /\ After(n).nonce[a] = s.nonce[a] + Cardinality(Own(n))
    <3>1. Counted(n)
      BY <1>2, <2>2
    <3> QED
      BY <3>1 DEF Counted
  <2>7. tx.signer \in Account
    BY <2>5, TxCalls
  <2> HIDE DEF After
  <2>8. After(n + 1).nonce = [After(n).nonce EXCEPT ![tx.signer] = @ + 1]
    BY <2>3, <2>4, <2>5, NonceTaken
  <2>9. After(n).nonce \in [Account -> Nat]
    BY <2>3 DEF Storage, Numbers
  <2>10. CASE tx.signer = a
    <3>1. Own(n + 1) = Own(n) \cup {n + 1} /\ n + 1 \notin Own(n)
      BY <2>10 DEF OwnFirst
    <3> HIDE DEF Own
    <3>2. IsFiniteSet(Own(n + 1)) /\ Cardinality(Own(n + 1)) = Cardinality(Own(n)) + 1
      BY <2>6, <3>1, FS_AddElement
    <3>3. Cardinality(Own(n)) \in Nat
      BY <2>6, FS_CardinalityType
    <3>4. After(n + 1).nonce[a] = After(n).nonce[a] + 1
      BY <2>7, <2>8, <2>9, <2>10
    <3>5. After(n + 1).nonce[a] = s.nonce[a] + Cardinality(Own(n + 1))
      <4>1. After(n).nonce[a] = s.nonce[a] + Cardinality(Own(n))
        BY <2>6
      <4> QED
        BY <1>0, <3>2, <3>3, <3>4, <4>1
    <3> QED
      BY <3>2, <3>5 DEF Counted
  <2>11. CASE tx.signer # a
    <3>1. Own(n + 1) = Own(n)
      BY <2>11 DEF OwnFirst
    <3>2. After(n + 1).nonce[a] = After(n).nonce[a]
      BY <2>7, <2>8, <2>9, <2>11
    <3> HIDE DEF Own
    <3> QED
      BY <2>6, <3>1, <3>2 DEF Counted
  <2> QED
    BY <2>10, <2>11
<1> HIDE DEF T
<1>3. \A n \in Nat : n \in T
  BY <1>1, <1>2, NatSetInduction
<1>4. ASSUME NEW n \in 0..Len(txs)  PROVE Counted(n)
  BY <1>3, LenProperties DEF T
<1> QED
  BY <1>4 DEF Counted

(* Nothing has happened at genesis.                                        *)
LEMMA GenesisStorage ==
  /\ GenesisState \in Storage /\ Dustless(GenesisState)
  /\ \A a \in Account : GenesisState.nonce[a] = 0
<1>1. GenesisState \in Storage
  BY NumbersAssumption DEF GenesisState, Storage, Numbers, Leaves, Value
<1>2. \A a \in Account : GenesisState.nonce[a] = 0 /\ GenesisState.balance[a] = Endowment[a]
  BY DEF GenesisState
<1>3. ASSUME NEW a \in Account
      PROVE  /\ GenesisState.balance[a] = 0 \/ GenesisState.balance[a] >= Existential
             /\ ~ (GenesisState.nonce[a] > 0)
  BY <1>2, EndowmentAssumption
<1>4. Dustless(GenesisState)
  BY <1>3, Zenon DEF Dustless
<1> QED
  BY <1>1, <1>2, <1>4

=============================================================================
