--------------------------- MODULE ExecutiveProofs ---------------------------
(***************************************************************************)
(* What Executive keeps on every chain, whatever the accounts, the fees    *)
(* and the transactions are.                                               *)
(***************************************************************************)
EXTENDS Executive, RuntimeProofs, TLAPS

(* The three invariants together are inductive: types need the balances to *)
(* stay above the fees, and the value its bound.                           *)
IInv == TypeOK /\ NoDust /\ SomethingReplayed

LEMMA TypesMean ==
  /\ TypeOK <=> state \in Storage /\ burnt \in Nat /\ bumps \in Nat /\ stored \in Value
  /\ NoDust <=> Dustless(state)
BY DEF TypeOK, NoDust, Storage, Dustless, Value, Leaves, Numbers

LEMMA GenesisInv == Init => IInv
<1> SUFFICES ASSUME Init  PROVE IInv
  OBVIOUS
<1>1. GenesisState \in Storage /\ Dustless(GenesisState)
  BY GenesisStorage
<1>2. TypeOK /\ NoDust
  BY <1>1, TypesMean DEF Init, Value
<1>3. SomethingReplayed
  BY DEF Init, GenesisState, SomethingReplayed
<1>4. QED  BY <1>2, <1>3 DEF IInv

LEMMA ExecuteInv ==
  ASSUME IInv, NEW tx \in Tx, Execute(tx)
  PROVE  IInv'
<1>1. state \in Storage /\ Dustless(state) /\ burnt \in Nat /\ bumps \in Nat /\ stored \in Value
  BY TypesMean DEF IInv
<1>2. PreDispatch(state, tx) /\ state' = ApplyExtrinsic(state, tx)
  BY DEF Execute
<1>3. state' \in Storage /\ Dustless(state')
  BY <1>1, <1>2, ApplyKeeps
<1>4. FeePaid(state, tx) \in Nat
  BY TxCalls DEF FeePaid
<1>5. MaxU32 \in Nat /\ NoValue \notin Nat
  BY NumbersAssumption
<1> DEFINE Replayed == SomethingReplayed' /\ bumps' \in Nat /\ stored' \in Value
<1>6. ASSUME tx.call.name = "do_something"  PROVE Replayed
  <2>1. /\ stored' = tx.call.something /\ bumps' = 0
        /\ state'.something = stored' /\ stored' \in 0..MaxU32
    BY <1>1, <1>2, <1>6, SomethingAfter DEF Execute
  <2>2. SomethingReplayed'
    BY <1>5, <2>1 DEF SomethingReplayed
  <2>3. bumps' \in Nat /\ stored' \in Value
    BY <2>1 DEF Value
  <2>4. QED  BY <2>2, <2>3
<1>7. ASSUME tx.call.name = "cause_error", ExtrinsicSuccess(state, tx)  PROVE Replayed
  <2>1. /\ stored' = stored /\ bumps' = bumps + 1
        /\ state.something # NoValue /\ state.something < MaxU32
        /\ state'.something = state.something + 1
    BY <1>1, <1>2, <1>7, SomethingAfter DEF Execute
  <2>2. stored # NoValue /\ state.something = stored + bumps
    BY <2>1 DEF IInv, SomethingReplayed
  <2>3. stored \in 0..MaxU32
    BY <1>1, <2>2 DEF Value
  <2>4. SomethingReplayed'
    BY <1>1, <1>5, <2>1, <2>2, <2>3 DEF SomethingReplayed
  <2>5. bumps' \in Nat /\ stored' \in Value
    BY <1>1, <2>1
  <2>6. QED  BY <2>4, <2>5
<1>8. ASSUME tx.call.name # "do_something",
             ~ (tx.call.name = "cause_error" /\ ExtrinsicSuccess(state, tx))
      PROVE  Replayed
  <2>1. /\ stored' = stored /\ bumps' = bumps
        /\ state'.something = state.something
    BY <1>1, <1>2, <1>8, SomethingAfter DEF Execute
  <2>2. SomethingReplayed'
    BY <2>1 DEF IInv, SomethingReplayed
  <2>3. QED  BY <1>1, <2>1, <2>2
<1>9. QED
  <2>1. Replayed
    BY <1>6, <1>7, <1>8
  <2>2. burnt' \in Nat
    BY <1>1, <1>4 DEF Execute
  <2>3. TypeOK' /\ NoDust'
    BY <1>3, <2>1, <2>2 DEF TypeOK, NoDust, Storage, Dustless, Value, Leaves, Numbers
  <2>4. QED  BY <2>1, <2>3 DEF IInv

THEOREM Invariant == Spec => []IInv
<1>1. IInv /\ [Next]_vars => IInv'
  <2> SUFFICES ASSUME IInv, [Next]_vars  PROVE IInv'
    OBVIOUS
  <2>1. CASE Next
    BY <2>1, ExecuteInv DEF Next
  <2>2. CASE UNCHANGED vars
    BY <2>2 DEF vars, IInv, TypeOK, NoDust, SomethingReplayed
  <2>3. QED  BY <2>1, <2>2
<1>2. QED  BY <1>1, GenesisInv, PTL DEF Spec

(* The storage keeps its types, the u32 and the bounded list included.     *)
THEOREM TypeCorrect == Spec => []TypeOK
<1>1. IInv => TypeOK
  BY DEF IInv
<1>2. QED  BY <1>1, Invariant, PTL

(* No fee, transfer or refund leaves an account with dust.                 *)
THEOREM DustFree == Spec => []NoDust
<1>1. IInv => NoDust
  BY DEF IInv
<1>2. QED  BY <1>1, Invariant, PTL

(* The value is that of the last event and the successful calls since.     *)
THEOREM ValueReplayed == Spec => []SomethingReplayed
<1>1. IInv => SomethingReplayed
  BY DEF IInv
<1>2. QED  BY <1>1, Invariant, PTL

-----------------------------------------------------------------------------
(* The sum of a function, as FundsConserved forms it: over the subsets of  *)
(* its domain, the chosen element of each on top of the rest.              *)
Total(f) == FoldFunction(+, 0, f)

Chosen(s) == CHOOSE x \in s : TRUE

(* The subsets of at most n elements.                                      *)
UpTo(A, n) == {s \in SUBSET A : Cardinality(s) <= n}

Sums(g, f, D) ==
  g = [s \in D |-> IF s = {} THEN 0 ELSE f[Chosen(s)] + g[s \ {Chosen(s)}]]

LEMMA SumsAt ==
  ASSUME NEW g, NEW f, NEW D, Sums(g, f, D), NEW s \in D
  PROVE  g[s] = IF s = {} THEN 0 ELSE f[Chosen(s)] + g[s \ {Chosen(s)}]
<1> DEFINE at(t) == IF t = {} THEN 0 ELSE f[Chosen(t)] + g[t \ {Chosen(t)}]
<1>1. g = [t \in D |-> at(t)]
  BY DEF Sums
<1> HIDE DEF at
<1>2. g[s] = at(s)
  BY <1>1
<1> QED
  BY <1>2 DEF at

(* Without its chosen element a set is smaller.                            *)
LEMMA ChosenLess ==
  ASSUME NEW A, IsFiniteSet(A), NEW s \in SUBSET A, s # {}
  PROVE  /\ Chosen(s) \in s /\ s \ {Chosen(s)} \in SUBSET A
         /\ Cardinality(s) \in Nat /\ Cardinality(s) # 0
         /\ Cardinality(s \ {Chosen(s)}) = Cardinality(s) - 1
<1>1. Chosen(s) \in s
  BY DEF Chosen
<1>2. IsFiniteSet(s) /\ Cardinality(s) \in Nat /\ Cardinality(s) # 0
  BY FS_Subset, FS_CardinalityType, FS_EmptySet
<1>3. Cardinality(s \ {Chosen(s)}) = Cardinality(s) - 1
  BY <1>1, <1>2, FS_RemoveElement
<1> QED
  BY <1>1, <1>2, <1>3

LEMMA SumsExist ==
  ASSUME NEW A, IsFiniteSet(A), NEW f
  PROVE  \A n \in Nat : \E g : Sums(g, f, UpTo(A, n))
<1> DEFINE T == {n \in Nat : \E g : Sums(g, f, UpTo(A, n))}
<1>1. 0 \in T
  <2> DEFINE g == [s \in UpTo(A, 0) |-> 0]
  <2>1. ASSUME NEW s \in UpTo(A, 0)  PROVE s = {}
    <3>1. IsFiniteSet(s)
      BY FS_Subset DEF UpTo
    <3>2. Cardinality(s) \in Nat /\ Cardinality(s) <= 0
      BY <3>1, FS_CardinalityType DEF UpTo
    <3> QED
      BY <3>1, <3>2, FS_EmptySet
  <2>2. Sums(g, f, UpTo(A, 0))
    BY <2>1 DEF Sums
  <2> HIDE DEF g
  <2> QED
    BY <2>2
<1>2. ASSUME NEW n \in Nat, n \in T  PROVE n + 1 \in T
  <2>1. PICK g : Sums(g, f, UpTo(A, n))
    BY <1>2
  <2> DEFINE next(s) == IF s = {} THEN 0 ELSE f[Chosen(s)] + g[s \ {Chosen(s)}]
             h       == [s \in UpTo(A, n + 1) |-> next(s)]
  <2>2. ASSUME NEW s \in UpTo(A, n)  PROVE s \in UpTo(A, n + 1) /\ h[s] = g[s]
    <3>1. s \in UpTo(A, n + 1)
      <4>1. Cardinality(s) \in Nat
        BY FS_Subset, FS_CardinalityType DEF UpTo
      <4> QED
        BY <4>1 DEF UpTo
    <3>2. h[s] = next(s)
      <4> HIDE DEF next
      <4> QED
        BY <3>1
    <3>3. g[s] = next(s)
      BY <2>1, SumsAt
    <3> QED
      BY <3>1, <3>2, <3>3
  <2>3. ASSUME NEW s \in UpTo(A, n + 1), s # {}  PROVE s \ {Chosen(s)} \in UpTo(A, n)
    <3>1. /\ s \in SUBSET A /\ Cardinality(s) <= n + 1
      BY DEF UpTo
    <3>2. /\ s \ {Chosen(s)} \in SUBSET A /\ Cardinality(s) \in Nat
          /\ Cardinality(s \ {Chosen(s)}) = Cardinality(s) - 1
      BY <2>3, <3>1, ChosenLess
    <3> QED
      BY <3>1, <3>2 DEF UpTo
  <2>4. ASSUME NEW s \in UpTo(A, n + 1)
        PROVE  next(s) = IF s = {} THEN 0 ELSE f[Chosen(s)] + h[s \ {Chosen(s)}]
    <3>1. CASE s = {}
      BY <3>1
    <3>2. CASE s # {}
      <4>1. h[s \ {Chosen(s)}] = g[s \ {Chosen(s)}]
        BY <2>2, <2>3, <3>2
      <4> HIDE DEF h
      <4> QED
        BY <3>2, <4>1
    <3> QED
      BY <3>1, <3>2
  <2>5. Sums(h, f, UpTo(A, n + 1))
    <3>1. h = [s \in UpTo(A, n + 1) |-> next(s)]
      OBVIOUS
    <3> HIDE DEF h
    <3>2. [s \in UpTo(A, n + 1) |-> next(s)]
            = [s \in UpTo(A, n + 1) |->
                IF s = {} THEN 0 ELSE f[Chosen(s)] + h[s \ {Chosen(s)}]]
      BY <2>4
    <3> QED
      BY <3>1, <3>2, Zenon DEF Sums
  <2> HIDE DEF h
  <2> QED
    BY <2>5
<1> HIDE DEF T
<1>3. \A n \in Nat : n \in T
  BY <1>1, <1>2, NatSetInduction
<1> QED
  BY <1>3 DEF T

LEMMA TotalSums ==
  ASSUME NEW A, IsFiniteSet(A), NEW f, DOMAIN f = A
  PROVE  \E g : Sums(g, f, SUBSET A) /\ Total(f) = g[A]
<1> DEFINE g == CHOOSE g : Sums(g, f, SUBSET A)
<1>1. SUBSET A = UpTo(A, Cardinality(A)) /\ Cardinality(A) \in Nat
  BY FS_Subset, FS_CardinalityType DEF UpTo
<1>2. Sums(g, f, SUBSET A)
  <2>1. \E h : Sums(h, f, UpTo(A, Cardinality(A)))
    <3>1. Cardinality(A) \in Nat
      BY <1>1
    <3> QED
      BY <3>1, SumsExist
  <2> QED
    BY <1>1, <2>1, Zenon
<1>3. Total(f) = g[A]
  BY DEF Total, FoldFunction, FoldFunctionOnSet, MapThenFoldSet, Sums, Chosen
<1> HIDE DEF g
<1> QED
  BY <1>2, <1>3

(* A change of a function at one point changes its sum by as much.         *)
LEMMA TotalChange ==
  ASSUME NEW A, IsFiniteSet(A), NEW f \in [A -> Int], NEW a \in A, NEW v \in Int
  PROVE  /\ Total(f) \in Int
         /\ Total([f EXCEPT ![a] = v]) = Total(f) + (v - f[a])
<1> DEFINE h     == [f EXCEPT ![a] = v]
           By(s) == IF a \in s THEN v - f[a] ELSE 0
<1>1. /\ DOMAIN f = A /\ DOMAIN h = A /\ h \in [A -> Int]
      /\ h[a] = v /\ \A x \in A : x # a => h[x] = f[x]
  OBVIOUS
<1>2. PICK F : Sums(F, f, SUBSET A) /\ Total(f) = F[A]
  BY <1>1, TotalSums
<1> HIDE DEF h
<1>3. PICK H : Sums(H, h, SUBSET A) /\ Total(h) = H[A]
  BY <1>1, TotalSums
<1> DEFINE D == SUBSET A
<1>4. Sums(F, f, D) /\ Sums(H, h, D) /\ \A s \in SUBSET A : s \in D
  BY <1>2, <1>3
<1> HIDE DEF D
<1> DEFINE Moved(s) == F[s] \in Int /\ H[s] = F[s] + By(s)
           T        == {n \in Nat : \A s \in UpTo(A, n) : Moved(s)}
<1>5. Moved({})
  <2>1. {} \in SUBSET A
    OBVIOUS
  <2>2. F[{}] = 0 /\ H[{}] = 0
    BY <1>4, <2>1, SumsAt
  <2> QED
    BY <2>2
<1>6. 0 \in T
  <2>1. ASSUME NEW s \in UpTo(A, 0)  PROVE s = {}
    <3>1. IsFiniteSet(s)
      BY FS_Subset DEF UpTo
    <3>2. Cardinality(s) \in Nat /\ Cardinality(s) <= 0
      BY <3>1, FS_CardinalityType DEF UpTo
    <3> QED
      BY <3>1, <3>2, FS_EmptySet
  <2> HIDE DEF Moved
  <2> QED
    BY <1>5, <2>1
<1>7. ASSUME NEW n \in Nat, n \in T  PROVE n + 1 \in T
  <2>1. ASSUME NEW s \in UpTo(A, n + 1), s # {}  PROVE Moved(s)
    <3> DEFINE x    == Chosen(s)
               rest == s \ {x}
    <3>1. s \in SUBSET A /\ Cardinality(s) <= n + 1
      BY DEF UpTo
    <3>2. /\ x \in s /\ rest \in SUBSET A /\ Cardinality(s) \in Nat
          /\ Cardinality(rest) = Cardinality(s) - 1
      BY <2>1, <3>1, ChosenLess
    <3>3. rest \in UpTo(A, n)
      BY <3>1, <3>2 DEF UpTo
    <3>4. Moved(rest)
      BY <1>7, <3>3
    <3>5. F[s] = f[x] + F[rest] /\ H[s] = h[x] + H[rest]
      <4>1. F[s] = IF s = {} THEN 0 ELSE f[Chosen(s)] + F[s \ {Chosen(s)}]
        BY <1>4, <3>1, SumsAt
      <4>2. H[s] = IF s = {} THEN 0 ELSE h[Chosen(s)] + H[s \ {Chosen(s)}]
        BY <1>4, <3>1, SumsAt
      <4> QED
        BY <2>1, <4>1, <4>2, Zenon
    <3>6. x \in A /\ f[x] \in Int /\ f[a] \in Int
      BY <3>1, <3>2
    <3>7. a \in rest <=> a \in s /\ a # x
      BY <3>2
    <3> HIDE DEF x, rest
    <3>8. CASE x = a
      BY <1>1, <3>2, <3>4, <3>5, <3>6, <3>7, <3>8
    <3>9. CASE x # a
      BY <1>1, <3>4, <3>5, <3>6, <3>7, <3>9
    <3> QED
      BY <3>8, <3>9
  <2> HIDE DEF Moved
  <2>2. \A s \in UpTo(A, n + 1) : Moved(s)
    BY <1>5, <2>1
  <2> QED
    BY <2>2
<1> HIDE DEF T
<1>8. \A n \in Nat : n \in T
  BY <1>6, <1>7, NatSetInduction
<1>9. Moved(A)
  <2>1. Cardinality(A) \in Nat
    BY FS_CardinalityType
  <2>2. A \in UpTo(A, Cardinality(A))
    BY <2>1 DEF UpTo
  <2> HIDE DEF Moved
  <2> QED
    BY <1>8, <2>1, <2>2 DEF T
<1> QED
  BY <1>2, <1>3, <1>9 DEF h

-----------------------------------------------------------------------------
LEMMA TotalKept ==
  ASSUME NEW b \in Numbers, NEW a \in Account, NEW v \in Int
  PROVE  /\ Total(b) \in Int
         /\ Total([b EXCEPT ![a] = @ + v]) = Total(b) + v
<1>1. b \in [Account -> Int] /\ b[a] \in Int
  BY DEF Numbers
<1>2. b[a] + v \in Int /\ (b[a] + v) - b[a] = v
  BY <1>1
<1>3. /\ Total(b) \in Int
      /\ Total([b EXCEPT ![a] = b[a] + v]) = Total(b) + ((b[a] + v) - b[a])
  BY <1>1, <1>2, AccountAssumption, TotalChange
<1> QED
  BY <1>2, <1>3

(* No call changes the sum of the balances.                                *)
LEMMA CallConserves ==
  ASSUME NEW s \in Storage, NEW origin \in Account \cup {"Root"}, NEW call,
         Dustless(s), WellFormed(call)
  PROVE  Total(DispatchCall(s, origin, call).balance) = Total(s.balance)
<1>1. CASE Succeeds(s, origin, call) /\ call.name = "transfer_keep_alive"
  <2> DEFINE sent == [s.balance EXCEPT ![origin] = @ + (-call.value)]
             b    == [sent EXCEPT ![call.dest] = @ + call.value]
  <2>1. /\ origin \in Account /\ call.dest \in Account /\ call.value \in Nat
        /\ call.value > 0 => s.balance[origin] >= call.value + Existential
    BY <1>1, RootAssumption DEF Succeeds, EnsureSigned, WellFormed, TransferSucceeds
  <2>2. s.balance \in Numbers /\ Existential \in Nat
    BY NumbersAssumption DEF Storage
  <2>3. sent \in Numbers
    BY <2>1, <2>2 DEF Numbers
  <2>4. DispatchCall(s, origin, call).balance = b
    <3>1. DispatchCall(s, origin, call) = Transfer(s, origin, call.dest, call.value)
      BY <1>1 DEF DispatchCall, Effect
    <3>2. s.balance[origin] - call.value = s.balance[origin] + (-call.value)
      BY <2>1, <2>2 DEF Numbers
    <3>3. [s.balance EXCEPT ![origin] = @ - call.value] = sent
      BY <3>2
    <3>4. Transfer(s, origin, call.dest, call.value) = [s EXCEPT !.balance = b]
      BY <3>3 DEF Transfer
    <3> HIDE DEF b
    <3> QED
      BY <3>1, <3>4 DEF Storage
  <2>5. Total(sent) = Total(s.balance) + (-call.value) /\ Total(s.balance) \in Int
    <3>1. -call.value \in Int /\ origin \in Account /\ s.balance \in Numbers
      BY <2>1, <2>2
    <3> QED
      BY <3>1, TotalKept
  <2> HIDE DEF sent
  <2>6. Total(b) = Total(sent) + call.value
    BY <2>1, <2>3, TotalKept
  <2> QED
    BY <2>1, <2>4, <2>5, <2>6
<1>2. CASE ~ (Succeeds(s, origin, call) /\ call.name = "transfer_keep_alive")
  <2>1. DispatchCall(s, origin, call).balance = s.balance
    BY <1>2 DEF DispatchCall, Effect, DoSomething, CauseError, Storage
  <2> QED
    BY <2>1
<1> QED
  BY <1>1, <1>2

(* What the accounts lose by a transaction is the fee that is paid.        *)
LEMMA ExtrinsicConserves ==
  ASSUME NEW s \in Storage, NEW tx \in Tx, Dustless(s), PreDispatch(s, tx)
  PROVE  /\ Total(s.balance) \in Int /\ FeePaid(s, tx) \in Nat
         /\ Total(ApplyExtrinsic(s, tx).balance) = Total(s.balance) - FeePaid(s, tx)
<1> DEFINE c     == Charged(s, tx)
           after == Dispatch(c, tx.signer, tx.call)
           fee   == Fee[tx.call.name]
           back  == fee - FeePaid(s, tx)
<1>1. /\ tx.signer \in Account /\ WellFormed(tx.call) /\ fee \in Nat
      /\ tx.call.name = "sudo" => WellFormed(tx.call.call)
  BY TxCalls
<1>2. FeePaid(s, tx) \in Nat /\ back \in Int
  BY <1>1 DEF FeePaid
<1>3. c \in Storage /\ Dustless(c)
  BY ChargedKeeps
<1>4. s.balance \in Numbers /\ c.balance = [s.balance EXCEPT ![tx.signer] = @ + (-fee)]
  <2>1. s.balance \in Numbers
    BY DEF Storage
  <2>2. s.balance[tx.signer] - fee = s.balance[tx.signer] + (-fee)
    BY <1>1, <2>1 DEF Numbers
  <2>3. c.balance = [s.balance EXCEPT ![tx.signer] = @ - fee]
    BY DEF Charged, Storage
  <2> QED
    BY <2>1, <2>2, <2>3
<1>5. Total(c.balance) = Total(s.balance) + (-fee) /\ Total(s.balance) \in Int
  BY <1>1, <1>4, TotalKept
<1> HIDE DEF c, fee
<1>6. Total(after.balance) = Total(c.balance)
  BY <1>1, <1>3, CallConserves DEF Dispatch
<1>7. after.balance \in Numbers
  <2>1. after \in Storage
    BY <1>1, <1>3, CallKeeps DEF Dispatch
  <2> QED
    BY <2>1 DEF Storage
<1>8. ApplyExtrinsic(s, tx).balance = [after.balance EXCEPT ![tx.signer] = @ + back]
  <2>1. ApplyExtrinsic(s, tx) = [after EXCEPT !.balance[tx.signer] = @ + back]
    BY DEF ApplyExtrinsic, c, fee
  <2>2. after \in Storage
    BY <1>1, <1>3, CallKeeps DEF Dispatch
  <2> HIDE DEF after, back
  <2> QED
    BY <2>1, <2>2 DEF Storage
<1> HIDE DEF after
<1>9. Total(ApplyExtrinsic(s, tx).balance) = Total(after.balance) + back
  <2> HIDE DEF back
  <2> QED
    BY <1>1, <1>2, <1>7, <1>8, TotalKept
<1> QED
  BY <1>1, <1>2, <1>5, <1>6, <1>9

Conserved == Total(state.balance) + burnt = Total(Endowment)

(* Nothing is minted or lost, whatever the fees are, whichever calls fail  *)
(* and however often the key gets its fee back (runtime/src/lib.rs:        *)
(* 234-247).                                                               *)
THEOREM FundsKept == Spec => []FundsConserved
<1>1. Init => Conserved
  <2> SUFFICES ASSUME Init  PROVE Conserved
    OBVIOUS
  <2>1. state.balance = Endowment /\ burnt = 0
    BY DEF Init, GenesisState
  <2>2. Total(Endowment) \in Int
    <3>1. RootKey \in Account /\ Endowment \in Numbers
      BY RootAssumption, NumbersAssumption DEF Numbers
    <3>2. 0 \in Int
      OBVIOUS
    <3> QED
      BY <3>1, <3>2, TotalKept
  <2> QED
    BY <2>1, <2>2 DEF Conserved
<1>2. IInv /\ Conserved /\ [Next]_vars => Conserved'
  <2> SUFFICES ASSUME IInv, Conserved, [Next]_vars  PROVE Conserved'
    OBVIOUS
  <2>1. ASSUME NEW tx \in Tx, Execute(tx)  PROVE Conserved'
    <3>1. state \in Storage /\ Dustless(state) /\ burnt \in Nat
      BY TypesMean DEF IInv
    <3>2. /\ PreDispatch(state, tx) /\ state' = ApplyExtrinsic(state, tx)
          /\ burnt' = burnt + FeePaid(state, tx)
      BY <2>1 DEF Execute
    <3>3. /\ Total(state.balance) \in Int /\ FeePaid(state, tx) \in Nat
          /\ Total(state'.balance) = Total(state.balance) - FeePaid(state, tx)
      BY <3>1, <3>2, ExtrinsicConserves
    <3> QED
      BY <3>1, <3>2, <3>3 DEF Conserved
  <2>2. CASE UNCHANGED vars
    BY <2>2 DEF vars, Conserved
  <2> QED
    BY <2>1, <2>2 DEF Next
<1>3. Conserved => FundsConserved
  BY DEF Conserved, FundsConserved, Total
<1> QED
  BY <1>1, <1>2, <1>3, Invariant, PTL DEF Spec

=============================================================================
