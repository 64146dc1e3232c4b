------------------------------ MODULE Executive ------------------------------
(***************************************************************************)
(* One chain without forks: the transactions its blocks apply, one after   *)
(* the other, and what the events and fees in them add up to.  Which       *)
(* transaction comes next, and where one block ends, is left open.         *)
(***************************************************************************)
EXTENDS Runtime, Functions, FiniteSets

CONSTANT
  MaxNonce       \* bound of the model on the transactions of an account

ASSUME MaxNonceAssumption == MaxNonce \in Nat
ASSUME AccountAssumption == IsFiniteSet(Account)

VARIABLES
  state,         \* the storage of the runtime
  burnt,         \* history: the fees paid
  stored,        \* history: the value in the last event SomethingStored
  bumps          \* history: how many cause_error have succeeded since

vars == << state, burnt, stored, bumps >>

Init ==
  /\ state = GenesisState
  /\ burnt = 0 /\ stored = NoValue /\ bumps = 0

(* A transaction is applied, if the extensions let it through, and its     *)
(* events are deposited: an event of the pallet for do_something, that of  *)
(* System alone for cause_error.                                           *)
Execute(tx) ==
  /\ tx.nonce < MaxNonce
  /\ PreDispatch(state, tx)
  /\ state' = ApplyExtrinsic(state, tx)
  /\ burnt' = burnt + FeePaid(state, tx)
  /\ CASE tx.call.name = "do_something" -> stored' = tx.call.something /\ bumps' = 0
       [] tx.call.name = "cause_error" /\ ExtrinsicSuccess(state, tx)
            -> stored' = stored /\ bumps' = bumps + 1
       [] OTHER -> UNCHANGED << stored, bumps >>

Next == \E tx \in Tx : Execute(tx)

Spec == Init /\ [][Next]_vars

-----------------------------------------------------------------------------
(* Accounts have natural nonces and balances, the value is a u32 or none,  *)
(* and there are no more leaves than the pallet's limit                    *)
(* (template/src/lib.rs:94, runtime/src/lib.rs:258).                       *)
TypeOK ==
  /\ state \in [nonce : [Account -> Nat], balance : [Account -> Nat],
                something : 0..MaxU32 \cup {NoValue}, leaves : 0..MaxLeaves]
  /\ burnt \in Nat /\ bumps \in Nat
  /\ stored \in 0..MaxU32 \cup {NoValue}

(* Nothing is minted or lost: what the accounts have lost since genesis is *)
(* what was paid in fees, whatever fails after its fee was withdrawn, and  *)
(* although the key gets fees back (runtime/src/lib.rs:234-247).           *)
FundsConserved ==
  LET Sum(f) == FoldFunction(+, 0, f)
  IN  Sum(state.balance) + burnt = Sum(Endowment)

(* No account is left with dust: a balance is zero or at least the         *)
(* existential deposit, for fees and transfers together, so that no        *)
(* account is removed, and its nonce with it (runtime/src/lib.rs:210-241). *)
NoDust ==
  \A a \in Account : /\ state.balance[a] = 0 \/ state.balance[a] >= Existential
                     /\ state.nonce[a] > 0 => state.balance[a] >= Existential

(* The value can be replayed from the blocks, but not from the pallet's    *)
(* events alone: it is that of the last SomethingStored and one more for   *)
(* each cause_error since that ended in ExtrinsicSuccess; one that would   *)
(* wrap around, or that found no value, does not count, nor does what the  *)
(* key dispatches as Root (template/src/lib.rs:155-200).                   *)
SomethingReplayed ==
  /\ (state.something = NoValue) <=> (stored = NoValue)
  /\ stored = NoValue => bumps = 0
  /\ stored # NoValue => state.something = stored + bumps /\ stored + bumps <= MaxU32

=============================================================================
