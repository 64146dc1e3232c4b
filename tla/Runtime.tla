------------------------------- MODULE Runtime -------------------------------
(***************************************************************************)
(* The state transition function of the chain (runtime/src/lib.rs): what a *)
(* signed transaction does to accounts, to the value of pallet-template    *)
(* and to the number of leaves of pallet-papermgmt, whose other storage is *)
(* in PaperMgmt.  No variables: Executive and Chain keep the state.        *)
(*                                                                         *)
(* A call is a record of its name and its arguments.  Of System, Balances  *)
(* and Sudo the calls are those which the sources make themselves          *)
(* (node/src/benchmarking.rs) or give a key to (node/src/chain_spec.rs).   *)
(***************************************************************************)
EXTENDS Integers, Sequences

CONSTANTS
  Account,       \* the accounts
  Endowment,     \* the balance of each at genesis
  RootKey,       \* the account that sudo obeys
  Fee,           \* what a transaction with each call costs its signer
  Existential,   \* EXISTENTIAL_DEPOSIT
  MaxLeaves,     \* T::MaxLeaves of pallet-papermgmt
  MaxU32,        \* u32::MAX
  NoValue,       \* Something: no value is stored
  Tx             \* signed transactions: records of signer, nonce and call

(* The calls of pallets 0, 4, 6, 7 and 8 of the runtime, "oversized        *)
(* add_paper" with a field that is too long.                               *)
CallName ==
  {"remark", "transfer_keep_alive", "sudo", "do_something", "cause_error",
   "add_leaf", "verify_proof", "add_paper", "oversized add_paper"}

WellFormed(call) ==
  /\ call.name \in CallName
  /\ call.name = "transfer_keep_alive" => call.dest \in Account /\ call.value \in Nat
  /\ call.name = "do_something" => call.something \in 0..MaxU32
  /\ call.name = "verify_proof" => call.leaves \in 0..MaxLeaves

ASSUME TxAssumption ==
  \A tx \in Tx :
    /\ tx.signer \in Account /\ tx.nonce \in Nat
    /\ WellFormed(tx.call)
    /\ tx.call.name = "sudo" => WellFormed(tx.call.call) /\ tx.call.call.name # "sudo"
ASSUME NumbersAssumption ==
  /\ Existential \in Nat /\ MaxLeaves \in Nat /\ MaxU32 \in Nat /\ NoValue \notin Nat
  /\ Fee \in [CallName -> Nat]
  /\ Endowment \in [Account -> Nat]
ASSUME EndowmentAssumption ==
  \A a \in Account : Endowment[a] = 0 \/ Endowment[a] >= Existential
ASSUME RootAssumption == RootKey \in Account /\ "Root" \notin Account

(* A transaction as create_benchmark_extrinsic signs it: for this runtime  *)
(* and this genesis, with no tip and an era that outlasts the model.       *)
Signed(signer, nonce, call) == [signer |-> signer, nonce |-> nonce, call |-> call]

(* The state of the runtime at genesis.                                    *)
GenesisState ==
  [nonce |-> [a \in Account |-> 0], balance |-> Endowment, something |-> NoValue, leaves |-> 0]

-----------------------------------------------------------------------------
(* The origin of a call is the account that signed it, or Root.            *)
EnsureSigned(origin) == origin \in Account

(* Mutant of TransferSucceeds: only the sender must be kept alive.         *)
TransferSucceedsToDust(state, source, dest, value) ==
  value > 0 => state.balance[source] >= value + Existential

(* transfer_keep_alive: the sender stays above the existential deposit,    *)
(* and so does the receiver, who may be new.                               *)
TransferSucceeds(state, source, dest, value) ==
  value > 0 => /\ state.balance[source] >= value + Existential
               /\ state.balance[dest] + value >= Existential

(* Mutant of CauseErrorSucceeds: the value is not compared to its maximum. *)
CauseErrorSucceedsUnchecked(state) == state.something # NoValue

(* cause_error: NoneValue and StorageOverflow are its errors.              *)
CauseErrorSucceeds(state) == state.something # NoValue /\ state.something < MaxU32

(* Mutant of AddLeafSucceeds: one leaf more than the limit.                *)
AddLeafSucceedsOverfull(state) == state.leaves <= MaxLeaves

(* add_leaf: see PaperMgmt.                                                *)
AddLeafSucceeds(state) == state.leaves < MaxLeaves

(* verify_proof: the proof was made when there were so many leaves, and is *)
(* good for no other tree (PaperMgmt, TreeGrowth); 0 if it never was.      *)
VerifyProofSucceeds(state, leaves) == leaves = state.leaves /\ leaves > 0

(* Whether a call returns Ok.                                              *)
Succeeds(state, origin, call) ==
  \/ call.name = "remark"
  \/ /\ EnsureSigned(origin)
     /\ \/ call.name = "transfer_keep_alive"
             /\ TransferSucceeds(state, origin, call.dest, call.value)
        \/ call.name = "sudo" /\ origin = RootKey
        \/ call.name = "cause_error" /\ CauseErrorSucceeds(state)
        \/ call.name = "add_leaf" /\ AddLeafSucceeds(state)
        \/ call.name = "verify_proof" /\ VerifyProofSucceeds(state, call.leaves)
        \/ call.name \in {"do_something", "add_paper"}

(* Mutant of Transfer: the sender keeps what it sends.                     *)
TransferCopies(state, source, dest, value) ==
  [state EXCEPT !.balance[dest] = @ + value]

Transfer(state, source, dest, value) ==
  LET sent == [state.balance EXCEPT ![source] = @ - value]
  IN  [state EXCEPT !.balance = [sent EXCEPT ![dest] = @ + value]]

DoSomething(state, something) == [state EXCEPT !.something = something]

CauseError(state) == [state EXCEPT !.something = @ + 1]

(* What a call that returns Ok, other than sudo, writes.                   *)
Effect(state, origin, call) ==
  CASE call.name = "transfer_keep_alive" -> Transfer(state, origin, call.dest, call.value)
    [] call.name = "do_something"        -> DoSomething(state, call.something)
    [] call.name = "cause_error"         -> CauseError(state)
    [] call.name = "add_leaf"            -> [state EXCEPT !.leaves = @ + 1]
    [] OTHER                             -> state

(* A call is dispatched in a storage layer: an error undoes what it wrote. *)
DispatchCall(state, origin, call) ==
  IF Succeeds(state, origin, call) THEN Effect(state, origin, call) ELSE state

(* The key's call is dispatched once more, as Root; its error is reported  *)
(* by an event only.                                                       *)
Dispatch(state, origin, call) ==
  IF call.name = "sudo" /\ Succeeds(state, origin, call)
  THEN DispatchCall(state, "Root", call.call)
  ELSE DispatchCall(state, origin, call)

-----------------------------------------------------------------------------
(* Mutant of CheckNonce: what is not stale may be applied.                 *)
CheckNonceStale(state, tx) == tx.nonce >= state.nonce[tx.signer]

(* CheckNonce, before dispatch.                                            *)
CheckNonce(state, tx) == tx.nonce = state.nonce[tx.signer]

(* ChargeTransactionPayment: the fee must leave the account alive.         *)
ChargePayment(state, tx) == state.balance[tx.signer] >= Fee[tx.call.name] + Existential

(* SignedExtra, for a transaction made for this runtime and this genesis.  *)
PreDispatch(state, tx) == CheckNonce(state, tx) /\ ChargePayment(state, tx)

(* validate_transaction: not stale, and the signer can pay for it.  One    *)
(* with a later nonce waits in the pool.                                   *)
Validates(state, tx) ==
  tx.nonce >= state.nonce[tx.signer] /\ ChargePayment(state, tx)

(* What PreDispatch has taken by the time the call is dispatched.          *)
Charged(state, tx) ==
  [state EXCEPT !.nonce[tx.signer] = @ + 1, !.balance[tx.signer] = @ - Fee[tx.call.name]]

(* ExtrinsicSuccess or ExtrinsicFailed, as System reports it.              *)
ExtrinsicSuccess(state, tx) == Succeeds(Charged(state, tx), tx.signer, tx.call)

(* Pays::No: the key gets the fee of its sudo calls back.                  *)
FeePaid(state, tx) ==
  IF tx.call.name = "sudo" /\ ExtrinsicSuccess(state, tx) THEN 0 ELSE Fee[tx.call.name]

(* Mutant of ApplyExtrinsic: a call that fails is not charged for.         *)
ApplyExtrinsicRefunds(state, tx) ==
  LET after == Dispatch(Charged(state, tx), tx.signer, tx.call)
  IN  IF ExtrinsicSuccess(state, tx) /\ tx.call.name # "sudo" THEN after
      ELSE [after EXCEPT !.balance[tx.signer] = @ + Fee[tx.call.name]]

(* Executive::apply_extrinsic: nonce and fee are taken whether the call    *)
(* succeeds or fails, and the fee is burnt.                                *)
ApplyExtrinsic(state, tx) ==
  LET after == Dispatch(Charged(state, tx), tx.signer, tx.call)
  IN  [after EXCEPT !.balance[tx.signer] = @ + (Fee[tx.call.name] - FeePaid(state, tx))]

-----------------------------------------------------------------------------
(* The transactions of a block are applied one after the other.            *)
ApplyAll(state, txs) ==
  LET after[i \in 0..Len(txs)] ==
        IF i = 0 THEN state ELSE ApplyExtrinsic(after[i - 1], txs[i])
  IN  after[Len(txs)]

(* Each is let through in the state that those before it lead to.          *)
Applicable(state, txs) ==
  \A i \in 1..Len(txs) : PreDispatch(ApplyAll(state, SubSeq(txs, 1, i - 1)), txs[i])

=============================================================================
