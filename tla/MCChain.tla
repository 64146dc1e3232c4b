------------------------------- MODULE MCChain -------------------------------
(***************************************************************************)
(* The local testnet of chain_spec.rs, Alice and Bob, with a full node,    *)
(* and one signer who sends two transactions with the same nonce, one of   *)
(* which fails, and one with the next nonce: that finds no room for its    *)
(* leaf after the other leaf, and cannot be paid for after the paper.      *)
(***************************************************************************)
EXTENDS Chain

CONSTANTS Alice, Bob, Full, ann

MCAuthority == << Alice, Bob >>

MCTx ==
  {Signed(ann, 0, [name |-> "add_leaf"]), Signed(ann, 0, [name |-> "oversized add_paper"]),
   Signed(ann, 1, [name |-> "add_leaf"])}

MCFee == [c \in CallName |-> IF c = "add_leaf" THEN 1 ELSE 2]

MCEndowment == [a \in {ann} |-> 3]

=============================================================================
