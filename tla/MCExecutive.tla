----------------------------- MODULE MCExecutive -----------------------------
(***************************************************************************)
(* Alice, who holds the key, Bob, and Carol, who has nothing at genesis.   *)
(* Bob can pay for a transfer that would leave one of the two as dust, for *)
(* one that would not, and not for all he can sign.                        *)
(***************************************************************************)
EXTENDS Executive, TLC

CONSTANTS Alice, Bob, Carol

MCEndowment == (Alice :> 12) @@ (Bob :> 9) @@ (Carol :> 0)

MCFee == [c \in CallName |-> IF c = "transfer_keep_alive" THEN 2 ELSE 1]

Plain ==
  {[name |-> "remark"], [name |-> "cause_error"], [name |-> "add_leaf"],
   [name |-> "add_paper"], [name |-> "oversized add_paper"],
   [name |-> "verify_proof", leaves |-> 1]}
    \cup {[name |-> "do_something", something |-> v] : v \in {0, MaxU32 - 1}}
    \cup {[name |-> "transfer_keep_alive", dest |-> a, value |-> v] :
            a \in Account, v \in {0, 1, 3}}

Sudo == {[name |-> "sudo", call |-> c] :
           c \in {[name |-> "remark"], [name |-> "do_something", something |-> 1]}}

MCTx == {Signed(signer, nonce, call) :
           signer \in Account, nonce \in 0..(MaxNonce - 1), call \in Plain \cup Sudo}

=============================================================================
