-------------------------------- MODULE Chain --------------------------------
(***************************************************************************)
(* The network of nodes that runs the parachain: the authorities of        *)
(* node/src/chain_spec.rs, each running the service of node/src/service.rs *)
(* with the runtime of runtime/src/lib.rs.  An authority makes blocks in   *)
(* its own slots on the longest chain it knows, GRANDPA finalises, and the *)
(* transaction pool of each node follows its best chain in a task of its   *)
(* own.                                                                    *)
(*                                                                         *)
(* A block is identified by the chain that ends with it, the sequence of   *)
(* blocks after genesis: hashes do not collide.  A block carries the state *)
(* after it, as its state root does.  Aura's and GRANDPA's messages and    *)
(* signatures are left out: a node may come to know a chain at any time    *)
(* after it was made, or never.                                            *)
(***************************************************************************)
EXTENDS Runtime, FiniteSets, SequencesExt

CONSTANTS
  Node,          \* the nodes of the network
  Rpc,           \* those that clients submit transactions to
  Authority,     \* those that are authorities, in the order of their slots
  MaxBlockTx,    \* transactions that fit into a block
  VoteBehind,    \* blocks GRANDPA's voting rule stays behind the best one
  Gossip,        \* the nodes that hear of the transactions of others
  MaxSlot        \* bound of the model on the slots

ASSUME NodeAssumption ==
  /\ Rpc \subseteq Node /\ Gossip \subseteq Node
  /\ Authority \in Seq(Node) /\ Authority # << >> /\ IsInjective(Authority)
ASSUME BoundsAssumption == MaxBlockTx \in Nat /\ VoteBehind \in Nat /\ MaxSlot \in Nat

VARIABLES
  slot,          \* the current slot
  claimed,       \* the last slot a block was made in
  made,          \* the chains that end with a block somebody made, and << >>
  best,          \* the chain each node takes for the best one
  final,         \* the chain each node knows to be final
  decided,       \* the longest chain GRANDPA has finalised
  pool,          \* the transactions in the pool of each node
  retracted      \* the transactions of retracted blocks it has not been told of

chainVars == << slot, claimed, made, best, final, decided >>
vars == << chainVars, pool, retracted >>

-----------------------------------------------------------------------------
(* The state at the end of a chain.                                        *)
StateAfter(chain) == IF chain = << >> THEN GenesisState ELSE Last(chain).post

(* The transactions of a chain, in their order.                            *)
Transactions(chain) == FlattenSeq([i \in 1..Len(chain) |-> chain[i].txs])
Included(chain) == UNION {ToSet(chain[i].txs) : i \in 1..Len(chain)}

(* Mutant of Proposals: each is checked against the state before the block.*)
ProposalsUnordered(candidates, state) ==
  {txs \in UNION {[1..n -> candidates] : n \in 0..MaxBlockTx} :
     \A i \in 1..Len(txs) : PreDispatch(state, txs[i])}

(* The transactions a proposer may put into a block on a chain: of its     *)
(* pool, each applicable after those before it, as many as time and the    *)
(* limits of the block allow.                                              *)
Proposals(candidates, state) ==
  {txs \in UNION {[1..n -> candidates] : n \in 0..MaxBlockTx} : Applicable(state, txs)}

-----------------------------------------------------------------------------
SameSlot(tx, other) == tx.signer = other.signer /\ tx.nonce = other.nonce

(* The pool takes a transaction that is valid after the best chain.  Of    *)
(* two with the same signer and nonce it keeps the one of higher priority, *)
(* which depends on weight and length: left open here.  A transaction that *)
(* is refused, for one because it is there already, changes nothing.       *)
Take(n, tx) ==
  /\ tx \notin pool[n]
  /\ Validates(StateAfter(best[n]), tx)
  /\ pool' = [pool EXCEPT ![n] = {other \in @ : ~ SameSlot(tx, other)} \cup {tx}]
  /\ UNCHANGED << chainVars, retracted >>

(* author_submitExtrinsic, over the RPC of a node.                         *)
SubmitTransaction(n, tx) == Take(n, tx)

(* Transactions are passed on to other nodes.                              *)
Propagate(n, m, tx) == tx \in pool[n] /\ Take(m, tx)

(* A pool gives up a transaction at any time: the limits that it is built  *)
(* with leave no room for all, a proposer or the pool's own revalidation   *)
(* has found it invalid, or it has been there for too long.  Which ones,   *)
(* is left open.                                                           *)
Drop(n, tx) ==
  /\ tx \in pool[n]
  /\ pool' = [pool EXCEPT ![n] = @ \ {tx}]
  /\ UNCHANGED << chainVars, retracted >>

(* Those of some transactions that can be in one pool: one for each signer *)
(* and nonce.                                                              *)
OneForEach(txs) ==
  {kept \in SUBSET txs : \A tx \in txs : Cardinality({k \in kept : SameSlot(tx, k)}) = 1}

(* The task that tells the pool of a new best chain, some time after the   *)
(* import; until then transactions of retracted blocks are nowhere, and    *)
(* those of the new blocks still in the pool.  The former are submitted    *)
(* again, and all whose nonces were used are removed.  Those that are      *)
(* invalid for another reason, Drop removes, at once or when they are      *)
(* validated again.                                                        *)
MaintainPool(n) ==
  /\ \E kept \in OneForEach({tx \in pool[n] \cup retracted[n] :
                              tx.nonce >= StateAfter(best[n]).nonce[tx.signer]}) :
       pool' = [pool EXCEPT ![n] = kept]
  /\ retracted' = [retracted EXCEPT ![n] = {}]
  /\ UNCHANGED chainVars

(* The best chain of a node changes; its pool hears of that later.         *)
SetBest(n, chain) ==
  /\ best' = [best EXCEPT ![n] = chain]
  /\ retracted' = [retracted EXCEPT ![n] = @ \cup (Included(best[n]) \ Included(chain))]
  /\ UNCHANGED pool

-----------------------------------------------------------------------------
(* A node crashes and is started again: its blocks and what it knows to be *)
(* final are in its database, its pool was in memory.                      *)
Restart(n) ==
  /\ pool' = [pool EXCEPT ![n] = {}]
  /\ retracted' = [retracted EXCEPT ![n] = {}]
  /\ UNCHANGED chainVars

Tick ==
  /\ slot < MaxSlot
  /\ slot' = slot + 1
  /\ UNCHANGED << claimed, made, best, final, decided, pool, retracted >>

(* The authority whose turn the slot is.                                   *)
SlotAuthor == Authority[(slot % Len(Authority)) + 1]

(* Aura: the slot's authority makes a block on its best chain, one in a    *)
(* slot, and imports it.  It takes the transactions from its pool, which   *)
(* may not have been told of that chain.                                   *)
ProposeBlock ==
  LET n     == SlotAuthor
      state == StateAfter(best[n])
  IN  /\ claimed < slot
      /\ claimed' = slot
      /\ \E txs \in Proposals(pool[n], state) :
           LET chain == Append(best[n], [slot |-> slot, txs |-> txs,
                                         post |-> ApplyAll(state, txs)])
           IN  made' = made \cup {chain} /\ SetBest(n, chain)
      /\ UNCHANGED << slot, final, decided >>

(* Mutant of ImportBlock: a chain of the same length is preferred, too.    *)
ImportBlockEqual(n, chain) ==
  /\ Len(chain) >= Len(best[n])
  /\ IsPrefix(final[n], chain)
  /\ SetBest(n, chain)
  /\ UNCHANGED << slot, claimed, made, final, decided >>

(* The import queue: a node hears of a chain and downloads it.  A longer   *)
(* chain becomes the best one, and a fork of what is final is refused.     *)
ImportBlock(n, chain) ==
  /\ Len(chain) > Len(best[n])
  /\ IsPrefix(final[n], chain)
  /\ SetBest(n, chain)
  /\ UNCHANGED << slot, claimed, made, final, decided >>

(* More than two thirds of the authorities, of equal weight.               *)
Supermajority == {Q \in SUBSET ToSet(Authority) : 3 * Cardinality(Q) > 2 * Len(Authority)}

(* GRANDPA: authorities vote for what they have on their best chains, some *)
(* blocks behind the end, and for nothing that forks off from what was     *)
(* finalised before.                                                       *)
Decide ==
  \E Q \in Supermajority, chain \in made :
    /\ chain # decided /\ IsPrefix(decided, chain)
    /\ \A n \in Q : IsPrefix(chain, best[n]) /\ Len(chain) + VoteBehind <= Len(best[n])
    /\ decided' = chain
    /\ UNCHANGED << slot, claimed, made, best, final, pool, retracted >>

(* Mutant of ImportJustification: the best chain is left as it is.         *)
ImportJustificationAlone(n) ==
  /\ final[n] # decided
  /\ final' = [final EXCEPT ![n] = decided]
  /\ UNCHANGED << slot, claimed, made, best, decided, pool, retracted >>

(* A node learns what is final.  If its best chain is a fork of that, a    *)
(* chain that is not becomes the best one, as long as the node knows of.   *)
ImportJustification(n) ==
  /\ final[n] # decided
  /\ final' = [final EXCEPT ![n] = decided]
  /\ IF IsPrefix(decided, best[n])
     THEN UNCHANGED << best, pool, retracted >>
     ELSE \E chain \in made : IsPrefix(decided, chain) /\ SetBest(n, chain)
  /\ UNCHANGED << slot, claimed, made, decided >>

Init ==
  /\ slot = 0 /\ claimed = 0
  /\ made = {<< >>}
  /\ best = [n \in Node |-> << >>]
  /\ final = [n \in Node |-> << >>]
  /\ decided = << >>
  /\ pool = [n \in Node |-> {}]
  /\ retracted = pool

Next ==
  \/ Tick \/ ProposeBlock \/ Decide
  \/ \E n \in Node :
       \/ n \in Rpc /\ \E tx \in Tx : SubmitTransaction(n, tx)
       \/ \E m \in Gossip, tx \in Tx : Propagate(n, m, tx)
       \/ \E tx \in Tx : Drop(n, tx)
       \/ MaintainPool(n)
       \/ \E chain \in made : ImportBlock(n, chain)
       \/ ImportJustification(n)
       \/ Restart(n)

Spec == Init /\ [][Next]_vars

-----------------------------------------------------------------------------
State == [nonce : [Account -> Nat], balance : [Account -> Nat],
          something : 0..MaxU32 \cup {NoValue}, leaves : 0..MaxLeaves]
Block == [slot : 1..MaxSlot, txs : Seq(Tx), post : State]

(* Chains are made of blocks, pools hold transactions, no block is of a    *)
(* slot to come, and what is final was made (runtime/src/lib.rs:43-65).    *)
TypeOK ==
  /\ slot \in 0..MaxSlot /\ claimed \in 0..slot
  /\ \A chain \in made : chain \in Seq(Block)
  /\ best \in [Node -> made] /\ final \in [Node -> made] /\ decided \in made
  /\ pool \in [Node -> SUBSET Tx] /\ retracted \in [Node -> SUBSET Tx]

(* On every chain, whichever forks its transactions were on before, the    *)
(* transactions of an account are applied in the order of their nonces,    *)
(* none twice and none skipped, and the nonce that the account has after   *)
(* them is the next one (runtime/src/lib.rs:325).                          *)
NoncesInOrder ==
  \A chain \in made, a \in Account :
    LET txs    == Transactions(chain)
        Own(n) == {i \in 1..n : txs[i].signer = a}
    IN  /\ \A i \in Own(Len(txs)) : txs[i].nonce = Cardinality(Own(i - 1))
        /\ StateAfter(chain).nonce[a] = Cardinality(Own(Len(txs)))

(* Two nodes never know conflicting blocks to be final, and none builds on *)
(* a fork of what it knows to be final, though the rule of the longest     *)
(* chain may prefer one (service.rs:65, 75-86).                            *)
BestExtendsFinal ==
  \A n, m \in Node : /\ IsPrefix(final[n], best[n])
                     /\ IsPrefix(final[n], final[m]) \/ IsPrefix(final[m], final[n])

(* What is final was never taken off the best chain of an authority, also  *)
(* not before it knew: among two authorities that both have to vote, no    *)
(* fork without a final block is ever the longest one (chain_spec.rs:71,   *)
(* service.rs:65, 270-313).                                                *)
AuthoritiesKeepFinal ==
  \A n \in ToSet(Authority) : IsPrefix(decided, best[n])

(* What GRANDPA decides is a ledger: transactions are added at its end,    *)
(* each let through by the runtime in the state after those before it,     *)
(* which is the one the last final block carries, and none is ever taken   *)
(* back, whatever the forks, the order of slots and the crashes            *)
(* (runtime/src/lib.rs:318-328, service.rs:222-313).                       *)
Ledger == INSTANCE FinalizedLog WITH
            settled <- Transactions(decided), state <- StateAfter(decided),
            Genesis <- GenesisState, LetThrough <- Applicable, Outcome <- ApplyAll

ImplementsLedger == Ledger!Settling

=============================================================================
