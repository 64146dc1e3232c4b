SPECIFICATION Spec
CONSTANTS
  Alice = Alice
  Bob = Bob
  Full = Full
  Node = {Alice, Bob, Full}
  Rpc = {Alice}
  ann = ann
  Authority <- MCAuthority
  Tx <- MCTx
  RootKey = ann
  MaxU32 = 1
  NoValue = NoValue
  Gossip = {Bob}
  Account = {ann}
  Endowment <- MCEndowment
  Fee <- MCFee
  Existential = 1
  MaxBlockTx = 2
  MaxLeaves = 1
  VoteBehind = 0
  MaxSlot = 3
INVARIANTS
  TypeOK
  NoncesInOrder
  BestExtendsFinal
  AuthoritiesKeepFinal
PROPERTY
  ImplementsLedger
CHECK_DEADLOCK FALSE
