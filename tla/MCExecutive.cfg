SPECIFICATION Spec
CONSTANTS
  Alice = Alice
  Bob = Bob
  Carol = Carol
  Account = {Alice, Bob, Carol}
  Endowment <- MCEndowment
  RootKey = Alice
  Fee <- MCFee
  Existential = 2
  MaxLeaves = 1
  MaxU32 = 3
  NoValue = NoValue
  Tx <- MCTx
  MaxNonce = 3
INVARIANTS
  TypeOK
  FundsConserved
  NoDust
  SomethingReplayed
CHECK_DEADLOCK FALSE
