SPECIFICATION Growth
CONSTANTS
  Leaf = {a, b}
  MaxTree = 7
INVARIANTS
  RowsMatchSplit
  StaleProofsRefused
CHECK_DEADLOCK FALSE
