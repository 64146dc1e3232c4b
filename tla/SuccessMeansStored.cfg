SPECIFICATION Spec
CONSTANTS
  MaxAttempts = 2
  MaxForks = 1
INVARIANT SuccessMeansStored
