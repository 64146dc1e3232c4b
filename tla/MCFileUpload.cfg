SPECIFICATION Spec
CONSTANTS
  MaxAttempts = 2
  MaxForks = 1
INVARIANTS
  TypeOK
  SuccessIsFinal
PROPERTIES
  SentInTurn
  SentUploadsEnd
