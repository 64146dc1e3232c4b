SPECIFICATION Spec
CONSTANTS
  CommandLine <- MCCommandLine
  MaxSlot = 3
INVARIANTS
  TypeOK
  OneBlockPerSlot
  FailedStartLeavesDatabase
PROPERTY
  FinalKept
  EssentialTaskTakesDown
CHECK_DEADLOCK FALSE
