SPECIFICATION Spec
CONSTANTS
  Upload = {u1, u2}
  Query = {q1}
  ClockStep = {0, 1}
  MaxStarts = 2
INVARIANT PaperIntegrity
CHECK_DEADLOCK FALSE
