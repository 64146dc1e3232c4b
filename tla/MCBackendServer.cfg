SPECIFICATION Spec
CONSTANTS
  Upload = {u1, u2}
  Query = {q1, q2}
  ClockStep = {1}
  MaxStarts = 2
INVARIANTS
  TypeOK
  PaperIntegrity
  PinnedBeforeListed
  FilesAccountedFor
  ListedIffAnswered
PROPERTIES
  SearchSeesAnswered
  OnlyLoginBlocks
CHECK_DEADLOCK FALSE
