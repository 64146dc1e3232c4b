SPECIFICATION Embeddings
CONSTANTS
  Sample <- MCSample
  Dimension = 3
INVARIANTS
  NarrowPrefixSurvives
  SimilarityGaps
CHECK_DEADLOCK FALSE
