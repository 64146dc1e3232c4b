SPECIFICATION Spec
CONSTANTS
  tree = tree
  graph = graph
  q1 = q1
  q2 = q2
  Paper <- MCPaper
  Query = {q1, q2}
  Gap <- MCGap
  NoQuery = NoQuery
  NoAnswer = NoAnswer
  Connection = {c1, c2}
  c1 = c1
  c2 = c2
  Uploaded <- MCUploaded
INVARIANTS
  TypeOK
  FetchShowsStored
  ResultsOfLastSearch
SYMMETRY Symmetry
