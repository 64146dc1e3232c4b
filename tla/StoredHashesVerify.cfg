SPECIFICATION Spec
SYMMETRY HashSymmetry
CONSTANTS
  Hash = {h1, h2}
  t1 = t1
  t2 = t2
  long = long
  Text <- MCText
  Size <- MCSize
  Submission <- MCSubmission
  Origin = {"Signed", "Root"}
  MaxLeaves = 3
  MaxTitleLength = 1
  MaxAuthorsLength = 1
  MaxAbstractLength = 1
  MaxIpfsUrlLength = 1
  MaxVectorLength = 1
  MaxKeywords = 1
  MaxEvents = 4
INVARIANT StoredHashesVerify
