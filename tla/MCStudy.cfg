\* One fixture in two arms, three attempts of four ends by two agents, two
\* freezes, one edit of the material, eight ways to have scored.
SPECIFICATION Spec
CONSTANTS
  a1 = a1
  a2 = a2
  s1 = s1
  s2 = s2
  s3 = s3
  None = None
  Fixtures = {"f"}
  Order <- MCOrder
  WaveSize = 1
  Versions = {1, 2}
  Original = 1
  o1 = o1
  o2 = o2
  Outputs = {o1, o2}
  MaxFreezes = 2
  MaxEdits = 1
  Agents = {a1, a2}
  Ends <- MCEnds
  Limit = 2
  People = {s1, s2, s3}
  Records <- MCRecords
  MaxAttempts = 3
SYMMETRY MCSymmetry
INVARIANTS TypeOK ClaimIsWhole RevealComesLast
CHECK_DEADLOCK FALSE
