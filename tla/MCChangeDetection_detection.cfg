SPECIFICATION DetectionSpec
CONSTANTS
  j1 = j1 j2 = j2
  p1 = p1 p2 = p2
  a = a b = b
  Torn = Torn
  Jobs <- TwoJobs
  Paths <- OnePath
  Digests <- Contents
  ContentOf <- ThreeVersions
  MaxVersions = 3
  MaxRuns = 3
SYMMETRY Symmetry
CHECK_DEADLOCK FALSE
INVARIANTS DetectionInv DigestIsCurrent
PROPERTIES MissingIsComplete
