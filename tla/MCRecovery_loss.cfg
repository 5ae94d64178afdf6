SPECIFICATION FairRecoverySpec
CONSTANTS
  p1 = p1 p2 = p2
  d1 = d1 d2 = d2 d3 = d3 d4 = d4
  c1 = c1 c2 = c2 c3 = c3
  NoContent = NoContent NoPath = NoPath NoDoc = NoDoc NoSize = NoSize
  Paths <- OnePath
  Contents <- ThreeContents
  Accepted <- ThreeContents
  DocIds <- FourDocs
  Rank <- InOrderFour
  SizeOf <- TwoSizes
  PageSize = 1
  Outside = Outside
  LinkTrees <- NoLinks
  Careful = TRUE
  MaxLosses = 1
  MaxRebuilds = 2
  Threads = 1
  PollStatus = TRUE
  DeleteRemoteWhenMissing = TRUE
  DetectDuplicates = FALSE
  EditWhen = "settled"
  Revert = FALSE
  Faults <- RecoveryFaults
  MaxMishaps = 1
  MaxEdits = 1
INVARIANTS HonestAfterRecovery
PROPERTIES Recovers
