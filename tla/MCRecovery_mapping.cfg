SPECIFICATION RecoverySpec
CONSTANTS
  p1 = p1 p2 = p2
  d1 = d1 d2 = d2 d3 = d3 d4 = d4
  c1 = c1 c2 = c2 c3 = c3
  NoContent = NoContent NoPath = NoPath NoDoc = NoDoc NoSize = NoSize
  Paths <- TwoPaths
  Contents <- JustOne
  Accepted <- JustOne
  DocIds <- FourDocs
  Rank <- InOrderFour
  SizeOf <- OneSize
  PageSize = 1
  Outside = Outside
  LinkTrees <- AnyLinks
  Careful = FALSE
  MaxLosses = 1
  MaxRebuilds = 2
  Threads = 2
  PollStatus = TRUE
  DeleteRemoteWhenMissing = FALSE
  DetectDuplicates = FALSE
  EditWhen = "settled"
  Revert = FALSE
  Faults <- NoFaults
  MaxMishaps = 0
  MaxEdits = 1
INVARIANTS MappingLeadsToFile
PROPERTIES ListingIsComplete RebuildRestoresMapping
