SPECIFICATION FairSpec
CONSTANTS
  p1 = p1 p2 = p2
  d1 = d1 d2 = d2 d3 = d3 d4 = d4 d5 = d5
  c1 = c1 c2 = c2
  NoContent = NoContent NoPath = NoPath NoDoc = NoDoc
  Paths <- TwoPaths
  Contents <- JustOne
  Accepted <- JustOne
  DocIds <- FourDocs
  Threads = 2
  PollStatus = TRUE
  DeleteRemoteWhenMissing = TRUE
  DetectDuplicates = FALSE
  EditWhen = "settled"
  Revert = FALSE
  Faults <- OwnFaults
  MaxMishaps = 1
  MaxEdits = 0
PROPERTIES Convergence RunsEnd
