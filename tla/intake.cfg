SPECIFICATION Spec
CONSTANTS
  Files <- MCFiles
  Actors = {ana, ben}
  MaxDocs = 2
  OcrEnabled = TRUE
  Counts = {1, 2}
SYMMETRY ActorSymmetry
INVARIANTS
  SourcesNeverSilentlyLost
  ContentCountsOnce
CHECK_DEADLOCK FALSE
