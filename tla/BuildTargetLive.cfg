CONSTANTS
  NPkg = 2
  Stages <- MCTwoStages
  T2Debug <- MCNoT2Debug
  ContinueOnErrorAfter = 4
  RetryBroken = TRUE
  NoBrokenDeps = TRUE
  PkgFileType = "gem"
  Modes <- BothModes
  MaxRuns = 3
  MaxCrashes = 1
SPECIFICATION FairSpec
PROPERTY RunEnds
INVARIANT DoneHasBuiltEverything
CHECK_DEADLOCK FALSE
