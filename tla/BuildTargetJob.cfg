CONSTANTS
  NPkg = 2
  Stages <- MCTwoStages
  T2Debug <- MCNoT2Debug
  ContinueOnErrorAfter = 4
  RetryBroken = FALSE
  NoBrokenDeps = FALSE
  PkgFileType = "tar.zst"
  Modes <- BothModes
  MaxRuns = 2
  MaxCrashes = 0
SPECIFICATION Spec
INVARIANT DeniedIsNotPacked
CHECK_DEADLOCK FALSE
