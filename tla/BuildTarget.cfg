CONSTANTS
  NPkg = 4
  Stages <- MCStages
  T2Debug <- MCT2Debug
  ContinueOnErrorAfter = 4
  RetryBroken = FALSE
  NoBrokenDeps = FALSE
  PkgFileType = "tar.zst"
  Modes <- LoopOnly
  MaxRuns = 3
  MaxCrashes = 2
SPECIFICATION Spec
INVARIANTS
  EarlierJobsEnded
  LaterStagesOnlyAfterSuccess
  PackagesComplete
  LoggedIsRegistered
  AbnormalEndAborts
PROPERTIES
  VerdictsKept
CHECK_DEADLOCK FALSE
