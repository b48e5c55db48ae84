CONSTANTS
  CreateCache = TRUE
  Norebuild = TRUE
  RetryBroken = FALSE
  MaxSigints = 2
SPECIFICATION FairSpec
INVARIANTS
  SuccessIsComplete
  AbortedFails
  CacheAgreesWithExit
PROPERTIES
  KeepsPromise
  Ends
CHECK_DEADLOCK FALSE
