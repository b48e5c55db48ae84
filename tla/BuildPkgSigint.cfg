CONSTANTS
  CreateCache = FALSE
  Norebuild = TRUE
  RetryBroken = FALSE
  MaxSigints = 1
SPECIFICATION Spec
INVARIANT InterruptFails
CHECK_DEADLOCK FALSE
