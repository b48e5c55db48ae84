CONSTANTS
  Proc = {p1, p2}
  UseMirror = TRUE
  ToolsFail = TRUE
  MaxCalls = 3
  MaxInts = 1
  MaxKills = 1
SPECIFICATION Spec
INVARIANTS
  VerifiedAtRest
  CksumErrMeansBadUndisturbed
  LockFreed
PROPERTIES
  SourceKept
CHECK_DEADLOCK FALSE
