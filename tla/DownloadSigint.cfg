CONSTANTS
  Proc = {p1}
  UseMirror = FALSE
  ToolsFail = FALSE
  MaxCalls = 3
  MaxInts = 1
  MaxKills = 0
SPECIFICATION Spec
INVARIANT CksumErrMeansBad
CHECK_DEADLOCK FALSE
