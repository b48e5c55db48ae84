CONSTANTS
  Job = {j1, j2}
  Daemon = {d1, d2}
  Caller = {c1}
  NoJob = NoJob
  MaxCrashes = 0
SPECIFICATION FairSpec
PROPERTIES
  JobsGetBuilt
  DaemonsLeave
CHECK_DEADLOCK FALSE
