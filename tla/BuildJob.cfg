CONSTANTS
  Job = {j1, j2}
  Daemon = {d1, d2}
  Caller = {c1}
  NoJob = NoJob
  MaxCrashes = 1
SPECIFICATION Spec
INVARIANTS
  OneBuilder
  BegunOnce
  NoJobLost
CHECK_DEADLOCK FALSE
