CONSTANTS
  Proc = {p1, p2}
  MaxEdits = 1
  MaxKills = 1
  MaxFailures = 1
SPECIFICATION Spec
INVARIANTS
  StampMeansWhole
  StampMeansFresh
  WholeDespiteRace
CHECK_DEADLOCK FALSE
