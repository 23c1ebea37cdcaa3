CONSTANTS
  Values = {0, 2}
  MaxTags = 4
  MaxElses = 0
  MaxObjs = 12
  MaxNest = 1
  Env = {"loose", "early", "sweep", "drained"}
SPECIFICATION Spec
INVARIANTS
  TreeCurrent
  RecordsSound
CHECK_DEADLOCK FALSE
