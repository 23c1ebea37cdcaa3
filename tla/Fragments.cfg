CONSTANTS
  Values = {0, 2}
  MaxTags = 4
  MaxElses = 1
  MaxObjs = 16
  MaxNest = 2
  Env = {"reenter", "oom", "broken", "early", "sweep"}
SPECIFICATION Spec
INVARIANTS
  WellPlaced
  TreeCurrent
  RecordsSound
CHECK_DEADLOCK FALSE
