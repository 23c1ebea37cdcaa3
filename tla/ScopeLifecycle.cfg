CONSTANTS
  Names = {a, b}
  Scopes = {s1, s2, s3}
  Objs = {o1, o2, o3}
  NoScope = NoScope
  Env = {"lend", "orphan", "frag", "stale", "handler", "oom"}
  MaxDepth = 2
SPECIFICATION Spec
SYMMETRY Symmetry
INVARIANTS
  HooksValid
  CountExact
  OwnInstanceSafe
  LookupsExact
  QueuedFreeSound
CHECK_DEADLOCK FALSE
