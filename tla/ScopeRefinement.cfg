CONSTANTS
  Names = {a, b}
  Scopes = {s1, s2, s3}
  Objs = {o1, o2}
  NoScope = NoScope
  Env = {"stale", "screens"}
  MaxDepth = 2
SPECIFICATION FairSpec
INVARIANTS
  HoldersSafe
PROPERTIES
  StoragePromise
  RetiredReclaimed
CHECK_DEADLOCK FALSE
