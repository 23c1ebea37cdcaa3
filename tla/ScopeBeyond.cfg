CONSTANTS
  Names = {a, b}
  Scopes = {s1, s2}
  Objs = {o1, o2, o3}
  NoScope = NoScope
  Env = {"lend", "frag"}
  MaxDepth = 1
SPECIFICATION FairSpec
PROPERTIES
  LenderHeldUntilDeinit
  NoReadersAtAsyncFree
CHECK_DEADLOCK FALSE
