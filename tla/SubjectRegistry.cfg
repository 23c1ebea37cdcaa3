CONSTANTS
  Scopes = {s1}
  Globals = Globals
  Names = {m, n}
  Made = {x1, x2, x3}
  App = {y}
  Widgets = {w}
  NoSub = NoSub
  NoScope = NoScope
  Env = {"malformed"}
SPECIFICATION Spec
SYMMETRY Symmetry
INVARIANTS
  TargetsAlive
  ReadsAlive
  HandlesAttached
PROPERTIES
  OwnershipKept
CHECK_DEADLOCK FALSE
