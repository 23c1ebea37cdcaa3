CONSTANTS
  Scopes = {s1}
  Globals = Globals
  Names = {m, n}
  Made = {x1, x2, x3}
  App = {y}
  Widgets = {w}
  NoSub = NoSub
  NoScope = NoScope
  Env = {"derived", "oom"}
SPECIFICATION Spec
INVARIANT TargetsAlive
CHECK_DEADLOCK FALSE
