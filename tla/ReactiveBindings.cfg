CONSTANTS
  a = a
  d = d
  f = f
  o1 = o1
  Inputs = {a}
  Derived = {d, f}
  Values <- mcValues
  Exprs <- mcExprs
  Deps <- mcDeps
  Eval <- mcEval
  Objs = {o1}
  Groups = {g1}
  Owner <- mcOwner
  Bindings = {b1, b2, b3}
  NoExpr = NoExpr
  MaxReasons = 2
  MaxNest = 2
  Env = {"reenter", "touch", "oom"}
SPECIFICATION Spec
SYMMETRY Symmetry
INVARIANTS
  ComposedWhenQuiet
  DerivedSettled
  SharesDistinct
PROPERTIES
  NoFalseClear
  GroupOutlivesBindings
