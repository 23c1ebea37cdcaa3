CONSTANTS
  a = a
  d = d
  f = f
  o1 = o1
  Inputs = {a}
  Derived = {d}
  Values <- mcValues
  Exprs <- mcExprs
  Deps <- mcDeps
  Eval <- mcEval
  Objs = {o1}
  Groups = {g1}
  Owner <- mcOwner
  Bindings = {b1, b2}
  NoExpr = NoExpr
  MaxReasons = 2
  MaxNest = 2
  Env = {"handler"}
SPECIFICATION FairSpec
PROPERTY GroupOutlivesBindings
