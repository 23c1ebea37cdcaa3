CONSTANTS
  Consts = {k1, k2}
  Colors = {red, blue}
  None = None
  Props = {bg, text}
  Bad = Bad
  Bounce = Bounce
  FirstCap = 2
  TokenSlots = 1
  MaxAttrs = 2
  Parts = {"styles", "inline", "motion"}
  Env = {}
SPECIFICATION Spec
SYMMETRY Symmetry
INVARIANTS
  NamedFollow
  MotionAsWritten
PROPERTY
  InlineFollow
