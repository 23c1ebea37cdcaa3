CONSTANTS
  Consts = {k1}
  Colors = {red, blue}
  None = None
  Props = {bg}
  Bad = Bad
  Bounce = Bounce
  FirstCap = 2
  TokenSlots = 1
  MaxAttrs = 1
  Parts = {"styles", "motion"}
  Env = {"own", "refused"}
SPECIFICATION Spec
INVARIANTS
  NamedFollow
  MotionAsWritten
