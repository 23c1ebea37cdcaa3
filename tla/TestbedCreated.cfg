CONSTANTS
  Names = {a, b, c}
  Copies = 2
  Hashes = {0, 3, 6, 7}
  FirstCap = 2
  Null = Null
  Nil = Nil
  Dirs <- MCDirs
  Missing = {"nowhere"}
  Archives = {1, 2}
  Tests <- MCTests
  Screens <- MCScreens
  Boot = 1
  Home = "home"
  Values = {0, 1}
  MaxCalls = 6
  Env = {"created"}
SPECIFICATION MCSpec
INVARIANTS
  LeftInOrder
CHECK_DEADLOCK FALSE
