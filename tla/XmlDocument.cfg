CONSTANTS
  Words <- MCWords
  Literals <- MCLiterals
  Text <- MCText
  Families <- MCFamilies
  Menu <- MCMenu
  Tagged <- MCTagged
  MaxSentence <- MCMaxSentence
  MaxDecls <- MCMaxDecls
  MaxEvents <- MCMaxEvents
  Checked <- MCChecked
  Elements = {"e", "m"}
  Attributes = {"a", "b"}
  Entities = {"n", "m"}
  Predefined = {"amp"}
  BadPublic = {"bad"}
  FirstGroup = 2
  FirstAtts = 1
  MaxLevel = 3
  MaxTags = 2
SPECIFICATION Spec
INVARIANTS AcceptsGrammar TablesSafe CallsNest DeclaredFirst
CHECK_DEADLOCK FALSE
