CONSTANTS
  Names = {a}
  NoName = NoName
  MaxStops = 2
  MaxTags = 5
  Families = {{"timeline", "animation"}}
  Mishaps = {"latch"}
SPECIFICATION MetadataSpec
INVARIANT
  AnimationsAtHome
CHECK_DEADLOCK FALSE
