CONSTANTS
  Names = {a, b}
  NoName = NoName
  MaxStops = 2
  MaxTags = 6
  Families = {{"gradients", "grad", "stop", "api", "prop", "note"}, {"timeline", "animation", "consts", "const"}, {"timeline", "animation", "include_timeline", "view"}, {"styles", "style", "subjects", "subject", "view"}, {"images", "file", "fonts", "bin"}, {"consts", "const", "register_const", "set_const", "event"}}
  Mishaps = {"broken", "oom", "bare"}
SPECIFICATION MetadataSpec
SYMMETRY Symmetry
INVARIANTS
  MetadataMatches
  InstancesPlayDeclared
PROPERTY
  GlobalsKeep
CHECK_DEADLOCK FALSE
