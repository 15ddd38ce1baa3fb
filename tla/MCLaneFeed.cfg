SPECIFICATION FairSpec
CONSTANTS
  Streams = 2
  Value = {"free", "taken"}
  Vacant = "free"
  Image = {"still", "crop"}
  Chunks <- MCChunks
  MaxChunks = 3
  MaxFaults = 3
INVARIANTS
  TypeOK
  WrongOncePerFault
PROPERTIES
  SelfHeals
  LaneSettles
