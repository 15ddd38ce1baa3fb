SPECIFICATION Spec
CONSTANTS
  Producer = {"luckfox", "prev"}
  QueueDepth = 1
  Pieces = 2
  Window = 2
  MaxFrames <- MCFrames
  MaxFaults = 1
  MaxDrainStalls = 1
INVARIANTS
  StaysFramed
