SPECIFICATION FairSpec
CONSTANTS
  Producer = {"luckfox", "prev"}
  QueueDepth = 1
  Pieces = 2
  Window = 2
  MaxFrames <- MCFrames
  MaxFaults = 2
  MaxDrainStalls = 1
INVARIANTS
  TypeOK
  OneOwnerPerBuffer
  FramesWhole
  FramesInOrder
PROPERTIES
  ImplementsStream
  HopRecovers
  BuffersComeBack
