SPECIFICATION FairSpec
CONSTANTS
  ChainSize = 3
  QueueDepth = 1
  RxDepth = 1
  SeqMod = 4
  Absent = {}
  MaxReadings <- MCOneReading
  MaxDropRun = 0
  MaxBoots <- MiddleResetsOnce
PROPERTIES
  SlotIsFreed
  EveryReadingArrives
  DiscoveryCompletes
