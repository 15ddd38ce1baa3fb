SPECIFICATION Spec
CONSTANTS
  ChainSize = 3
  QueueDepth = 1
  RxDepth = 2
  SeqMod = 3
  Absent = {}
  MaxReadings <- MCReadings
  MaxDropRun = 1
  MaxBoots <- NoResets
INVARIANTS
  TypeOK
  SlotFreedOnlyIfAccepted
  FlushedOnce
  NothingLostOnTheWay
PROPERTIES
  ImplementsPipeline
