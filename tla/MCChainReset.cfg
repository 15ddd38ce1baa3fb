SPECIFICATION Spec
CONSTANTS
  ChainSize = 3
  QueueDepth = 1
  RxDepth = 1
  SeqMod = 4
  Absent = {}
  MaxReadings <- MCReadingsReset
  MaxDropRun = 0
  MaxBoots <- EachResetsOnce
INVARIANTS
  NeverGoesBack
  RepeatsNeedResets
