SPECIFICATION Spec
CONSTANTS
  Producer = {luckfox, prev}
  StatusDepth = 1
  VideoDepth = 1
  StuckIntervals = 2
  MinInterval = 3
  LogGaps = {1, 2}
  ClockMod = 4
  MaxReadings = 2
  MaxFrames = 2
  MaxLogs = 4
  MaxEvents = 2
SYMMETRY Symmetry
INVARIANTS
  TypeOK
  EveryItemAccounted
  WatchdogPatient
  WatchdogPrompt
PROPERTIES
  RestartsSpaced
CHECK_DEADLOCK FALSE
