SPECIFICATION Spec
CONSTANTS
  ClockMod = 16
  HelloInterval = 3
  HelloIdleInterval = 9
  LocalInterval = 6
  AckTimeout = 4
  MaxGap = 2
  Horizon = 40
INVARIANTS
  TypeOK
  HelloOnTime
  LocalOnTime
PROPERTIES
  NeverEarly
  AckTimerWithinTurn
CHECK_DEADLOCK FALSE
