SPECIFICATION Spec
CONSTANTS
  TickRate = 100
  RunLimit = 3
  PauseMs = 5
  FailPauseMs = 10
  TransactionTimes = {1, 2}
  Horizon = 60
INVARIANTS
  PausesInNoise
CHECK_DEADLOCK FALSE
