SPECIFICATION FairSpec
CONSTANTS
  MaxChainNodes = 4
  Unprovisioned = 7
  Typed <- MCTyped
  MaxLosses = 3
  MaxErasures = 1
INVARIANTS
  TypeOK
  RunsAsTold
  SavedIsFinal
PROPERTIES
  EventuallyRuns
CHECK_DEADLOCK FALSE
