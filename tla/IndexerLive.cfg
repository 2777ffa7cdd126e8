SPECIFICATION FairSpec
CONSTANTS
  EventNames <- MCTwoEvents
  BatchSize = 1
  PerBlock = 1
  MaxBlock = 2
  MaxReorgs = 0
  MaxCrashes = 1
  MaxDisconnects = 1
  MaxFailures = 1
INVARIANTS
  RowFromLog
PROPERTIES
  WatermarkMovesForward
  BecomesLive
CHECK_DEADLOCK FALSE
