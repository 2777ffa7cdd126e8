SPECIFICATION Spec
CONSTANTS
  EventNames <- MCTwoEvents
  BatchSize = 2
  PerBlock = 1
  MaxBlock = 3
  MaxReorgs = 1
  MaxCrashes = 1
  MaxDisconnects = 0
  MaxFailures = 0
INVARIANTS
  IndexerTypeOK
  ColdStartComplete
PROPERTIES
  RowMovesForward
CHECK_DEADLOCK FALSE
