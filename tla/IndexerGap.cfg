SPECIFICATION Spec
CONSTANTS
  EventNames <- MCTwoEvents
  BatchSize = 2
  PerBlock = 1
  MaxBlock = 4
  MaxReorgs = 0
  MaxCrashes = 0
  MaxDisconnects = 0
  MaxFailures = 0
INVARIANT NothingSkipped
