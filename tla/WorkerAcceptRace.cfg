SPECIFICATION FairSpec
CONSTANTS
  Bounties = {b1}
  None = None
  Contested = {}
  Lagging = {}
  FaultKinds = {}
  MaxFaults = 0
PROPERTIES
  ObservedIsWithdrawn
CHECK_DEADLOCK FALSE
