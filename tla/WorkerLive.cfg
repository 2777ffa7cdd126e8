SPECIFICATION FairSpec
CONSTANTS
  Bounties = {b1, b2}
  None = None
  Contested = {b1}
  Lagging = {}
  FaultKinds = {"crash"}
  MaxFaults = 1
PROPERTIES
  CyclesEnd
  BootCompletes
  
CHECK_DEADLOCK FALSE
