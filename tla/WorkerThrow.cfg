SPECIFICATION Spec
CONSTANTS
  Bounties = {b1, b2}
  None = None
  Contested = {}
  Lagging = {}
  FaultKinds = {"rpc"}
  MaxFaults = 1
SYMMETRY MCSymmetry
PROPERTIES
  InflightKept
CHECK_DEADLOCK FALSE
