SPECIFICATION Spec
CONSTANTS
  Bounties = {b1, b2}
  None = None
  Contested = {}
  Lagging = {}
  FaultKinds = {}
  MaxFaults = 0
SYMMETRY MCSymmetry
PROPERTIES
  PendingKept
CHECK_DEADLOCK FALSE
