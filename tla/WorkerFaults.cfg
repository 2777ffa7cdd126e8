SPECIFICATION Spec
CONSTANTS
  Bounties = {b1, b2}
  None = None
  Contested = {}
  Lagging = {b1}
  FaultKinds = {"crash", "repeat", "lose", "rpc", "transport", "disk", "query", "pause"}
  MaxFaults = 1
INVARIANTS
  WorkerTypeOK
  OneCycle
  OwnWorkTracked
  HistoryTruthful
PROPERTIES
  InflightStays
  EntriesStay
CHECK_DEADLOCK FALSE
