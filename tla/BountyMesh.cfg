SPECIFICATION Spec
CONSTANTS
  alice = alice
  root = root
  services = services
  nobody = nobody
  Actors <- MCActors
  Owner = root
  NoActor = nobody
  Tracks <- MCTracks
  Rewards <- MCRewards
  Values <- MCExcess
  Deadlines <- MCDeadlines
  min_reward = 1
  MaxId = 2
  MaxBlock = 1
INVARIANTS
  IndexMapsAgree
  Chronology
  PayoutsExact
  EscrowAccounting
  OneBeneficiary
PROPERTIES
  Lifecycle
  EscrowPromise
