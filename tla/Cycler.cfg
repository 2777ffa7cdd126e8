SPECIFICATION FairCycler
CONSTANTS
  cycler = cycler
  worker = worker
  nobody = nobody
  services = services
  Actors <- MCActors
  Owner = worker
  NoActor = nobody
  Tracks <- MCTracks
  Rewards <- MCRewards
  Values <- MCRewards
  Deadlines <- MCDeadlines
  min_reward = 1
  MaxId = 2
  MaxBlock = 0
  Operator = cycler
  POST_REWARD_ATOMIC = 1
  MaxBegun = 2
  MaxLost = 1
INVARIANT OnePostPerCycle
PROPERTIES
  NeverTakenBack
  DeliveryIsAccepted
