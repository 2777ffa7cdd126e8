SPECIFICATION Spec
CONSTANTS
  alice = alice
  root = root
  services = services
  nobody = nobody
  Actors <- MCActors
  Owner = root
  NoActor = nobody
  Tracks <- MCTracks
  Rewards <- MCRewards
  Values <- MCExact
  Deadlines <- MCDeadlines
  min_reward = 1
  MaxId = 2
  MaxBlock = 1
INVARIANT Solvent
