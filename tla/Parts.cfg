SPECIFICATION MCSpec
CONSTANTS
  w1 = w1
  w2 = w2
  b1 = b1
  b2 = b2
  c1 = c1
  c2 = c2
  TaskPosted = TaskPosted
  TaskSubmitted = TaskSubmitted
  Workers <- MCWorkers
  BountyIds <- MCBounties
  Rewards <- MCRewards
  MaxCount = 1
  MaxAmount = 3
  Tracks = {services, social}
  Bases <- MCBases
  Multipliers <- MCMultipliers
  MinMultiplier = 2
  MaxMultiplier = 8
  Denom = 4
  MaxU32 = 4
  MaxU128 = 36
  MaxMessages = 2
  MaxTime = 2
  Window = 1
  Limit = 2
  Kinds <- MCKinds
  MAX_REPLIES_PER_CYCLE = 1
  MaxMishaps = 1
  Invited = {1, 2}
  Matching = {1}
  MAX_INVITATIONS_PER_BOUNTY = 1
  COVERAGE_DAILY_CAP = 1
  ONE_DAY_MS = 1
  CoverageEvery = 2
  MaxTicks = 2
  MaxCycles = 2
  MaxThrows = 1
  Consumers = {c1, c2}
  EventNames = {TaskPosted, TaskSubmitted}
  Subject <- MCSubject
  Contents <- MCContents
  MaxHeads = 2
  MaxAsks = 3
  MaxFaults = 1
  CallKinds <- MCCallKinds
  MaxCalls = 3
  MaxBlocks = 2
  p1 = p1
  p2 = p2
  price = price
  stats = stats
  tasks = tasks
  Fallback = Fallback
  Null = Null
  TopicNames <- MCTopicNames
  Entries <- MCEntries
  TOPIC_OVERRIDES <- MCOverrides
  CAPABILITY_INDEX <- MCIndex
  BountyTexts <- MCBountyTexts
  MAX_TOPICS = 2
INVARIANTS
  PartsTypeOK
  ScoresMatchLedger
  DemandAddsUp
  EffectiveBand
  TwiceNeedsBoth
  PassedIsSettled
  CapsKept
  UnderlyingFollowsUse
  NothingSkippedInBlock
  AccountedFor
  AttributionSound
  NoBetterOffer
PROPERTIES
  SilentAfterUnsubscribe
  MentionsSettle
  DeliverableIsReady
CHECK_DEADLOCK FALSE
