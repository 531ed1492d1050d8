CONSTANTS
  p1 = p1
  p2 = p2
  guardian = guardian
  app = app
  k1 = k1
  k2 = k2
  k3 = k3
  Policies <- OnePolicy
  Clients <- TwoClients
  Equipped <- Guardian
  Calls = {k1, k2}
  ClientOf <- OneEach
  Plans <- SoundPlans
  Faults <- SkewAndDrops
  RateLimit = 2
  WriteThrottle = 3
  StartTime = 1
  MaxTime = 7
  MaxTxs = 4
SPECIFICATION FairSpec
CHECK_DEADLOCK FALSE
INVARIANTS
  NeverRefused
PROPERTIES
  ResolvesWithLatest
  EveryCallSettles
