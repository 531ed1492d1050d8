CONSTANTS
  p1 = p1
  p2 = p2
  guardian = guardian
  app = app
  k1 = k1
  k2 = k2
  k3 = k3
  Policies <- TwoPolicies
  Clients <- TwoClients
  Equipped <- TwoClients
  Calls = {k1, k2, k3}
  ClientOf <- TwoAndOne
  Plans <- PlansForBoth
  Faults <- SkewedRestarts
  RateLimit = 2
  WriteThrottle = 2
  StartTime = 1
  MaxTime = 3
  MaxTxs = 3
SYMMETRY SameClient
SPECIFICATION Spec
CHECK_DEADLOCK FALSE
INVARIANTS
  TypeOK
  ResolvedSigIsAnExit
  CacheHoldsOwnExits
