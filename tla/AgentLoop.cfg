CONSTANTS
  pool = pool
  guardian = guardian
  h1 = h1
  h2 = h2
  Position = pool
  Process = guardian
  Handlers = {h1, h2}
  TickMs = 2
  Jitter = 1
  Cycle = 6
  PeakBps = 4000
  BreachBps = 600
  ReadThrottle = 2
  RateLimit = 4
  WriteThrottle = 4
  MaxLatency = 1
  Faults <- Lossy
  StartTime = 1
  MaxTime = 12
  MaxTxs = 3
SYMMETRY AnyHandler
SPECIFICATION Spec
CHECK_DEADLOCK FALSE
INVARIANTS
  TypeOK
  VerdictLagsOneTick
  BreachIsExited
  FailureHasCause
  CacheIsLatest
