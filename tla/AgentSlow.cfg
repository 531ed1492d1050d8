CONSTANTS
  pool = pool
  guardian = guardian
  h1 = h1
  h2 = h2
  Position = pool
  Process = guardian
  Handlers = {h1, h2}
  TickMs = 3
  Jitter = 1
  Cycle = 8
  PeakBps = 4000
  BreachBps = 2500
  ReadThrottle = 3
  RateLimit = 6
  WriteThrottle = 6
  MaxLatency = 3
  Faults = {}
  StartTime = 1
  MaxTime = 40
  MaxTxs = 8
SPECIFICATION Spec
CHECK_DEADLOCK FALSE
INVARIANTS
  GuardianSeesSuccess
