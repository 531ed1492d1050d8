CONSTANTS
  operator = operator
  stranger = stranger
  smoke = smoke
  agent = agent
  editor = editor
  Operator = operator
  Stranger = stranger
  Script = smoke
  Agent = agent
  Editor = editor
  Demo <- MCDemo
  Other <- MCOther
  CtLen = 1
  HandleLen = 1
  TagLen = 1
  Faults <- MCFaults
  ReadThrottle = 1
  WriteThrottle = 3
  RateLimit = 3
  CacheWait = 1
  EventWait = 1
  StartTime = 1
  MaxTime = 5
  MaxTxs = 3
  MaxEvents = 2
  MaxRuns = 2
SPECIFICATION Spec
CHECK_DEADLOCK FALSE
INVARIANTS
  TypeOK
  FailureHasCause
  CapturedIsOwnUnlessSlow
  PassedMeansOneExit
