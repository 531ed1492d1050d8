CONSTANTS
  p1 = p1
  p2 = p2
  g1 = g1
  g2 = g2
  Policies <- MCPolicies
  Guardians <- MCGuardians
  Requests <- MCRequests
  RateLimit <- MCRateLimit
  StartTime <- MCStartTime
  MaxTime <- MCMaxTime
SPECIFICATION Spec
INVARIANTS
  TypeOK
  SpacedExecutions
  RefusalIsJustified
  AnchorIsLastEvent
PROPERTIES
  LimiterSpec
