CONSTANTS
  v1 = v1
  v2 = v2
  k1 = k1
  k2 = k2
  Vaults <- MCVaults
  CtLen = 2
  HandleLen = 1
  TagLen = 1
  Submissions <- AllSubmissions
  Calls = {k1, k2}
  Equipped = {k1, k2}
  Faults <- AllFaults
  StartTime = 1
  MaxTime = 2
  MaxTxs = 3
SYMMETRY AnyCall
SPECIFICATION Spec
CHECK_DEADLOCK FALSE
INVARIANTS
  TypeOK
  PolicyIsLastLanded
  ResolvedHasLanded
  RefusedOnlyIfOvertaken
