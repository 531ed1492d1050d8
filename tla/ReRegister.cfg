CONSTANTS
  m1 = m1
  m2 = m2
  ZONES <- AllZones
  Machines = {m1}
  Faults <- FetchOnly
  MaxAssets = 5
  MaxFaults = 0
SPECIFICATION Spec
CHECK_DEADLOCK FALSE
INVARIANTS
  NoDuplicateIdentities
