CONSTANTS
  m1 = m1
  m2 = m2
  ZONES <- TwoZones
  Machines = {m1, m2}
  Faults <- AllFaults
  MaxAssets = 5
  MaxFaults = 1
SYMMETRY AnyMachine
SPECIFICATION Spec
CHECK_DEADLOCK FALSE
INVARIANTS
  TypeOK
  ResolvedMintIsCallers
  ConfigIsWhole
  DuplicatesNeedFaults
