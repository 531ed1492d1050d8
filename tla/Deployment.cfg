CONSTANTS
  MaxIds = 4
  MaxMultisigs = 2
  MaxLosses = 1
SPECIFICATION Spec
INVARIANTS
  TypeOK
  PreflightIsEnough
  DeploymentsNeedLosses
  MismatchNeedsLoss
