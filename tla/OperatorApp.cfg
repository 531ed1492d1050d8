CONSTANTS
  w1 = w1
  w2 = w2
  none = none
  guardian = guardian
  k1 = k1
  k2 = k2
  Wallets = {w1, w2}
  NoWallet = none
  Guardian = guardian
  Calls = {k1, k2}
  DevMultisig = TRUE
  Drawdowns = {1, 2}
  Base = 2
  Width = 2
  TagAt = 2
  CtLen = 3
  STUB <- MCStub
  HandleLen = 1
  TagLen = 1
  Faults <- MCFaults
  RateLimit = 2
  StartTime = 1
  MaxTime = 5
  MaxTxs = 2
  MaxEvents = 3
SPECIFICATION FairSpec
CHECK_DEADLOCK FALSE
INVARIANTS
  TypeOK
  ShownIsLastSubmission
  StoredIsChosen
  RowsAreDistinctExits
PROPERTIES
  ProposalSettles
