CONSTANTS
  v1 = v1
  v2 = v2
  Vaults <- MCVaults
  Ciphertexts <- MCCiphertexts
  Handles <- MCHandles
  CtLen = 4
  HandleLen = 2
  TagLen = 2
  StartTime = 1
  MaxTime = 2
SPECIFICATION Spec
INVARIANTS
  AccountsTyped
  HashMatchesContent
PROPERTIES
  SingleChangeShows
