CONSTANTS
  MaxChar <- MC_MaxChar
  MaxTurn <- MC_MaxTurn
  StorageMayFail = FALSE
SPECIFICATION Spec
INVARIANT NothingStoredOnDeathScreen
