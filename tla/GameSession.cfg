CONSTANTS
  MaxChar <- MC_MaxChar
  MaxTurn <- MC_MaxTurn
  StorageMayFail = TRUE
SPECIFICATION Spec
INVARIANTS
  TypeOK
  OneInFlightOneWaiting
  LatestSnapshotKept
  TextsDoNotOverlap
  NoAutosaveAfterGame
  OneCharacter
PROPERTIES
  RefinesCrashRecovery
  WaitingSnapshotLands
