SPECIFICATION Spec
CONSTANTS
  Objs <- MCObjs
  Kind <- MCKind
  Levels <- MCLevels
  Marks <- MCMarks
  Stock <- MCStock
  D1 = D1
  D2 = D2
  AgeBand = 2
  MaxCandles = 1
  LampFull = 2
  LampCap = 3
  PrayerTurns = 2
  MaxMoves = 5
SYMMETRY LevelSymmetry
INVARIANTS
  LitTypeOK
  LitHasLightAndTimer
  NothingDangling
  NothingOverdue
  LateOnlyAfterPrayer
PROPERTIES
  RefinesClock
