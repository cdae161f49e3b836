SPECIFICATION Spec
CONSTANTS
  Readers <- MCReaders
  Game = "game"
  ChargenKeys = 2
  Keys = 3
INVARIANTS
  TypeOK
  NoReaderStarves
  CapturedAtRest
  NoListenerLeft
PROPERTIES
  RefinesFifo
  ReplayEnds
CHECK_DEADLOCK FALSE
