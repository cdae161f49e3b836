SPECIFICATION Spec
CONSTANTS
  Readers <- MCReaders
  Loop = "loop"
  Promo = "promo"
  MaxKeys = 3
INVARIANTS
  PageTypeOK
  NoReadForgotten
PROPERTIES
  RefinesFifo
CHECK_DEADLOCK FALSE
