SPECIFICATION Spec
CONSTANTS
  Readers <- MCReaders
  Loop = "loop"
  Promo = "promo"
  MaxKeys = 3
PROPERTY PlayerCanContinue
CHECK_DEADLOCK FALSE
