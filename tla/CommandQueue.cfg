CONSTANTS
  Prefixes <- MC_Prefixes
  Plain <- MC_Plain
  ExtFns <- MC_ExtFns
  Letter = "b"
  Apply = "a"
  Hash = "#"
  DoApply = "doapply"
  NoKey = "none"
  MaxRecord = 4
SPECIFICATION Spec
INVARIANTS
  TypeOK
  RepeatsWhatWasTyped
  ModesOnlyInCommand
  LetterForItsCommand
PROPERTIES
  RefinesDoAgain
CHECK_DEADLOCK TRUE
