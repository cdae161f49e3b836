SPECIFICATION Spec
CONSTANTS
  Procs = {p1, p2, p3, p4, p5}
  Levels = {1, 2}
  First = 1
  Things = {sword}
  MaxAlive = 2
  MaxBeside = 3
SYMMETRY ProcSymmetry
VIEW View
INVARIANTS
  LevelTypeOK
  EverythingInPlace
  LastCheckpointOnDisk
  OnlyRivalsAccused
  OwnLevelsOnly
CHECK_DEADLOCK FALSE
