SPECIFICATION Spec
CONSTANTS
  Procs = {p1, p2, p3}
  Levels = {1, 2}
  First = 1
  Things = {sword}
  MaxAlive = 1
  MaxBeside = 1
SYMMETRY ProcSymmetry
INVARIANT RecoveredAtLastLevelChange
CHECK_DEADLOCK FALSE
