SPECIFICATION LogSpec
CONSTANTS
  t1 = t1
  t2 = t2
  Threads <- MCThreads
  Names <- MCNames
  MaxCalls = 2
SYMMETRY MCSymmetry
INVARIANTS
  LogTypeOK
  LevelSettles
  UnknownReported
  FatalIsHeard
  LogInv
CHECK_DEADLOCK FALSE
