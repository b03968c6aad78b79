SPECIFICATION DisciplinedSpec
CONSTANTS
  Proc = {p1, p2, p3}
  NPETERSONLOCKS = 2
INVARIANTS MutualExclusion
PROPERTIES FifoOrder FifoProgress
CHECK_DEADLOCK FALSE
