SPECIFICATION ProcessesSpec
CONSTANTS
  c1 = c1
  c2 = c2
  NPROC = 3
  CPU <- TwoCPUs
  Proc = {p1, p2}
  NPETERSONLOCKS = 2
  MaxArg = 33
  HeapTop = 11
  NALLOC = 4
  HdrSize = 2
  UINT = 32
  Requests = {0, 1, 3, 5, 13, 28, 30, 31}
  MaxLive = 4
  MAXARGS = 3
  MaxLine = 5
SYMMETRY ProcessSymmetry
INVARIANTS
  StackOwned ParentCanWait NoLostWakeup WalkIsRight HeapSound ParsedRight
PROPERTY ImplementsPeterson
