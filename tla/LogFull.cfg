SPECIFICATION Spec
CONSTANTS
  p1 = p1
  p2 = p2
  b1 = b1
  b2 = b2
  b3 = b3
  Proc <- TwoProcs
  Block <- ThreeBlocks
  Value = {0}
  Blank = 0
  MAXOPBLOCKS = 1
  LOGSIZE = 3
  NLOG = 3
SYMMETRY Symmetry
INVARIANT NeverTooBig
