SPECIFICATION FairSpec
CONSTANTS
  p1 = p1
  p2 = p2
  b1 = b1
  b2 = b2
  b3 = b3
  Proc <- TwoProcs
  Block <- ThreeBlocks
  Value = {0, 1}
  Blank = 0
  MAXOPBLOCKS = 2
  LOGSIZE = 6
  NLOG = 6
INVARIANTS ReservationHolds
PROPERTIES CrashAtomic SleeperWoken
