SPECIFICATION FsSpec
CONSTANTS
  FsProc = {p1, p2}
  NINODES = 4
  Calls <- MCCalls
  MaxFsCalls = 2
INVARIANT UnnamedIsFreed
