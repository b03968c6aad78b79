SPECIFICATION FairSpec
CONSTANTS
  c1 = c1
  c2 = c2
  NPROC = 3
  CPU <- OneCPU
PROPERTIES InitReaps KilledExits
