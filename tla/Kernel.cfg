SPECIFICATION KernelSpec
CONSTANTS
  vBuf = {1, 2, 3}
  vBlock = {0, 1, 2}
  SPB = 2
  Kinds = {TRUE, FALSE}
  vNoRequest = vNoRequest
  NUM = 7
  IdxRange = 14
  FirstIdx = 12
  MaxCalls = 3
  Writers = {1, 2}
  Readers = {3}
  PIPESIZE = 2
  Wrap = 4
  MaxBytes = 5
  WriteLens = {3}
  ReadLens = {2}
  Free = 0
  ConsReaders = {1, 2}
  INPUT_BUF_SIZE = 2
  ConsWrap = 4
  ReadSizes = {2}
  Unheld = 0
  TxWriters = {1, 2}
  SyncCpus = {c1}
  UART_TX_BUF_SIZE = 2
  FifoDepth = 2
  MaxPut = 5
  MaxSync = 3
  Intr = 3
  NoOne = 0
  Sleepers = {1, 2}
  TickRange = 4
  Cpus = {1, 2}
  Locks = {1, 2}
  HandlerLocks = {1, 2}
  Procs = {p0, p1, p2}
  Init1 = p0
  NFILE = 2
  NOFILE = 2
  Pipes = {pg}
  Inodes = {in1}
  Root = root
  FsProc = {p1, p2}
  NINODES = 4
  Calls <- MCCalls
  MaxFsCalls = 3
  DFile = {p1, p2}
  i1 = i1
  i2 = i2
  DInode <- MCInodes
  NDIRECT = 1
  NINDIRECT = 4
  BSIZE = 2
  DBlocks = 8
  BPB = 1
  MAXOPBLOCKS = 10
  UINT = 32
  WriteLengths = {1, 7}
  ReadLengths = {1, 7, 31}
  Shortages = {0, 2}
  MaxDataOps = 3
  MProc = {1, 2}
  MFirst = 1
  NPAGE = 19
  FAN = 2
  PGSIZE = 2
  ADDR = 32
  Programs <- MCPrograms
  SbrkArgs <- MCSbrk
  CopyAddrs = {1, 4}
  CopyLens = {3, 6}
  MaxSz = 10
  MaxMemOps = 4
SYMMETRY Symmetry
INVARIANTS
  NobodyLeftAsleep
  StreamsInOrder
  ResourcesAccounted
  SpinSound
  Fs_InodesSound
  Fs_NamesSound
  Data_WritesSound
  Mem_CallsSound
PROPERTIES
  Disk_ImplementsDiskIO
  Cons_ImplementsLineInput
  SleepsLongEnough
  Data_ImplementsFiles
  Mem_ImplementsSpaces
