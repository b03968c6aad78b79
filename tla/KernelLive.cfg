SPECIFICATION IOSpec
CONSTANTS
  vBuf = {1, 2, 3}
  vBlock = {0, 1, 2}
  SPB = 2
  Kinds = {FALSE}
  vNoRequest = vNoRequest
  NUM = 7
  IdxRange = 14
  FirstIdx = 12
  MaxCalls = 3
  Writers = {1, 2}
  Readers = {3}
  PIPESIZE = 1
  Wrap = 2
  MaxBytes = 3
  WriteLens = {2}
  ReadLens = {2}
  Free = 0
  ConsReaders = {1, 2}
  INPUT_BUF_SIZE = 2
  ConsWrap = 4
  ReadSizes = {2}
  Unheld = 0
  TxWriters = {1, 2}
  SyncCpus = {c1}
  UART_TX_BUF_SIZE = 2
  FifoDepth = 2
  MaxPut = 3
  MaxSync = 1
  Intr = 3
  NoOne = 0
  Sleepers = {1}
  TickRange = 8
  Cpus = {1}
  Locks = {1}
  HandlerLocks = {1}
PROPERTIES
  RequestReturns
  CloseEndsWaits
  EnteredIsRead
  OutputIsSent
  SleepEnds
