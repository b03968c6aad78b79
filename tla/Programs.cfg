SPECIFICATION ProgramsSpec
CONSTANTS
  Proc <- MCProc
  MaxProcesses = 4
  NPETERSONLOCKS = 3
  MayFail = TRUE
  MAXARGS = 3
  MaxLine = 0
  NPROCS = 6
  NFDS = 5
  RunLines <- MCRunLines
INVARIANTS
  TreeExcludes RunsAsWritten
PROPERTIES
  KeepsDiscipline TournamentCompletes PromptReturns
