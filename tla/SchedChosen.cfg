SPECIFICATION Spec
CONSTANTS
  NPROC = 2
  NCPU = 1
  MAX_WAITING_TIME = 3
  MinWaited <- MinWaitedDef
  LevelArgs = {}
  Targets = {}
  TicketArgs = {}
  Blocking = TRUE
PROPERTIES
  ChosenRuns
