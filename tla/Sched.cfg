SPECIFICATION FairSpec
CONSTANTS
  NPROC = 3
  NCPU = 2
  MAX_WAITING_TIME = 2
  MinWaited <- MinWaitedDef
  LevelArgs = {1, 3, 5}
  Targets = {3}
  TicketArgs = {2}
  Blocking = TRUE
INVARIANTS
  LotteryProportional
PROPERTIES
  NoStarvation
