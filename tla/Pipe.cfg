SPECIFICATION FairSpec
CONSTANTS
  Procs = {p1, p2}
  Bytes = {0, 1}
  PIPESIZE = 2
  WORD = 4
  MaxN = 3
CHECK_DEADLOCK FALSE
INVARIANTS
  NoMissedWakeup
PROPERTIES
  ImplementsFifo
  HangUp
