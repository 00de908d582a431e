SPECIFICATION Spec
CONSTANTS
  NPROC = 4
  NCPU = 2
  MaxPid = 4
  KillPids = {0, 1, 2, 3, 4}
  TicksMod = 3
  SleepTimes = {2}
CONSTRAINT Regions
INVARIANTS
  NoMissedTick
  SwitchInv
  NoMissedExit
