SPECIFICATION Spec
CONSTANTS
  NPROC = 3
  NCPU = 2
  MaxPid = 4
  KillPids = {0, 1, 2, 3, 4}
  TicksMod = 1
  SleepTimes = {}
INVARIANTS
  RunningOnOneCPU
  StackInUse
  KillFindsProcess
PROPERTY
  ImplementsTree
