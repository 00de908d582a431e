SPECIFICATION FairSpec
CONSTANTS
  Procs = {p1, p2}
  Blocks = {b1, b2}
  Vals = {0, 1}
  LOGSIZE = 8
  MAXOPBLOCKS = 4
  OPBLOCKS = 2
  NoBlock = NoBlock
INVARIANTS
  NoPanic
  CleanIsOnDisk
PROPERTIES
  ImplementsAtomicDisk
  RecoveryEnds
  WaiterWakes
