CONSTANTS
  CPUs = {c1, c2}
  Threads = {t1, t2}
  Locks = {1, 2}
  None = None
  Slots = {1, 2}
  InitSlot = 1
  NPages = 12
  Pg = 2
  PTab = 3
  KTabs = 1
  KernBase = 12
  Word = 24
  KernTop = 18
  DevSpace = 22
  Deltas <- MCDeltas
  Programs <- MCPrograms
  ArgLists <- MCArgLists
  MaxArg = 3
  Procs = {p1, p2}
  FirstProc = p1
  NOFile = 2
  NFile = 3
  PipeIds = {1}
  Writers = {w1, w2}
  Inodes = {1, 2, 3}
  Root = 1
  OpenFiles = {1, 2}
  BSize = 2
  NDirect = 2
  NMeta = 3
  NBlocks = 14
  MaxOpBlocks = 6
  Image <- MCImage
  Counts = {7}
  MaxWrites = 2
  Units = {2, 3, 5}
  NAlloc = 4
  HeapMax = 14
  Lines <- MCLines
  MaxArgs = 3
  Jobs = {1, 2, 3, 4, 5}
  ShPipes = {1, 2}
  MaxLines = 1
INIT PartsInit
NEXT PartsNext
INVARIANTS
  Exclusion Matched Conserved ArgsMapped ExecStack FileRefs EndsClosedOnce
  EachBlockOnce ReadsBack OpFits HeapTiled Parses PromptComes
CHECK_DEADLOCK FALSE
