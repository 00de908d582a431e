SPECIFICATION Spec
CONSTANTS
  Procs = {p1, p2}
  Bufs = {1, 2, 3}
  Blocks = {b1, b2, b3, b4}
  Vals = {0, 1}
  MaxPinned = 2
  ReadErrors = FALSE
  NoBlock = NoBlock
  NoBuf = 0
  Nobody = Nobody
SYMMETRY Symmetry
INVARIANTS
  OneCopy
  NoLostRequest
PROPERTY
  ImplementsStore
