SPECIFICATION Spec
CONSTANTS
  Procs = {a, b}
  CPUs = {c0}
  V = 1
  LISTLEN = 3
INVARIANT
  Exclusion
