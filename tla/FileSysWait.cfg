SPECIFICATION Spec
CONSTANTS
  Procs = {p1, p2}
  Inums = {1, 2, 3}
  Names = {"a", "b"}
  Paths <- MCPaths
  LinkPaths <- MCLinkPaths
  Trees <- MCTrees
  MaxCalls = 3
SYMMETRY Symmetry
INVARIANT NoDeadlock
CHECK_DEADLOCK FALSE
