SPECIFICATION Spec
CONSTANTS
  Nodes = {n1, n2, n3}
  NULL = NULL
  Pids = {1}
  NODESTRUCT = {}
  Ticks = {1}
  Levels = {0, 1}
  ALLOC_NUM = 3
  FreeMode = FALSE
  Calls <- ExitCalls
  MaxCalls = 2
SYMMETRY Symmetry
INVARIANTS IInv ListsExact
PROPERTY ImplementsTick
