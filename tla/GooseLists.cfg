SPECIFICATION Spec
CONSTANTS
  Nodes = {n1, n2, n3}
  NULL = NULL
  Pids = {1, 2}
  NODESTRUCT = {2}
  Ticks = {1}
  Levels = {0}
  ALLOC_NUM = 2
  FreeMode = FALSE
  Calls <- ListCalls
  MaxCalls = 2
SYMMETRY Symmetry
INVARIANTS ListsExact CursorLive LoopCursorLive StacksOwned KillallComplete
