SPECIFICATION FairSpec
CONSTANTS
  Nodes = {n1, n2, n3}
  NULL = NULL
  Pids = {1}
  NODESTRUCT = {}
  Ticks = {1, 3}
  Levels = {0}
  ALLOC_NUM = 1
  FreeMode = TRUE
  Calls <- CrowdCalls
  MaxCalls = 1
INVARIANT TypeOK
PROPERTIES SuspensionHolds NoStarvation
