SPECIFICATION Spec
CONSTANTS
  Names = {a, b}
  Handles = {h1}
  Nil = Nil
  CLUSTER_SIZE = 2
  DIR_ENTRIES = 2
  FSB_BUF_COUNT = 3
  FAT_SECTOR = 2
  FAT_WINDOW = 4
  LastCluster = 12
  MaxSize = 6
  Lengths = {1, 3, 6}
  Positions = {0, 3}
  MaxCalls = 9
  Careless <- Careful
INVARIANT FindsValidData
CHECK_DEADLOCK FALSE
