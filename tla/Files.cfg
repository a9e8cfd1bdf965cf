SPECIFICATION Spec
CONSTANTS
  Names = {a, b}
  Handles = {h1, h2}
  Nil = Nil
  CLUSTER_SIZE = 2
  DIR_ENTRIES = 1
  FSB_BUF_COUNT = 3
  FAT_SECTOR = 2
  FAT_WINDOW = 4
  LastCluster = 11
  MaxSize = 6
  Lengths = {1, 6}
  Positions = {0, 3}
  MaxCalls = 9
  Careless <- Careful
SYMMETRY Symmetry
INVARIANTS TypeOK ChainsExact ReadsBack SurvivesPowerCut
PROPERTY ImplementsStore
CHECK_DEADLOCK FALSE
