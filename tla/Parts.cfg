SPECIFICATION PartsSpec
CONSTANTS
  Parts = {"coin", "serial", "cmos", "objects", "textures"}
  OnDebounce = 2
  OffDebounce = 3
  MeterPeriod = 2
  MaxCoins = 3
  CBUFSIZE = 3
  MaxSent = 4
  MaxHeard = 4
  MaxCount = 2
  AuditCounts = {2}
  Ranges <- ThreeAdjustments
  MaxSets = 1
  MaxCuts = 1
  ObjectNodes = {o1, o2, o3}
  NoObject = NoObject
  OBJECT_BLOCK = 2
  ObjectIds = {1, 2}
  DrawOrders = {1, 2}
  MaxObjectCalls = 5
  TextureNodes = {x1, x2, x3}
  NoTexture = NoTexture
  NoMemory = NoMemory
  TEXTURE_BLOCK = 2
  TextureNames = {1, 2}
  TextureIds = {1}
  TextureKinds <- WholeAndSplit
  TMUs = {0, 1}
  TmuHalf = 3
  TextureCallers = {1, 2}
  MaxTextureCalls = 4
INVARIANTS PartsTypeOK CoinsKept CoinsMetered StoredTrusted KeptAcrossPower FrameComplete
  TexturesExact TextureMemoryExact
PROPERTIES EveryCoinPulsed NothingReordered SenderResumes RamCatchesUp
CHECK_DEADLOCK FALSE
