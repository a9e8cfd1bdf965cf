SPECIFICATION Spec
CONSTANTS
  Callers = {1, 2}
  NUM_DISK_CACHE_BLOCKS = 2
  NumBlocks = 3
  Values = {0, 1}
  MaxNum = 1
  MaxUsage = 2
  Faults <- NoFaults
  Beside <- ReadBesideWrite
INVARIANT InSync
CHECK_DEADLOCK FALSE
