SPECIFICATION Spec
CONSTANTS
  Callers = {1, 2}
  NUM_DISK_CACHE_BLOCKS = 2
  NumBlocks = 3
  Values = {0, 1}
  MaxNum = 2
  MaxUsage = 2
  Faults <- AllFaults
  Beside <- ReadsTogether
INVARIANTS TypeOK TagsUnique OnlyFailuresDiffer AloneReadsDisk
CHECK_DEADLOCK FALSE
VIEW Seen
