SPECIFICATION Spec
CONSTANTS
  Procs = {p1, p2}
  HOOK = HOOK
  MAX_REQUESTS = 4
  RETRIES = 0
  MaxTransfers = 1
  Events <- QueueEvents
INVARIANTS TypeOK BufferHeld WritesFirst
PROPERTY ImplementsService
CHECK_DEADLOCK FALSE
