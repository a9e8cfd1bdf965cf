SPECIFICATION Spec
CONSTANTS
  Procs = {p1}
  HOOK = HOOK
  RETRIES = 4
  MAX_REQUESTS = 4
  MaxTransfers = 1
  Events <- NoEvents
INVARIANT WaitersQueued
CHECK_DEADLOCK FALSE
