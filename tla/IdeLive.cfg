SPECIFICATION FairSpec
CONSTANTS
  Procs = {p1, p2}
  HOOK = HOOK
  RETRIES = 4
  MAX_REQUESTS = 2
  MaxTransfers = 2
  Events <- LiveEvents
INVARIANTS DriveServesTail AnsweredWhole
PROPERTY BegunIsAnswered
CHECK_DEADLOCK FALSE
