SPECIFICATION Spec
CONSTANTS
  Sessions = {s1}
  Requests = {r1, r2, r3}
  None = None
  MaxCandidateTurns = 2
  PoolSize = 3
  Overlap = TRUE
CHECK_DEADLOCK FALSE
INVARIANT AcknowledgedTurnsAreKept
