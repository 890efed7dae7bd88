SPECIFICATION FairSpec
CONSTANTS
  Sessions = {s1, s2, s3}
  Requests = {r1, r2, r3}
  None = None
  MaxCandidateTurns = 2
  PoolSize = 2
  Overlap = FALSE
INVARIANT TurnIndexNamesReply
PROPERTIES ImplementsDialogue Answered
CHECK_DEADLOCK FALSE
