SPECIFICATION Spec
CONSTANTS
  Sessions = {s1}
  Requests = {r1, r2, r3, r4}
  None = None
  MaxCandidateTurns = 2
  PoolSize = 4
  Overlap = TRUE
CHECK_DEADLOCK FALSE
SYMMETRY Interchangeable
INVARIANT TypeOK
INVARIANT GradeIsAtomic
INVARIANT RepliesSawTheirContext
INVARIANT CapIsAnnounced
PROPERTY FinishedSettles
