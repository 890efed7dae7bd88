SPECIFICATION Spec
CONSTANTS
  Requests = {r1, r2}
  Answers = {a1}
  Errors = {e1}
  None = None
SYMMETRY Interchangeable
INVARIANT RetrievalNeverBreaksGrading
CHECK_DEADLOCK FALSE
