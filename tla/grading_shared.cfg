SPECIFICATION Spec
CONSTANTS
  Requests = {r1, r2, r3}
  Answers = {a1, a2}
  Errors = {e1}
  None = None
SYMMETRY Interchangeable
INVARIANTS TypeOK GradesAreStable GradesAreWhole
PROPERTY ImplementsGrades
CHECK_DEADLOCK FALSE
