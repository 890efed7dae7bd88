SPECIFICATION Spec
CONSTANTS
  MaxTakes = 1
  None = None
INVARIANT UnmountCleansUp
CHECK_DEADLOCK FALSE
