SPECIFICATION Spec
CONSTANTS
  Workflows = {w1, w2, w3}
  Baseline = baseline
  Blank = Blank
  EvalRuns = 3
  EvalRequired = 2
INVARIANTS TypeOK OnlyGatedModelsServe ServingWasRecorded SerialRegistryIsTrue
CHECK_DEADLOCK FALSE
