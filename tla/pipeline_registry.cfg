SPECIFICATION Spec
CONSTANTS
  Workflows = {w1, w2}
  Baseline = baseline
  Blank = Blank
  EvalRuns = 1
  EvalRequired = 1
INVARIANT EveryPromotionIsRecorded
CHECK_DEADLOCK FALSE
