CONSTANTS
  NoResult = NoResult
  Speed <- MCSpeed
  C6Speed <- MCC6Speed
  Baseline = 4
  KeepPct = 25
  MaxRuns = 2
SPECIFICATION Spec
INVARIANT KeepsOnlyMeasuredWins
CHECK_DEADLOCK FALSE
