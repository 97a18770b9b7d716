SPECIFICATION MCSpec
CONSTANTS
  BatchSizes = {1, 3}
  BaselineRuns = 3
  ThrottleRuns = 2
  RetainLast = 2
  AsOfDates = {1}
  OtherAlerts = {other}
  MaxDay = 2
  MaxSnapshots = 5
  MaxRuns = 4
  Drifts = {"renamed", "enum_drift"}
  MaxAgentRuns = 2
INVARIANT CleanSaysWhatRan
CHECK_DEADLOCK FALSE
