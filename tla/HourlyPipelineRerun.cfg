SPECIFICATION Spec
CONSTANTS
  Hours = {1, 2}
  PageTypes <- MCPageTypes
  None = None
  MaxActiveRuns = 1
  Retries = 0
  MaxClears = 0
  MaxFaults = 0
PROPERTY RerunKeepsOtherHours
\* a finished backfill stops
CHECK_DEADLOCK FALSE
