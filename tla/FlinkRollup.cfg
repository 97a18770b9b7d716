SPECIFICATION FairSpec
CONSTANTS
  p1 = p1
  p2 = p2
  Partitions = {p1, p2}
  Logs <- MCLogs
  Quiet = {p2}
  Window = 2
  Delay = 1
  RestartAttempts = 1
  MaxBlock = 2
  MaxFaults = 1
INVARIANT OnlyStragglersDropped
INVARIANT CountsHold
PROPERTY PassedWindowsLand
\* a job that is out of restarts stops
CHECK_DEADLOCK FALSE
