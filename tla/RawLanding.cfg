SPECIFICATION FairSpec
CONSTANTS
  None = None
  day1 = day1
  day2 = day2
  run1 = run1
  run2 = run2
  run3 = run3
  clean = clean
  dirty = dirty
  broken = broken
  empty = empty
  Slices = {day1}
  Runs = {run1, run2, run3}
  Payloads = {clean, dirty, broken, empty}
  Prior <- MCPrior
  ValidRows <- MCValidRows
  BadRows <- MCBadRows
  QuarantinePct = 1
  VolumeMode = "warn"
  CopyThenDelete = TRUE
  Overlap = FALSE
  MaxFaults = 2
INVARIANT CompletedIsConsistent
PROPERTY PublishedInOrder
PROPERTY SettledSpec
PROPERTY EventuallyLanded
\* the attempts are used up
CHECK_DEADLOCK FALSE
