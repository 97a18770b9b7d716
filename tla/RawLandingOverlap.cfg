SPECIFICATION MCSpec
CONSTANTS
  None = None
  day1 = day1
  day2 = day2
  run1 = run1
  run2 = run2
  run3 = run3
  clean = clean
  dirty = dirty
  broken = broken
  empty = empty
  Slices = {day1, day2}
  Runs = {run1, run2, run3}
  Payloads = {clean, broken, empty}
  Prior <- MCPrior
  ValidRows <- MCValidRows
  BadRows <- MCBadRows
  QuarantinePct = 1
  VolumeMode = "fail"
  CopyThenDelete = FALSE
  Overlap = TRUE
  MaxFaults = 1
  j1 = j1
  j2 = j2
  t1 = t1
  t2 = t2
  Jobs = {j1, j2}
  PriorJobs <- MCPriorJobs
  LandingAttempts = {t1, t2}
  Sla = 1
  MaxMinutes = 2
  MaxStorageFaults = 2
SYMMETRY RunSymmetry
INVARIANT RefusedNeverInTable
INVARIANT CallsHold
INVARIANT FreshnessTells
\* the attempts are used up
CHECK_DEADLOCK FALSE
