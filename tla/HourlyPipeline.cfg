SPECIFICATION MCSpec
CONSTANTS
  Hours = {1, 2}
  PageTypes <- MCPageTypes
  None = None
  MaxActiveRuns = 2
  Retries = 0
  MaxClears = 1
  MaxFaults = 2
  Reads = {0, 1, 2, 99, 100, 101, 200, 203}
  Bads = {0, 1, 2}
  DayCounts = {0, 1, 50, 100, 101}
  NoManifest = NoManifest
  BaselineDays = 4
  Rows = {r1, r2, r3}
  r1 = r1
  r2 = r2
  r3 = r3
  Keys = {k1, k2}
  Null = Null
  NoRow = NoRow
  SaltRange = 2
  Fetches <- MCFetches
  MaxLoads = 3
SYMMETRY KeySymmetry
INVARIANT SettledOutputFresh
INVARIANT NewestHourJudged
INVARIANT JudgementsAgree
INVARIANT DropIn
INVARIANT EnginesAgree
\* a finished backfill stops, and the inputs are complete
CHECK_DEADLOCK FALSE
