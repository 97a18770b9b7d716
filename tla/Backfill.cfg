SPECIFICATION MCSpec
CONSTANTS
  Hours = {1, 2}
  PageTypes <- MCPageTypes
  None = None
  MaxActiveRuns = 1
  Retries = 1
  MaxClears = 0
  MaxFaults = 2
  Contract <- Columns
  Spare = {"event_name", "_event"}
  Internal = {"_event"}
  EnumColumn = "event_type"
  Known = {6, 7, 8}
  EnumLimit = 2
  DateColumn = "event_ts"
  Days = {6, 7, 8, 9}
  Garbage = {99}
  AsOfDay = 8
  MaxLag = 1
  Lookback = 1
  EnumValues = {6, 7, 8, 9, 99}
  MaxChanges = 3
PROPERTY BackfillDrains
INVARIANT DriftExact
\* a finished backfill stops, and the changes are used up
CHECK_DEADLOCK FALSE
