SPECIFICATION MCSpec
CONSTANTS
  Keys = {k1, k2}
  MaxConcurrentRuns = 1
  MaxStartAttempts = 1
  MaxLandings = 2
  MaxCallFaults = 2
  Wals <- MCWals
  Minute = 2
  Disorder = 1
  MaxRestarts = 1
  Batches <- MCBatches
  RetainLast = 2
  MaxSnapshots = 4
  MaxWrites = 4
  MaxStreamDeaths = 1
  BatchSize = 6
  FlushInterval = 4
  PollTimeout = 2
  MaxSkipped = 2
  a1 = a1
  a2 = a2
  Accounts = {a1, a2}
  Conversations <- MCConversations
  HoursPerDay = 2
  RawDays = 1
  MaxDays = 1
  MaxHours = 2
  MaxHour = 4
  MaxConversations = 2
  BlockSize = 2
  MaxInsertFaults = 1
  MaxRebuilds = 1
INVARIANT CountsWhatItWrote
INVARIANT LandedAloneIsProcessed
INVARIANT WindowsExact
INVARIANT ReplayConverges
INVARIANT FilesExist
INVARIANT WaitBounded
INVARIANT AnswersFollowRows
PROPERTY ProcessedNeverBack
\* the paths end when their bounds are used up
CHECK_DEADLOCK FALSE
