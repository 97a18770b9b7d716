SPECIFICATION FairSpec
CONSTANTS
  None = None
  c1 = c1
  c2 = c2
  p1 = p1
  p2 = p2
  Consumers = {c1, c2}
  Partitions = {p1, p2}
  Logs <- MCLogs
  BatchSize = 2
  MaxFaults = 1
INVARIANT NothingLost
INVARIANT NoDuplicateWithoutFault
PROPERTY CommittedNeverBack
PROPERTY EverythingStored
