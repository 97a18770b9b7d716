SPECIFICATION MCSpec
CONSTANTS
  c1 = c1
  c2 = c2
  a1 = a1
  a2 = a2
  table = table
  column = column
  Conversations = {c1, c2}
  AccountOf <- MCAccountOf
  Old = old
  New = new
  Base = base
  Shadow = shadow
  None = None
  MaxFaults = 1
  MaxRestarts = 1
  Syncs = {s1, s2}
  Embedders = {old, new}
  Manifests <- MCManifests
  MaxSyncs = 4
  TemplateFiles = {f1, f2}
  Authored <- MCAuthored
  Arguments <- MCArguments
  ResultRows = {0, 2, 3, 4}
  Nothing = Nothing
  MaxEdits = 1
SYMMETRY SearchSymmetry
INVARIANT OneModelPerIndex
INVARIANT CutOverKeepsAll
INVARIANT OffboardedStaysGone
INVARIANT CallsAsDeclared
INVARIANT CatalogOfOneManifest
\* the faults, the syncs and the restarts are used up
CHECK_DEADLOCK FALSE
