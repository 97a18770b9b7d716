SPECIFICATION Spec
CONSTANTS
  None = None
  s1 = s1
  s2 = s2
  o1 = o1
  o2 = o2
  Promoters = {s1, s2}
  Operators = {o1, o2}
  Kept = 3
  MaxReleases = 5
SYMMETRY SessionSymmetry
INVARIANT GoldMatchesLog
PROPERTY RollbackRestores
\* the release ids are used up
CHECK_DEADLOCK FALSE
