CONSTANTS
  MaxRow = 2
  Kind <- KindsTwo
  KindFilters <- FiltersTwo
  Dispatchers = {d1, d2}
  MaxAttempts = 2
  BatchLimit = 1
  MaxFaults = 1
SPECIFICATION FairSpec
INVARIANTS TypeOK CompletedWasApplied
PROPERTIES EventuallySettled
CHECK_DEADLOCK FALSE
