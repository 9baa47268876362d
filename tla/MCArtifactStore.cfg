SPECIFICATION FairSpec
CONSTANTS
  r1 = r1
  r2 = r2
  c1 = c1
  u1 = u1
  None = None
  Runs = {r1, r2}
  Recurring = {c1}
  Unique = {u1}
  Threads = 4
  Faults = {"crash", "raise", "cancel"}
  MaxPublications = 2
  MaxDays = 1
  MaxFaults = 1
INVARIANTS ReferencesResolve
PROPERTIES  JobsEnd
CHECK_DEADLOCK FALSE
