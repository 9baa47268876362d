SPECIFICATION Spec
CONSTANTS
  n1 = n1
  n2 = n2
  Nodes <- TwoNodes
  MaxAttempts = 2
  MaxIssue = 3
  SameSecond = TRUE
  ScanOverflows = FALSE
  MaxExpiries = 1
  MaxDropped = 1
  MaxCrashes = 1
SYMMETRY NodeSymmetry
INVARIANTS TypeOK ExclusiveLease RecoveryBeforeRetry AcceptedOnce LifecycleIsQuiet UndisturbedWorkSurvives
PROPERTIES StableBaseline
CHECK_DEADLOCK FALSE
