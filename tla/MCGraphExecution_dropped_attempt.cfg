SPECIFICATION Spec
CONSTANTS
  n1 = n1
  n2 = n2
  Nodes <- TwoNodes
  MaxAttempts = 1
  MaxIssue = 1
  SameSecond = FALSE
  ScanOverflows = FALSE
  MaxExpiries = 0
  MaxDropped = 1
  MaxCrashes = 0
SYMMETRY NodeSymmetry
INVARIANTS AcceptedWorkSurvives
CHECK_DEADLOCK FALSE
