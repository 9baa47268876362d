SPECIFICATION FairSpec
CONSTANTS
  n1 = n1
  n2 = n2
  Nodes <- TwoNodes
  MaxAttempts = 1
  MaxIssue = 1
  SameSecond = FALSE
  ScanOverflows = FALSE
  MaxExpiries = 1
  MaxDropped = 1
  MaxCrashes = 0
PROPERTIES StopTakesEffect
CHECK_DEADLOCK FALSE
