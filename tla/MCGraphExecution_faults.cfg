SPECIFICATION FairSpec
CONSTANTS
  n1 = n1
  n2 = n2
  Nodes <- OneNode
  MaxAttempts = 2
  MaxIssue = 2
  SameSecond = FALSE
  ScanOverflows = TRUE
  MaxExpiries = 1
  MaxDropped = 1
  MaxCrashes = 1
PROPERTIES RecoveryCompletes LeaseResolved
CHECK_DEADLOCK FALSE
