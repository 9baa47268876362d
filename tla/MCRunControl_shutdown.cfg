SPECIFICATION Spec
CONSTANTS
  c1 = c1
  c2 = c2
  Clients <- OneClient
  Kinds <- AllKinds
  MaxAttempts = 1
  MaxRequests = 1
  MaxMishaps = 1
PROPERTY ShutdownPauseIsResumed
CHECK_DEADLOCK FALSE
