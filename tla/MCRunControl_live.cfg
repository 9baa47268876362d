SPECIFICATION Spec
CONSTANTS
  c1 = c1
  c2 = c2
  Clients <- OneClient
  Kinds <- AllKinds
  MaxAttempts = 1
  MaxRequests = 2
  MaxMishaps = 1
PROPERTIES QueueDrains ActiveIsDriven FailureIsReported
CHECK_DEADLOCK FALSE
