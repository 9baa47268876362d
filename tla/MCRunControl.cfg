SPECIFICATION Spec
CONSTANTS
  c1 = c1
  c2 = c2
  Clients <- TwoClients
  Kinds <- AllKinds
  MaxAttempts = 1
  MaxRequests = 3
  MaxMishaps = 1
SYMMETRY Symmetry
INVARIANTS CompletedIsTrue FenceHolds
PROPERTY NoReplayedReopen
CHECK_DEADLOCK FALSE
