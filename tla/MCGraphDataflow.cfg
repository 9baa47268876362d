SPECIFICATION Spec
CONSTANTS
  MaxRegions = 2
  Plans <- MixedPlans
  Wirings <- Wired
  MaxCorrections = 1
  MaxMishaps = 1
INVARIANTS TypeOK OneOwner CompletedMeansPassed RepairedRunNotFailed SequentialStall FailureIsAnswered
PROPERTIES AcceptanceIsStable
CHECK_DEADLOCK FALSE
