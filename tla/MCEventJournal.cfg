CONSTANTS
  Runs = {r1, r2}
  MaxEvents = 3
  MaxCommit = 2
  SegmentSize = 2
  PageSize = 1
  OldEvents = 2
  MaxFaults = 3
  MaxLosses = 1
  MaxRestores = 1
SPECIFICATION Spec
INVARIANTS TypeOK JournalIsOfDatabase EachPositionOnce CheckpointIsTrue
PROPERTIES ReadyMeansDelivered RebuildIsFaithful StartCompletes
CHECK_DEADLOCK FALSE
