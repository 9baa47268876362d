CONSTANTS
  idle_tick = idle_tick
  patch = patch
  requeue = requeue
  Commands = {idle_tick, patch, requeue}
  Facts <- Lengths
  Size <- SizeOf
  Decide <- DecideByLength
  Patches = {patch}
  Requeues = {requeue}
  Callers = {c1, c2}
  TailCap = 2
  MaxTries = 2
  MaxFaults = 2
SPECIFICATION FairSpec
INVARIANTS CheckpointIsPrefix AnswerIsTrue
PROPERTIES IsSerial EveryCallEnds
CHECK_DEADLOCK FALSE
