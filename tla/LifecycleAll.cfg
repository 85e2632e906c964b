CONSTANTS
  Starts = {s1}
  Stops = {}
  Restarts = {r1}
  Deletes = {d1}
  Reinstalls = {i1}
  Unkillable = {s1}
  MaxManagerRestarts = 0
  None = None
SPECIFICATION FairSpec
INVARIANTS
  FailedStartLeavesNothing
  StopEndsWhatItRead
PROPERTIES
  CallsReturn
  StatusSettles
  DeathIsNoticed
CHECK_DEADLOCK FALSE
