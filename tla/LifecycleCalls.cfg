CONSTANTS
  Starts = {s1, s2}
  Stops = {t1}
  Restarts = {}
  Deletes = {d1}
  Reinstalls = {i1}
  Unkillable = {}
  MaxManagerRestarts = 1
  None = None
SPECIFICATION Spec
INVARIANTS
  NoOrphan
  CurrentStartIsRegistered
  ConfirmedStopLeavesNothing
  RunningIsOnFile
PROPERTIES
  KeepsPromise
  PublishedRunnerIsAdopted
CHECK_DEADLOCK FALSE
SYMMETRY AlikeStarts
