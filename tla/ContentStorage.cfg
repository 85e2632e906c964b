CONSTANTS
  Names = {n1, n2}
  Quota = 2
  Retention = 1
  Sweeps = {s1}
  KeepRunners = FALSE
  MaxDay = 2
  LastDay = 2
  MaxKeys = 2
  Absent = Absent
  Short = Short
  None = None
  MaxBatch = 1
  UsageRetention = 1
  MaxCalls = 2
  Calls = {c1}
  BlockWhenFull = TRUE
SPECIFICATION Spec
INVARIANTS
  LinksOpen
  SweepsAreWhole
  StopWritesTheQueue
PROPERTIES
  SharesOneSecret
  RecordedIsWritten
CONSTRAINT BurstOrFiles
CHECK_DEADLOCK FALSE
