CONSTANTS
  Instances = {i1}
  FailuresBefore = 2
  MaxRestarts = 3
  Backoff <- ScaledBackoff
  ResetAfter = 12
  MaxTime = 18
  MaxStops = 2
  Nothing = Nothing
SPECIFICATION HealthSpec
INVARIANTS
  RestartsAreReluctant
PROPERTIES
  RestartsItsOwnFailures
CHECK_DEADLOCK FALSE
