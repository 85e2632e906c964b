CONSTANTS
  Ids = {i1, i2, i3}
  MaxPort = 4
  Foreign = {1}
  Edited = {i1}
  Repeated = {i2}
  Restores = TRUE
  McpPorts = {3}
  None = None
SPECIFICATION Spec
INVARIANTS
  ReservationsDiffer
  
CHECK_DEADLOCK FALSE
