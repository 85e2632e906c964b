CONSTANTS
  Categories = {c1}
  Instances = {i1}
  Requests = {q1, q2, q3}
  Stoppers = {s1}
  MaxServes = 3
  None = None
SPECIFICATION FairSpec
INVARIANTS
  MappedIsAlive
  NoneIsForgotten
PROPERTIES
  CallsReturn
CHECK_DEADLOCK FALSE
