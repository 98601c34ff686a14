SPECIFICATION Spec
CONSTANTS
  r1 = r1
  r2 = r2
  d1 = d1
  Request <- MCRequest
  Device = {d1}
  DevOf <- MCDevOf
  StartRooms = {1, 2}
  DevRooms = {0, 1}
  MaxTime = 4
  MaxPolls = 3
INVARIANTS
  InflightConserved
  NoFalseMiss
  QueueAreaExact
  ReportedIsTrue
PROPERTY StableQueueShown
CONSTRAINT Bound
SYMMETRY Symmetry
CHECK_DEADLOCK FALSE
