SPECIFICATION Spec
CONSTANTS
  r1 = r1
  r2 = r2
  d1 = d1
  Request <- MCOneRequest
  Device = {d1}
  DevOf <- MCOneDevOf
  StartRooms = {1}
  DevRooms = {1}
  MaxTime = 6
  MaxPolls = 2
PROPERTY DepthWithinRequests
CHECK_DEADLOCK FALSE
