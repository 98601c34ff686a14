SPECIFICATION Spec
CONSTANTS
  u = u
  Proc = {u}
  StaleWindows = 1
  MaxPolls = 4
  MaxReclaims = 2
  MaxBirths = 2
INVARIANTS
  ReclaimsReported
  VictimsReported
  GrowthOfWindow
CHECK_DEADLOCK FALSE
