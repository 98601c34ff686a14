SPECIFICATION Spec
CONSTANTS
  n = n
  d = d
  t1 = t1
  t2 = t2
  Nobody = Nobody
  Proc = {n, d}
  Near = {n}
  Self = {d}
  Tid = {t1, t2}
  StartCap = 1
  StatsCap = 1
  StaleWindows = 1
  MaxTime = 2
  MaxPolls = 3
  MaxArrivals = 3
INVARIANTS
  CallsConserved
  NoFalseMiss
  LossShown
  SlotsFreed
SYMMETRY Symmetry
CHECK_DEADLOCK FALSE
