SPECIFICATION Spec
CONSTANTS
  t1 = t1
  t2 = t2
  c1 = c1
  Task = {t1, t2}
  Tid = {1}
  TidOf <- MCTidOf
  CPU = {c1}
  Idle = Idle
  Self = {t1}
  StatsCap = 1
  StaleWindows = 2
  MaxTime = 5
  MaxPolls = 4
CHECK_DEADLOCK FALSE
INVARIANTS
  TypeOK
  DebtLedger
  NoOvercount
  KernelExact
  EvictionBound
