SPECIFICATION RunqSpec
CONSTANTS
  t1 = t1
  t2 = t2
  t3 = t3
  c1 = c1
  Task = {t1, t2, t3}
  Tid = {1, 2}
  TidOf <- MCTidOf
  CPU = {c1}
  Idle = Idle
  Self = {t3}
  StatsCap = 2
  QueueCap = 1
  MaxTime = 4
CHECK_DEADLOCK FALSE
INVARIANTS
  RunqExact
