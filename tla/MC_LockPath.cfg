INIT MCInit
NEXT Next
CONSTANTS
  a = a
  b = b
  c = c
  p = p
  q = q
  l = l
  Kernel = Kernel
  None = None
  Task = {a, b, c}
  TidOf <- MCTidOf
  ProcOf <- MCProcOf
  Near = {p, q}
  Self = {p}
  Lock = {l}
  StaleWindows = 1
  MaxTime = 7
  MaxPolls = 2
INVARIANTS
  FutexMarks
  IntervalsOpen
  WaitsKept
  TargetKept
  WakerKnown
CONSTRAINT Bound
CHECK_DEADLOCK FALSE
