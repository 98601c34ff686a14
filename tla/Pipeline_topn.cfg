SPECIFICATION PipelineSpec
CONSTANTS
  Mem = Mem
  MapKey <- MCMapKey
  sustain = 2
  MaxWindows = 5
  threshold <- MCHalfThreshold
  waitingCalls = {1}
  Stack <- MCStack
  Tolerance = 1
  topN = 1
  Proc = {1, 2, 3}
  Tree = {1, 2}
  Windows <- MCWindows
  Period = 2
  CpuPolls <- MCCpuPolls
  IoPolls <- MCIoPolls
  CallPolls <- MCCallPolls
  Waits <- MCUnequalWaits
  Facts <- MCFacts
  MaxWait = 2
  MaxFacts = 2
CHECK_DEADLOCK FALSE
INVARIANTS
  CutOnlyOutput
