SPECIFICATION PipelineSpec
CONSTANTS
  Mem = Mem
  MapKey <- MCMapKey
  sustain = 2
  MaxWindows = 5
  threshold <- MCThreshold
  waitingCalls = {1}
  Stack <- MCStack
  Tolerance = 1
  topN = 2
  Proc = {1, 2, 3}
  Tree = {1, 2}
  Windows <- MCWindows
  Period = 2
  CpuPolls <- MCCpuPolls
  IoPolls <- MCIoPolls
  CallPolls <- MCCallPolls
  Waits <- MCWaits
  Facts <- MCFacts
  MaxWait = 2
  MaxFacts = 2
CHECK_DEADLOCK FALSE
INVARIANTS
  StreaksCounted
  ReportsConserved
  GapsSeparate
  SurestSpeaks
  CompactStable
  HotIsTrue
  BlameEarned
  ReportsValid
PROPERTY ImplementsEpisodes
