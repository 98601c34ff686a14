SPECIFICATION FairSpec
CONSTANTS
  N = 2
CHECK_DEADLOCK FALSE
INVARIANTS
  SessionValid
  CleanExit
  NoFalseAllClear
PROPERTIES
  Terminates
