SPECIFICATION Spec
CONSTANTS
  p1 = p1
  p2 = p2
  p3 = p3
  Tgid = {p1, p2, p3}
  Root = p1
  NoPid = NoPid
  Depth = 2
  Stale = 2
  MaxBirths = 4
INVARIANTS
  OnlyLineage
  RootStaysDropped
  GraceEnds
PROPERTY HeardKept
SYMMETRY Symmetry
CHECK_DEADLOCK FALSE
