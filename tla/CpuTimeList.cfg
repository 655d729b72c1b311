SPECIFICATION FairSpec
CONSTANTS
  Proc = {p1, p2, p3}
  NULL = NULL
INVARIANTS
  CycleAlive
  RegisteredStays
  CursorsListed
  CrashesExplained
PROPERTIES
  Reaped
