SPECIFICATION FairSpec
CONSTANTS
  Proc = {p1, p2}
  NULL = NULL
INVARIANTS
  SamplingGoesOn
  CrashesExplained
  ResourcesReleased
PROPERTIES
  Profiled
