SPECIFICATION Spec
CONSTANTS
  a = a
  b = b
  Task = {a, b}
  NULL = NULL
  Unloads = TRUE
  Remote = {a}
  Period <- MCPeriod
  Computation <- MCComputation
INVARIANTS
  TypeOK
  NoDanglingPointer
  LookupSucceeds
  AdmittedWithinBound
  OnlyRefusedLeak
  IInv
PROPERTIES
  PreemptedIsDemoted
  
  ReclaimsSafely
\* A kernel that has stopped, or one whose module is unloaded, does nothing more.
CHECK_DEADLOCK FALSE
