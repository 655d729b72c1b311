SPECIFICATION FairSpec
CONSTANTS
  a = a
  b = b
  Task = {a}
  NULL = NULL
  Unloads = TRUE
  Remote = {a}
  Period <- MCPeriod
  Computation <- MCComputation
PROPERTIES
  ReadyIsDispatched
\* A kernel that has stopped, or one whose module is unloaded, does nothing more.
CHECK_DEADLOCK FALSE
