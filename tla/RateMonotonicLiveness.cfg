SPECIFICATION FairSpec
CONSTANTS
  a = a
  b = b
  Task = {a, b}
  NULL = NULL
  Unloads = FALSE
  Remote = {}
  Period <- MCPeriod
  Computation <- MCComputation
PROPERTIES
  HandlersReturn
\* A kernel that has stopped, or one whose module is unloaded, does nothing more.
CHECK_DEADLOCK FALSE
