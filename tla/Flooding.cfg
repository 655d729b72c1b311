SPECIFICATION FairSpec
CONSTANTS
  N = 3
  Links <- Triangle
  InitialCost <- MCInitialCost
  Capacity = 1
  MaxNumber <- MCMaxNumber
  Changing <- Pair01
  Killed = {0}
  MaxEvents = 2
  KillWeight = 2
  NewCost = 9
INVARIANTS
  TypeOK
  NumbersFromOrigin
  Converged
PROPERTIES
  FloodingEnds
CHECK_DEADLOCK FALSE
