SPECIFICATION DijkstraFairSpec
CONSTANTS
  N = 4
  globalMyID = 1
  Costs = {0, 1, 2}
INVARIANTS
  ShortestCosts
  NextHopIsNearer
  SmallestPredecessor
PROPERTIES
  CallReturns
