SPECIFICATION Spec
CONSTANTS
  JobCount = 3
  Throttling <- MCThrottling
INVARIANTS
  JobsConserved
  ResultsCollected
PROPERTIES
  ComputedOnce
\* The program ends.
CHECK_DEADLOCK FALSE
