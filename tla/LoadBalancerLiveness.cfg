SPECIFICATION FairSpec
CONSTANTS
  JobCount = 2
  Throttling <- MCThrottling
PROPERTIES
  Ends
\* The program ends.
CHECK_DEADLOCK FALSE
