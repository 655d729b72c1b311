SPECIFICATION FairSpec
CONSTANTS
  Beat = 1
  Pause = 2
  HEARTBEAT_TIMEOUT = 3
  Second = 3
  Wrap = 12
  Lag = 1
  Capacity = 2
INVARIANTS
  NoticedInTime
PROPERTIES
  DropExplained
  DropHeals
