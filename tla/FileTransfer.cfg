SPECIFICATION FairSpec
CONSTANTS
  Client = {c1, c2}
  Sizes = {0, 2}
  BACKLOG = 1
  Window = 2
  Missing = Missing
  Old = Old
  Junk = Junk
  MaxKills = 1
INVARIANTS
  WholeUnlessKilled
  NothingInvented
PROPERTIES
  BothEnd
  AllReaped
CHECK_DEADLOCK FALSE
