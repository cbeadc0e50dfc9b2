SPECIFICATION FairSpec
CONSTANTS
  Slugs = {s1, s2}
  NoEntry = NoEntry
  PerPage = 1
  MaxChanges = 4
  MaxTime = 3
  MaxMishaps = 1
INVARIANTS TypeOK NothingSkipped
PROPERTIES ImplementsDiscovery EveryChangeSignalled
CHECK_DEADLOCK FALSE
