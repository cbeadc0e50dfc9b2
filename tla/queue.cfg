SPECIFICATION FairSpec
CONSTANTS
  Periodic <- MCPeriodic
  OneShot <- MCOneShot
  Slugs <- MCSlugs
  Permits = {p1}
  Children <- MCChildren
  Imports <- MCImports
  SeedPrio <- MCSeedPrio
  MaxAttempts = 2
  Interval = 1
  BackoffBase = 1
  BackoffCap = 2
  MaxSignals = 2
  MaxClaims = 3
  MaxCrashes = 1
  Horizon = 2
INVARIANTS TypeOK Ownership RetryBudget
PROPERTIES ImplementsLedger NeverRetriedEarly EverythingSettles
CHECK_DEADLOCK FALSE
