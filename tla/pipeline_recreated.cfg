SPECIFICATION SyncFairSpec
CONSTANTS
  Pages = {p1, p2}
  Slugs = {s1}
  NoSlug = NoSlug
  DISCOVER = DISCOVER
  BACKFILL = BACKFILL
  MaxRev = 1
  PerPage = 1
  Flaky = FALSE
  MaxSignals = 1
  MaxChanges = 3
  MaxRuns = 2
PROPERTIES SignalReconciles
CHECK_DEADLOCK FALSE
