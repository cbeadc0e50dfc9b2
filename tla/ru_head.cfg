SPECIFICATION Spec
CONSTANTS
  Pages = {p1}
  Slugs = {s1}
  NoSlug = NoSlug
  NoText = NoText
  DISCOVER = DISCOVER
  BACKFILL = BACKFILL
  MaxLog = 2
  MaxTime = 1
  MaxChanges = 3
  MaxFaults = 1
  MaxSignals = 1
  MaxRuns = 2
INVARIANT HeadIsItsSource
CHECK_DEADLOCK FALSE
