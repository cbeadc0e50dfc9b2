SPECIFICATION Spec
CONSTANTS
  Pages = {p1, p2}
  Slugs = {s1, s2}
  NoSlug = NoSlug
  DISCOVER = DISCOVER
  BACKFILL = BACKFILL
  MaxRev = 2
  PerPage = 1
  Flaky = TRUE
  MaxSignals = 2
  MaxChanges = 3
  MaxRuns = 2
SYMMETRY SiteSymmetry
INVARIANTS TypeOK NoGap NothingStranded
CHECK_DEADLOCK FALSE
