SPECIFICATION Spec
CONSTANTS
  Pages = {p1, p2}
  Slugs = {s1, s2}
  NoSlug = NoSlug
  NoText = NoText
  DISCOVER = DISCOVER
  BACKFILL = BACKFILL
  MaxLog = 3
  MaxTime = 1
  MaxChanges = 3
  MaxFaults = 1
  MaxSignals = 1
  MaxRuns = 2
SYMMETRY SiteSymmetry
INVARIANTS TypeOK NoGap WatermarkHonest NothingStranded ArchiveIsTrue NothingOverlooked
CHECK_DEADLOCK FALSE
