SPECIFICATION FairSpec
CONSTANTS
  N = 2
  Revs = 2
  MaxChanges = 3
  MaxMishaps = 2
  Absent = Absent
  Torn = Torn
INVARIANTS TypeOK NothingTorn SkippedIsWhole SkippedIsNamed
PROPERTIES PublicationConverges
CHECK_DEADLOCK FALSE
