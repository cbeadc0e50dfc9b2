SPECIFICATION FairSpec
CONSTANTS
  a = a
  b = b
  img = img
  http_img = http_img
  garbled = garbled
  host = host
  Path <- MCPath
  Mentioned = {img}
  Css <- MCCss
  Refs <- MCRefs
  Themes <- MCThemes
  Host = {host}
  HostOf <- MCHostOf
  OldKey <- MCOldKey
  CanonOf <- MCCanonOf
  Garbage = {garbled}
  Bracketed = {garbled}
  SHELL = SHELL
  BACKFILL = BACKFILL
  MaxChanges = 0
  MaxFaults = 1
  MaxRuns = 1
PROPERTIES SavedStays
CHECK_DEADLOCK FALSE
