\* Two engines share the merger. Their draws and view changes are bounded, so they stop.
SPECIFICATION MergerSpec
CONSTANTS
  Mergers = {a, b}
  Platform = platform
  Raster = raster
  Nobody = nobody
  LeaseTerm = 3
  MaxDraws = 7
  MaxChanges = 3
INVARIANTS
  MergerTypeOK
  LeasesMatchQueues
PROPERTIES
  DisableStopsItsEngine
CHECK_DEADLOCK FALSE
