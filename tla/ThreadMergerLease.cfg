\* One engine's lease has ended while the other's still holds the queues merged.
SPECIFICATION MergerSpec
CONSTANTS
  Mergers = {a, b}
  Platform = platform
  Raster = raster
  Nobody = nobody
  LeaseTerm = 3
  MaxDraws = 7
  MaxChanges = 3
INVARIANTS
  LeasesArePositive
CHECK_DEADLOCK FALSE
