\* Does the rasterizer draw a null item while the shell is destroyed?  (It may.)
SPECIFICATION ShutdownSpec
CONSTANTS
  UI = ui
  Raster = raster
  Platform = platform
  Threads = {ui, raster, platform}
  Items <- Frames
  Depth = 2
  Null = null
  NoItem = noItem
  Merging = FALSE
  LeaseTerm = 2
  MaxFrames = 3
  MaxReuses = 0
INVARIANTS
  ConsumedItemsArePrepared
CHECK_DEADLOCK FALSE
