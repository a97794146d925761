\* Can a frame wait for ever for its overlay layers? (It can.)
SPECIFICATION FairSpec
CONSTANTS
  Platform = platform
  Raster = raster
  IO = io
  Workers = {worker}
  Threads = {platform, raster, io, worker}
  Decodes = {}
  Snapshots = {s1}
  RasterEncodes = {}
  OtherEncodes = {}
  NoRequest = noRequest
  MaxTasksAwaitingGPU = 2
  MaxSwitches = 2
  MaxFrames = 1
PROPERTY
  OverlaysAreCreated
CHECK_DEADLOCK FALSE
