\* The application goes to the background and back while images are asked for.
SPECIFICATION FairSpec
CONSTANTS
  Platform = platform
  Raster = raster
  IO = io
  Workers = {worker}
  Threads = {platform, raster, io, worker}
  Decodes = {d1}
  Snapshots = {s1}
  RasterEncodes = {e1}
  OtherEncodes = {e2}
  NoRequest = noRequest
  MaxTasksAwaitingGPU = 2
  MaxSwitches = 3
  MaxFrames = 1
INVARIANTS
  TypeOK
  GpuWorkIsPermitted
  StoredImagesAreFlushed
PROPERTIES
  ImagesAreAnswered
CHECK_DEADLOCK FALSE
