\* Frames with dynamic merging of the raster and the platform thread.
SPECIFICATION FairSpec
CONSTANTS
  ui = ui
  raster = raster
  platform = platform
  UI <- ui
  Raster <- raster
  Platform <- platform
  Threads <- MCThreads
  Items <- MCItems
  Depth = 2
  Null = null
  NoItem = noItem
  Merging = TRUE
  LeaseTerm = 2
  MaxFrames = 3
  MaxReuses = 1
INVARIANTS
  TypeOK
  SlotConservation
  WaitingFramesHaveADraw
PROPERTIES
  ImplementsChannel
  RetryYieldsToNewerFrame
  PresentsInOrder
  FramesAreConsumedUnlessMissed
CHECK_DEADLOCK FALSE
