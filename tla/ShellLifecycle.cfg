\* The life of a shell, for every assignment of its runners to threads.
SPECIFICATION FairSpec
CONSTANTS
  MaxChanges = 3
  MaxFrames = 2
INVARIANTS
  TypeOK
  NothingDeadIsUsed
  SurfaceGoneAfterDestroy
  FirstFrameIsNoticed
PROPERTIES
  CallsReturn
CHECK_DEADLOCK FALSE
