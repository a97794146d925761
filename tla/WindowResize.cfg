\* Windows that change their size, with frames, time-outs and failures.
SPECIFICATION FairSpec
CONSTANTS
  Sizes <- MCSizes
  MaxResizes = 3
  MaxFrames = 1
  MaxNesting = 3
  MaxFailures = 1
INVARIANTS
  TypeOK
  DoneWakesThePlatform
  FramesFitTheSurface
PROPERTIES
  WindowGetsItsFrame
CHECK_DEADLOCK FALSE
