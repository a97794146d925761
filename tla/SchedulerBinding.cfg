\* Frames of the engine and warm-up frames, with every call in every phase.
SPECIFICATION FairSpec
CONSTANTS
  Tickers = {t1, t2}
  MaxPosts = 2
INVARIANTS
  TypeOK
  ScheduledFramesAreRequested
PROPERTIES
  NothingWaitsForever
CHECK_DEADLOCK FALSE
