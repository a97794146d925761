\* Two loops, either of which may own the other. The clock and the tasks are
\* bounded, so the loops stop.
SPECIFICATION FairSpec
CONSTANTS
  Queues = {platform, ui}
  kUnmerged = kUnmerged
  MaxTime = 1
  MaxTasks = 3
INVARIANTS
  TypeOK
  SleepersWakeInTime
PROPERTIES
  TasksAreRun
CHECK_DEADLOCK FALSE
