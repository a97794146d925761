\* Two workers, two clients, three tasks and a broadcast.
SPECIFICATION FairSpec
CONSTANTS
  Workers = {w1, w2}
  Clients = {owner, client}
  Owner = owner
  Posters = {owner, client, w1}
  Broadcasts = {name}
  MaxTasks = 3
  NoTask = noTask
INVARIANTS
  TypeOK
  SleepersAreNotNeeded
  FewTasksSurviveShutdown
PROPERTIES
  PoolSettles
CHECK_DEADLOCK FALSE
