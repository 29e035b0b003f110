SPECIFICATION FairSpec
CONSTANTS
  Fds = {f1, f2}
  Posters = {p1, p2}
  None = None
  EpollFaults = TRUE
  MaxConns = 2
  MaxPosts = 1
CHECK_DEADLOCK FALSE
INVARIANTS TypeOK EventsAreCurrent TasksOnceInOrder NoLostWakeUp
PROPERTIES PostedRuns StopEndsLoop
