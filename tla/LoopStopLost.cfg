SPECIFICATION FairSpec
CONSTANTS
  Fds = {f1, f2}
  Posters = {p1, p2}
  None = None
  EpollFaults = FALSE
  MaxConns = 1
  MaxPosts = 1
CHECK_DEADLOCK FALSE
PROPERTY SignalEnds
