SPECIFICATION FairSpec
CONSTANTS
  Fds = {f1, f2}
  Testers = {t1, t2}
  NoFd = NoFd
  NoAddress = NoAddress
  MaxOpenSockets = 1
  MaxAccepts = 2
  MaxFrames = 3
CHECK_DEADLOCK FALSE
INVARIANTS TypeOK RoutingConsistent CapacityRespected NoResidue
PROPERTY SilentIsClosed
