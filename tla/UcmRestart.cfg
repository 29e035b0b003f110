SPECIFICATION Spec
CONSTANTS
  c1 = c1
  c2 = c2
  c3 = c3
  Clients = {c1, c2, c3}
  Size <- Sizes
  Deps <- OnDeployed
  Deployed = "1.0.0"
  Capacity = 24
  Faults = {"create", "open", "digest"}
  None = None
  Torn = Torn
  MaxStarts = 3
  MaxRestarts = 2
CHECK_DEADLOCK FALSE
INVARIANTS TypeOK HandedIsSent DiskFollowsMemory ImageKeptUnlessResumed WholeUnlessRestarted
