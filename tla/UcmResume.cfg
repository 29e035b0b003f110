SPECIFICATION Spec
CONSTANTS
  c1 = c1
  c2 = c2
  c3 = c3
  Clients = {c1}
  Size <- Sizes
  Deps <- OnDeployed
  Deployed = "1.0.0"
  Capacity = 24
  Faults = {}
  None = None
  Torn = Torn
  MaxStarts = 1
  MaxRestarts = 1
CHECK_DEADLOCK FALSE
INVARIANT ExitMeansWhole
