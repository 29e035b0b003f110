SPECIFICATION FairSpec
CONSTANTS
  Callers = {c1}
  Versions = {"v1", "v2"}
  Factory = "v0"
  NoOne = NoOne
  AutoApply = FALSE
  Faults = {}
  MaxUpdates = 2
CHECK_DEADLOCK FALSE
PROPERTY StartUpdateReturns
