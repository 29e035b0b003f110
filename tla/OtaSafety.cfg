SPECIFICATION FairSpec
CONSTANTS
  Callers = {c1, c2}
  Versions = {"v1", "v2"}
  Factory = "v0"
  NoOne = NoOne
  AutoApply = TRUE
  Faults <- AllFaults
  MaxUpdates = 3
CHECK_DEADLOCK FALSE
INVARIANTS TypeOK BootTargetComplete ReadyMeansInstalled SuccessVersionMatches HistoryIsChain SubscriberUpToDate
PROPERTIES ImplementsABUpdate RunningSlotUntouched TrialIsReversible InstallSettles
