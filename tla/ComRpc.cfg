SPECIFICATION FairSpec
CONSTANTS
  Threads = 2
  Methods = {m1, m2}
  None = None
  MaxCalls = 3
  MaxOffers = 1
CHECK_DEADLOCK FALSE
INVARIANTS TypeOK OwnAnswer HandlerInPlace
PROPERTY SyncReturns
