SPECIFICATION FairSpec
CONSTANTS
  App = {1, 2, 3}
  MaxCatalog = 2
  Unstamped = Unstamped
  Syncers = {"bg"}
  MaxRev = 3
  MaxClock = 2
  MaxRemovals = 1
  MaxFaults = 2
INVARIANTS StampDescribesCard UnchangedMeansSameSecond
PROPERTIES RecordedOnlyWhenComplete SyncReturns CardCatchesUp
CHECK_DEADLOCK FALSE
