SPECIFICATION FairSpec
CONSTANTS
  Boards = {"button", "touch"}
  QueueCap = 2
  HeapTries = 2
  MaxIds = 1
  MaxJobs = 3
  MaxLosses = 1
INVARIANTS LockInv OneTlsSession
PROPERTIES RequestKeepsItsRadio RelaySettles CallReturns
