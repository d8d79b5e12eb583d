SPECIFICATION PairingFairSpec
CONSTANTS
  Code = {c1, c2, c3}
  None = None
  RelayRestarts = TRUE
  Interrupted = TRUE
INVARIANTS TokenInOnePlace PairedReaderIsListed
PROPERTIES NeverHandedTwice KeepsItsPromise PairingEnds
CHECK_DEADLOCK FALSE
