SPECIFICATION Spec
CONSTANTS
  MaxNonce = 10
  MaxBlocks = 12
  OverReport = 1
  NoBlock = NoBlock
  EpochLength = 2
  MaxLag = 1
  SnapshotMargin = 1
  numHistoricalEpochs = 3
INVARIANTS
  TypeOK
  StatusBlocksAreFinal
  HistoryIsNotEmpty
  HistoryIsInDatabase
CHECK_DEADLOCK TRUE
