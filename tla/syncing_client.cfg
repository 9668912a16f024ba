SPECIFICATION SyncFairSpec
CONSTANTS
  MaxNonce = 4
  MaxBlocks = 4
  OverReport = 1
  NoBlock = NoBlock
  Handlers = {h1, h2}
  CacheCapacity = 2
  ServeByHash = TRUE
  Client = h1
  GenesisHash <- MCGenesisHash
  Absent = Absent
INVARIANTS
  SyncTypeOK
  ClientIsOnLedger
  BalancesFitTheChain
  NeighboursAreFinal
PROPERTIES
  ClientNeverReorganises
  CatchesUp
CHECK_DEADLOCK FALSE
