SPECIFICATION Spec
CONSTANTS
  MaxNonce = 3
  MaxBlocks = 4
  OverReport = 0
  NoBlock = NoBlock
  Handlers = {h1}
  CacheCapacity = 4
  ServeByHash = TRUE
INVARIANT NeighboursAreFinal
CHECK_DEADLOCK TRUE
