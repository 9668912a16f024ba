SPECIFICATION Spec
CONSTANTS
  MaxNonce = 3
  MaxBlocks = 5
  OverReport = 1
  NoBlock = NoBlock
  Handlers = {h1, h2}
  CacheCapacity = 2
  ServeByHash = FALSE
SYMMETRY HandlersSymmetry
INVARIANTS
  TypeOK
  CacheIsSettled
  NeighboursAreFinal
  AnswersAreConsistent
PROPERTIES
  CachedBlocksNeverChange
  ImplementsLedger
CHECK_DEADLOCK TRUE
