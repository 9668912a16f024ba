SPECIFICATION FairSpec
CONSTANTS
  MaxNonce = 3
  MaxBlocks = 3
  OverReport = 1
  NoBlock = NoBlock
  Handlers = {h1, h2}
  CacheCapacity = 2
  ServeByHash = TRUE
INVARIANT CachedUnderOwnNonce
PROPERTY CallsReturn
CHECK_DEADLOCK TRUE
