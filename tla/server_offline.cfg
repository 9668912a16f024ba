SPECIFICATION Spec
CONSTANTS
  Clients = {c1}
  GenesisTimestamps = {1, 2}
INVARIANT OfflineRequestsAreAnswered
CHECK_DEADLOCK TRUE
