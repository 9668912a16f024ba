SPECIFICATION Spec
CONSTANTS
  Clients = {c1}
  GenesisTimestamps = {1, 2}
INVARIANT GenesisHasItsTimestamp
CHECK_DEADLOCK TRUE
