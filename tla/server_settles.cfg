SPECIFICATION FairSpec
CONSTANTS
  Clients = {c1}
  GenesisTimestamps = {1, 2}
INVARIANT TypeOK
PROPERTY OfflineAnswersAreFinal
PROPERTY RequestsSettle
CHECK_DEADLOCK TRUE
