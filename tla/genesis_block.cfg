SPECIFICATION FairSpec
CONSTANTS
  Callers = {c1, c2, c3, c4}
  NoOne = NoOne
INVARIANTS
  TypeOK
  NoDataRace
  FetchedAtMostOnce
  OneGenesisBlock
PROPERTY CallsReturn
CHECK_DEADLOCK TRUE
