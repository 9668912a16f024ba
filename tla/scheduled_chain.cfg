SPECIFICATION Spec
CONSTANTS
  Pool <- MCPool
  SelfShard <- MCSelfShard
  MaxLength = 5
  ResultsOfTransaction <- ImmediatelyExecutingResults
INVARIANTS
  EffectiveAreExecuted
  ResultsAreComplete
  ObjectsAreStampedForOneBlock
CHECK_DEADLOCK TRUE
