SPECIFICATION Spec
CONSTANTS
  activationEpochSirius = 1
  activationEpochSpica = 2
  nativeCurrency <- MCNativeCurrency
  nativeAsESDTIdentifier <- MCNativeAsESDTIdentifier
  customCurrencies <- MCCustomCurrencies
  systemContractDeployAddress <- MCSystem
  networkConfig <- MCNetworkConfig
  NoAddress <- MCNoAddress
  Alice <- MCAlice
  Bob <- MCBob
  Con <- MCCon
  NewCon <- MCNewCon
  Carol <- MCCarol
  RemoteCon <- MCRemoteCon
  Metachain <- MCMetachain
  Tokens <- MCTokens
  PaidFee = 10
  ToldFee = 1000
  Refund = 3
  Amount = 100
  MaxExecutions = 2
  Values = {0, 100}
  Configs <- MCConfigs
  Epochs = {0, 1, 2}
INVARIANTS
  BlockIsServed
  Reconciled
  BlockIsAcceptable
CHECK_DEADLOCK FALSE
