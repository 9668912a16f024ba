SPECIFICATION FairSpec
CONSTANTS
  s1 = s1
  s2 = s2
  Sessions = {s1, s2}
  PaymentsOf <- MCPaymentsOf
  nativeCurrency <- MCNative
  customCurrencies <- MCCustomCurrencies
  networkConfig <- MCNetworkConfig
  TransferDataLength = 4
  MaxExact = 16
  RequiredTransferGas = 6
  NoAmount = NoAmount
  NotANumber = NotANumber
  NoText = NoText
INVARIANTS
  TypeOK
  ExecutedIsIntended
  NonceIsNeverAhead
  ExecutedAtMostOnce
  GasSuffices
  SuggestedFeeIsEnough
  PaymentIsShown
PROPERTY PaymentsSettle
CHECK_DEADLOCK FALSE
