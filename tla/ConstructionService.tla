-------------------------- MODULE ConstructionService --------------------------
(***************************************************************************)
(* The endpoints of server/services/constructionService.go, with its       *)
(* options, metadata and fees, as operators: the service keeps no state,   *)
(* all of it travels with the client's requests.                           *)
(*                                                                         *)
(* An amount is an integer, NoAmount (the empty string) or NotANumber (any *)
(* other text).  An address or symbol is any value; NoText is the empty    *)
(* string.  The data of a transaction is a record of its kind (what it     *)
(* begins with) and its length; one that begins with "ESDTTransfer" is a   *)
(* "transfer" when the code can parse it, "malformed" otherwise.  Version  *)
(* and chain ID, both constants of the service, are left out.              *)
(***************************************************************************)
EXTENDS Integers, Sequences

CONSTANTS
  nativeCurrency,           \* [symbol, decimals]
  customCurrencies,         \* the enabled ones
  networkConfig,            \* [MinGasLimit, GasPerDataByte, MinGasPrice, GasLimitCustomTransfer,
                            \*  modifierNum, modifierDen]: GasPriceModifier is a fraction
  TransferDataLength,       \* length of "ESDTTransfer@token@amount"; the same for all
  MaxExact,                 \* 2^53: above it, JSON numbers (float64) are even
  NoAmount, NotANumber, NoText

ASSUME ConstructionServiceAssumption ==
  /\ networkConfig \in [MinGasLimit : Nat \ {0}, GasPerDataByte : Nat, MinGasPrice : Nat \ {0},
                        GasLimitCustomTransfer : Nat, modifierNum : Nat, modifierDen : Nat \ {0}]
  /\ TransferDataLength \in Nat
  /\ MaxExact \in Nat
  /\ NoAmount \notin Int /\ NotANumber \notin Int

NoData == [kind |-> "none", length |-> 0]
Message(length) == [kind |-> "message", length |-> length]
MalformedTransfer == [kind |-> "malformed", length |-> TransferDataLength]
TransferData(token, amount) ==
  [kind |-> "transfer", length |-> TransferDataLength, token |-> token, amount |-> amount]

-----------------------------------------------------------------------------
(* Strings and numbers *)

isZeroAmount(amount) == amount \in {NoAmount, 0}

\* getMagnitudeOfAmount: the minus sign is trimmed.  (So are several, and one at the end, of a
\* text like "--5" or "5-", which stays NotANumber here.  Only the value of the first operation
\* gets here, an amount that the client wrote; amounts of the metadata are not trimmed.)
Magnitude(amount) == IF amount \in Int /\ amount < 0 THEN -amount ELSE amount

\* "-" in front of an amount; there may be one already.
Negated(amount) == IF amount \in Nat THEN -amount ELSE NotANumber

\* amountToHex, then hexToAmount: the sign is lost, and what is not a number becomes 0.
ThroughHex(amount) == IF amount \in Int THEN Magnitude(amount) ELSE 0

\* A uint64 through float64 (round half to even), up to 2 * MaxExact.
JsonNumber(n) ==
  IF n <= MaxExact \/ n % 2 = 0 THEN n
  ELSE IF (n \div 2) % 2 = 0 THEN n - 1 ELSE n + 1

-----------------------------------------------------------------------------
(* /construction/preprocess.  A request: the operations [account, value, currency], and the
   metadata [sender, receiver, amount, currencySymbol, gasLimit, gasPrice, data]. *)

\* There is no operation to fall back to.
CannotPrepare(request) ==
  \/ request.operations = <<>>
     /\ \/ request.metadata.sender = NoText
        \/ request.metadata.amount = NoAmount
        \/ request.metadata.currencySymbol = NoText
  \/ Len(request.operations) < 2 /\ request.metadata.receiver = NoText

\* What is not in the metadata is taken from the first operation, the receiver from the second.
OptionsOf(request) ==
  LET given == request.metadata
      operation(i) == request.operations[i]
  IN  [given EXCEPT
         !.sender = IF @ # NoText THEN @ ELSE operation(1).account,
         !.receiver = IF @ # NoText THEN @ ELSE operation(2).account,
         !.amount = IF @ # NoAmount THEN @ ELSE Magnitude(operation(1).value),
         !.currencySymbol = IF @ # NoText THEN @ ELSE operation(1).currency.symbol,
         !.gasLimit = JsonNumber(@),
         !.gasPrice = JsonNumber(@)]

isNativeCurrencySymbol(symbol) == symbol = nativeCurrency.symbol

\* constructionOptions.validate
OptionsAreValid(options) ==
  /\ NoText \notin {options.sender, options.receiver, options.currencySymbol}
  /\ ~isZeroAmount(options.amount)
  /\ options.data # NoData => isNativeCurrencySymbol(options.currencySymbol)

\* ErrConstruction otherwise.
PreprocessSucceeds(request) == ~CannotPrepare(request) /\ OptionsAreValid(OptionsOf(request))

-----------------------------------------------------------------------------
(* /construction/metadata *)

computedData(options) ==
  IF isNativeCurrencySymbol(options.currencySymbol) THEN options.data
  ELSE TransferData(options.currencySymbol, ThroughHex(options.amount))

movementGasLimit(data) == networkConfig.MinGasLimit + networkConfig.GasPerDataByte * data.length

executionGasLimit(options) ==
  IF isNativeCurrencySymbol(options.currencySymbol) THEN 0
  ELSE networkConfig.GasLimitCustomTransfer

estimatedGasLimit(options) ==
  movementGasLimit(computedData(options)) + executionGasLimit(options)

coalesce(given, default) == IF given = 0 THEN default ELSE given
gasLimitOf(options) == coalesce(options.gasLimit, estimatedGasLimit(options))
gasPriceOf(options) == coalesce(options.gasPrice, networkConfig.MinGasPrice)

\* Variation: the gas limit of the options is taken as it is.
OnlyPriceIsAccepted(options) == gasPriceOf(options) >= networkConfig.MinGasPrice

\* Neither ErrInsufficientGasLimit nor ErrGasPriceTooLow.
FeeIsAccepted(options) ==
  /\ gasLimitOf(options) >= estimatedGasLimit(options)
  /\ gasPriceOf(options) >= networkConfig.MinGasPrice

\* The price of gas above what moves the data: the whole part of the exact product, where the
\* code takes that of the product in float64.
executionGasPrice(gasPrice) ==
  (gasPrice * networkConfig.modifierNum) \div networkConfig.modifierDen

\* Variation: the execution of a custom transfer is not paid for.
computeFeeOfMovement(options) ==
  movementGasLimit(computedData(options)) * gasPriceOf(options)

\* computeFee: the fee that remains when unused gas has been refunded.
computeFee(options) ==
  movementGasLimit(computedData(options)) * gasPriceOf(options)
  + executionGasLimit(options) * executionGasPrice(gasPriceOf(options))

MetadataOf(options, nonce) ==
  [ sender |-> options.sender, receiver |-> options.receiver,
    nonce |-> JsonNumber(nonce),
    amount |-> IF isNativeCurrencySymbol(options.currencySymbol) THEN options.amount ELSE 0,
    gasLimit |-> JsonNumber(gasLimitOf(options)),
    gasPrice |-> JsonNumber(gasPriceOf(options)),
    data |-> computedData(options) ]

-----------------------------------------------------------------------------
(* /construction/payloads, /construction/parse, /construction/combine *)

\* constructionMetadata.validate
MetadataIsValid(metadata) ==
  /\ NoText \notin {metadata.sender, metadata.receiver}
  /\ metadata.gasLimit # 0 /\ metadata.gasPrice # 0

\* toTransaction; the payload asks for the sender's signature.
TransactionOf(metadata) ==
  [ sender |-> metadata.sender, receiver |-> metadata.receiver, nonce |-> metadata.nonce,
    value |-> metadata.amount, gasLimit |-> metadata.gasLimit, gasPrice |-> metadata.gasPrice,
    data |-> metadata.data, signature |-> NoText ]

\* valueToCustomAmount: a currency that is not enabled is shown without decimals.
CustomCurrency(symbol) ==
  IF \E c \in customCurrencies : c.symbol = symbol
  THEN CHOOSE c \in customCurrencies : c.symbol = symbol
  ELSE [symbol |-> symbol, decimals |-> 0]

ParsedMovement(type, tx, amount, currency) ==
  << [type |-> type, account |-> tx.sender, value |-> Negated(amount), currency |-> currency],
     [type |-> type, account |-> tx.receiver, value |-> amount, currency |-> currency] >>

\* Variation: the data is not looked at.
ParsedAsNative(tx) == ParsedMovement("Transfer", tx, tx.value, nativeCurrency)

\* createOperationsFromPreparedTx (when data is not "malformed", which is ErrConstruction)
ParsedOperations(tx) ==
  IF tx.data.kind = "transfer"
  THEN ParsedMovement("CustomTransfer", tx, tx.data.amount, CustomCurrency(tx.data.token))
  ELSE ParsedMovement("Transfer", tx, tx.value, nativeCurrency)

ParseSucceeds(tx) == tx.data.kind # "malformed"

\* AccountIdentifierSigners, for a signed transaction
Signers(tx) == {tx.sender}

\* Exactly one signature is put into the transaction; nothing is verified.
CombinedWith(tx, signature) == [tx EXCEPT !.signature = signature]
=============================================================================
