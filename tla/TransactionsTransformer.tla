----------------------- MODULE TransactionsTransformer -----------------------
(***************************************************************************)
(* server/services/transactionsTransformer.go with what it calls: how the  *)
(* transactions, contract results, events and receipts of one (simplified) *)
(* block become Rosetta operations.                                        *)
(*                                                                         *)
(* An address is the record of what the code computes from its public key: *)
(* [name, shard, contract, lastByte]; "metachain" (the sender of rewards)  *)
(* has no public key.  Amounts are integers; "" and "0" are both 0, as     *)
(* the node states every value ("-" before an empty one would be kept by   *)
(* isZeroAmount, and be no amount).  Both processing types of a            *)
(* transaction are only ever compared with one and the same value:         *)
(* `processing' is that value ("other" when they differ).                  *)
(* The position of an operation in its sequence is its index: the code     *)
(* calls indexOperations after each filter.  Metadata is left out.         *)
(***************************************************************************)
EXTENDS Integers, SequencesExt

CONSTANTS
  activationEpochSirius,
  activationEpochSpica,
  nativeCurrency,
  nativeAsESDTIdentifier,
  customCurrencies,              \* identifiers of the enabled custom currencies
  systemContractDeployAddress,
  networkConfig,                 \* [MinGasLimit, ExtraGasLimitGuardedTx, ExtraGasLimitRelayedTxV3,
                                 \*  GasPerDataByte, GasPrice]; one gas price for all transactions
  NoAddress                      \* an absent address field

\* What the provider was started with: [observedActualShard, projected, shouldHandleContracts];
\* `projected' is the observedProjectedShard, or -1 when it is not set.
VARIABLE config

\* The elements of a sequence that pass a test, in their order.
Select(seq, Test(_)) ==
  FlattenSeq([i \in DOMAIN seq |-> IF Test(seq[i]) THEN <<seq[i]>> ELSE <<>>])

-----------------------------------------------------------------------------
(* The provider's view of addresses, epochs and currencies *)

HasPubKey(address) == "shard" \in DOMAIN address

\* networkProvider.IsAddressObserved, for an address that can be decoded
IsAddressObserved(address) ==
  /\ address.shard = config.observedActualShard
  /\ config.projected = -1 \/ address.lastByte = config.projected
  /\ config.shouldHandleContracts \/ ~address.contract

IsReleaseSiriusActive(epoch) == epoch >= activationEpochSirius
IsReleaseSpicaActive(epoch) == epoch >= activationEpochSpica

isContractAddress(address) == HasPubKey(address) => address.contract

Native == [symbol |-> nativeCurrency]

\* Variation: as few digits for each byte as it needs.
HexWithoutZeros(bytes) ==
  FlattenSeq([i \in DOMAIN bytes |->
    IF bytes[i] < 16 THEN <<bytes[i]>> ELSE <<bytes[i] \div 16, bytes[i] % 16>>])

\* Two hexadecimal digits for each byte.
Hex(bytes) == FlattenSeq([i \in DOMAIN bytes |-> <<bytes[i] \div 16, bytes[i] % 16>>])

\* getExtendedIdentifier: the nonce of a non-fungible token is the last part of its symbol.
ExtendedIdentifier(token) ==
  [ symbol |-> IF token.nonceAsBytes = <<>> THEN token.identifier
               ELSE Append(token.identifier, Hex(token.nonceAsBytes)) ]

-----------------------------------------------------------------------------
(* Events: [identifier, address, receiver, topics, tokens, value, data].  A token is
   [identifier, nonceAsBytes, value]; `data' is the event's data, or the reason of a signal error. *)

findManyEventsByIdentifier(tx, identifier) ==
  Select(tx.events, LAMBDA event : event.identifier = identifier)

hasAnySignalError(tx) == findManyEventsByIdentifier(tx, "signalError") # <<>>

hasSignalErrorOfSendingValueToNonPayableContract(tx) ==
  \E i \in DOMAIN tx.events :
    tx.events[i].identifier = "signalError" /\ tx.events[i].data = "nonPayable"

hasSignalErrorOfMetaTransactionIsInvalid(tx) ==
  \E i \in DOMAIN tx.events :
    tx.events[i].identifier = "signalError" /\ tx.events[i].data = "invalidMeta"

BurnEvents == {"ESDTLocalBurn", "ESDTWipe", "ESDTNFTBurn"}
MintEvents == {"ESDTLocalMint", "ESDTNFTCreate", "ESDTNFTAddQuantity"}
TransferEvents == {"ESDTTransfer", "ESDTNFTTransfer", "MultiESDTNFTTransfer"}

\* The order in which addOperationsGivenTransactionEvents handles them.
EventOrder == <<"SCDeploy", "transferValueOnly", "ESDTTransfer", "ESDTNFTTransfer",
  "MultiESDTNFTTransfer", "ESDTLocalBurn", "ESDTLocalMint", "ESDTWipe", "ESDTNFTCreate",
  "ESDTNFTBurn", "ESDTNFTAddQuantity", "ClaimDeveloperRewards">>

\* errCannotRecognizeEvent, when not satisfied.
HasRightTopics(event) ==
  CASE event.identifier = "SCDeploy" -> event.topics >= 2
    [] event.identifier = "MultiESDTNFTTransfer" -> event.topics % 3 = 1
    [] event.identifier \in {"ESDTTransfer", "ESDTNFTTransfer", "ESDTWipe", "ESDTNFTCreate"}
         -> event.topics = 4
    [] event.identifier \in {"ESDTLocalBurn", "ESDTLocalMint", "ESDTNFTBurn",
                             "ESDTNFTAddQuantity"} -> event.topics = 3
    [] event.identifier \in {"transferValueOnly", "ClaimDeveloperRewards"} -> event.topics = 2
    [] OTHER -> TRUE

\* decideEffectiveEventTransferValueOnlyAfterSirius
EffectiveData(event) == event.data \in {"ExecuteOnDestContext", "AsyncCall"}
IsEffectiveTransferValueOnly(event) ==
  /\ event.value # 0
  /\ EffectiveData(event)
  /\ event.address.shard = event.receiver.shard

-----------------------------------------------------------------------------
(* transactionsFeaturesDetector *)

isRelayedV1Transaction(tx) == tx.type = "normal" /\ tx.processing = "RelayedTx"

\* The rewards of a claim travel in a result of the claiming transaction, in its block.
doesContractResultHoldRewardsOfClaimDeveloperRewards(scr, txsInBlock) ==
  /\ scr.dataLength = 0
  /\ scr.nonce = 0
  /\ \E i \in DOMAIN txsInBlock :
       /\ txsInBlock[i].processing = "BuiltInFunctionCall"
       /\ txsInBlock[i].operation = "ClaimDeveloperRewards"
       /\ txsInBlock[i].hash = scr.original

isInvalidTransactionOfTypeMoveBalanceThatOnlyConsumesDataMovementGas(tx) ==
  /\ tx.type = "invalid"
  /\ tx.processing = "MoveBalance"
  /\ \/ hasSignalErrorOfSendingValueToNonPayableContract(tx)
     \/ hasSignalErrorOfMetaTransactionIsInvalid(tx)

isIntrashard(tx) == tx.sourceShard = tx.destinationShard

isContractDeploymentWithSignalErrorOrIntrashardContractCallWithSignalError(tx) ==
  /\ hasAnySignalError(tx)
  /\ tx.processing = "SCDeployment" \/ (tx.processing = "SCInvoking" /\ isIntrashard(tx))

isRelayedV1TransactionCompletelyIntrashardWithSignalError(tx) ==
  /\ isIntrashard(tx)
  /\ {tx.inner.sender.shard, tx.inner.receiver.shard} = {tx.sourceShard}
  /\ hasAnySignalError(tx)

isSmartContractResultIneffectiveRefund(scr) ==
  scr.isRefund /\ scr.sender = scr.receiver /\ isContractAddress(scr.sender)

-----------------------------------------------------------------------------
(* transactionsTransformer: the operations of one transaction, before the filters.
   A transaction: [type, hash, sender, receiver, value, fee, relayer, processing, operation,
   nonce, dataLength, isGuarded, isRefund, original, sourceShard, destinationShard, epoch,
   inner, events].  A status of "" is one that applyDefaultStatusOnOperations fills in. *)

Operation(type, account, value, currency) ==
  [type |-> type, account |-> account, value |-> value, currency |-> currency, status |-> ""]

\* `value' leaves one account and reaches another.
Movement(type, from, to, value, currency) ==
  << Operation(type, from, -value, currency), Operation(type, to, value, currency) >>

\* IsRelayedTxV3 looks at the relayer's address and signature: both are there, or none.
IsRelayedTxV3(tx) == tx.relayer # NoAddress

\* Variation: the sender pays the fee of a relayed (V3) transaction.
SenderPaysFee(tx) == tx.sender

decideFeePayer(tx) == IF IsRelayedTxV3(tx) THEN tx.relayer ELSE tx.sender

ComputeTransactionFeeForMoveBalance(tx) ==
  networkConfig.GasPrice *
    ( networkConfig.MinGasLimit
    + networkConfig.GasPerDataByte * tx.dataLength
    + (IF tx.isGuarded THEN networkConfig.ExtraGasLimitGuardedTx ELSE 0)
    + (IF IsRelayedTxV3(tx) THEN networkConfig.ExtraGasLimitRelayedTxV3 ELSE 0) )

TransfersValue(tx) ==
  /\ tx.value # 0
  /\ IsReleaseSiriusActive(tx.epoch) =>
       ~isContractDeploymentWithSignalErrorOrIntrashardContractCallWithSignalError(tx)

\* parseInnerTxOfRelayedV1 is called, and fails.
CannotParseRelayedV1(tx) ==
  /\ tx.type = "normal" /\ ~IsReleaseSiriusActive(tx.epoch)
  /\ isRelayedV1Transaction(tx) /\ "sender" \notin DOMAIN tx.inner

\* extractInnerTxOperationsIfBeforeSiriusRelayedCompletelyIntrashardWithSignalError
InnerTxOperations(tx) ==
  IF /\ ~IsReleaseSiriusActive(tx.epoch)
     /\ isRelayedV1Transaction(tx)
     /\ tx.inner.value # 0
     /\ isRelayedV1TransactionCompletelyIntrashardWithSignalError(tx)
  THEN Movement("Transfer", tx.inner.sender, tx.inner.receiver, tx.inner.value, Native)
  ELSE <<>>

\* Variation: the value that stays at the sender after a signal error is ignored.
normalTxAlwaysTransfersValue(tx) ==
  Movement("Transfer", tx.sender, tx.receiver, tx.value, Native)
  \o << Operation("Fee", decideFeePayer(tx), -tx.fee, Native) >>
  \o InnerTxOperations(tx)

normalTxToRosetta(tx) ==
  (IF TransfersValue(tx)
   THEN Movement("Transfer", tx.sender, tx.receiver, tx.value, Native) ELSE <<>>)
  \o << Operation("Fee", decideFeePayer(tx), -tx.fee, Native) >>
  \o InnerTxOperations(tx)

\* Variation: rewards are taken from their sender, "metachain".
rewardTxWithItsSender(tx) == Movement("Reward", tx.sender, tx.receiver, tx.value, Native)

rewardTxToRosettaTx(tx) == << Operation("Reward", tx.receiver, tx.value, Native) >>

unsignedTxToRosettaTx(scr, txsInBlock) ==
  CASE isSmartContractResultIneffectiveRefund(scr) -> <<>>
    [] scr.isRefund /\ ~isSmartContractResultIneffectiveRefund(scr) ->
         << Operation("FeeRefundAsSmartContractResult", scr.receiver, scr.value, Native) >>
    [] ~scr.isRefund ->
         IF /\ ~IsReleaseSpicaActive(scr.epoch)
            /\ doesContractResultHoldRewardsOfClaimDeveloperRewards(scr, txsInBlock)
         THEN << Operation("DeveloperRewardsAsSmartContractResult",
                           scr.receiver, scr.value, Native) >>
         ELSE Movement("SmartContractResult", scr.sender, scr.receiver, scr.value, Native)

FeeOfInvalidTx(tx) ==
  IF isInvalidTransactionOfTypeMoveBalanceThatOnlyConsumesDataMovementGas(tx)
  THEN ComputeTransactionFeeForMoveBalance(tx) ELSE tx.fee

\* The value movement is shown, as failed.
invalidTxToRosettaTx(tx) ==
  LET failed == Movement("Transfer", tx.sender, tx.receiver, tx.value, Native)
  IN [ i \in 1 .. 2 |-> [failed[i] EXCEPT !.status = "Failure"] ]
     \o << Operation("FeeOfInvalidTransaction", decideFeePayer(tx), -FeeOfInvalidTx(tx), Native) >>

\* Variation: a pending transaction is shown with its fee, before anybody has paid it.
mempoolTxWithFee(tx) ==
  Movement("Transfer", tx.sender, tx.receiver, tx.value, Native)
  \o << Operation("Fee", tx.sender, -tx.fee, Native) >>

\* Of a pending transaction, only its native value is shown.
mempoolMoveBalanceTxToRosettaTx(tx) ==
  IF tx.value # 0 THEN Movement("Transfer", tx.sender, tx.receiver, tx.value, Native) ELSE <<>>

refundReceiptToRosettaTx(receipt) ==
  << Operation("FeeRefund", receipt.sender, receipt.value, Native) >>

-----------------------------------------------------------------------------
(* Operations given by the events of a transaction *)

\* extractOperationsFromEventESDT
OperationsOfTransfer(event, token) ==
  IF token.identifier = nativeAsESDTIdentifier
  THEN Movement("Transfer", event.address, event.receiver, token.value, Native)
  ELSE IF token.identifier \in customCurrencies
       THEN Movement("CustomTransfer", event.address, event.receiver, token.value,
                     ExtendedIdentifier(token))
       ELSE <<>>

\* Tokens leave (sign -1) or reach (sign 1) one account only.
OperationsOfSupply(account, token, sign) ==
  IF token.identifier \in customCurrencies
  THEN << Operation("CustomTransfer", account, sign * token.value, ExtendedIdentifier(token)) >>
  ELSE <<>>

\* Of a wipe, the account is a topic; of the others, it is the address of the event.
SupplyAccount(event) == IF event.identifier = "ESDTWipe" THEN event.receiver ELSE event.address

OperationsOfEvent(tx, event) ==
  CASE event.identifier = "SCDeploy" ->
         IF tx.receiver = systemContractDeployAddress
         THEN Movement("Transfer", tx.receiver, event.address, tx.value, Native) ELSE <<>>
    [] event.identifier = "transferValueOnly" ->
         IF IsReleaseSiriusActive(tx.epoch) /\ IsEffectiveTransferValueOnly(event)
         THEN Movement("Transfer", event.address, event.receiver, event.value, Native) ELSE <<>>
    [] event.identifier \in TransferEvents ->
         FlattenSeq([i \in DOMAIN event.tokens |-> OperationsOfTransfer(event, event.tokens[i])])
    [] event.identifier \in BurnEvents ->
         OperationsOfSupply(SupplyAccount(event), event.tokens[1], -1)
    [] event.identifier \in MintEvents ->
         OperationsOfSupply(SupplyAccount(event), event.tokens[1], 1)
    [] event.identifier = "ClaimDeveloperRewards" ->
         IF IsReleaseSpicaActive(tx.epoch)
         THEN << Operation("DeveloperRewards", event.receiver, event.value, Native) >> ELSE <<>>

\* The sender of an effective transferValueOnly is decoded, to compare its shard.
CannotDecodeSender(event) ==
  /\ event.identifier = "transferValueOnly"
  /\ event.value # 0 /\ EffectiveData(event)
  /\ ~HasPubKey(event.address)

\* Some event has the wrong number of topics, or a sender that does not decode (the Sirius
\* form of transferValueOnly is not looked for before Sirius).
CannotRecognizeEvent(tx) ==
  /\ ~hasAnySignalError(tx)
  /\ \E i \in DOMAIN tx.events :
       /\ ~HasRightTopics(tx.events[i]) \/ CannotDecodeSender(tx.events[i])
       /\ tx.events[i].identifier = "transferValueOnly" => IsReleaseSiriusActive(tx.epoch)

\* addOperationsGivenTransactionEvents
EventOperations(tx) ==
  IF hasAnySignalError(tx) THEN <<>>
  ELSE LET ordered == FlattenSeq([k \in DOMAIN EventOrder |->
                                    findManyEventsByIdentifier(tx, EventOrder[k])])
       IN  FlattenSeq([i \in DOMAIN ordered |-> OperationsOfEvent(tx, ordered[i])])

-----------------------------------------------------------------------------
(* Filters, and the whole block *)

HashesOfInvalid(txs) == {txs[i].hash : i \in {j \in DOMAIN txs : txs[j].type = "invalid"}}

\* Variation: every contract result is kept.
KeepContractResults(txs) == txs

filterOutIntrashardContractResultsWhoseOriginalTransactionIsInInvalidMiniblock(txs) ==
  Select(txs, LAMBDA tx : ~(tx.type = "unsigned" /\ tx.original \in HashesOfInvalid(txs)))

\* Variation: a relayed transaction is kept beside its invalid twin.
KeepRelayedTransactions(txs) == txs

filterOutIntrashardRelayedTransactionAlreadyHeldInInvalidMiniblock(txs) ==
  Select(txs, LAMBDA tx : ~(isRelayedV1Transaction(tx) /\ tx.hash \in HashesOfInvalid(txs)))

KnownTypes == {"normal", "reward", "unsigned", "invalid"}

txToRosettaTx(tx, txsInBlock) ==
  [ hash |-> tx.hash,
    operations |->
      (CASE tx.type = "normal" -> normalTxToRosetta(tx)
         [] tx.type = "reward" -> rewardTxToRosettaTx(tx)
         [] tx.type = "unsigned" -> unsignedTxToRosettaTx(tx, txsInBlock)
         [] tx.type = "invalid" -> invalidTxToRosettaTx(tx))
      \o EventOperations(tx) ]

\* txToRosettaTx returns an error.
CannotTransform(tx) ==
  tx.type \notin KnownTypes \/ CannotParseRelayedV1(tx) \/ CannotRecognizeEvent(tx)

\* Variation: operations without amount are kept.
KeepObservedOperations(operations) ==
  Select(operations, LAMBDA op : IsAddressObserved(op.account))

\* filterOperationsByAddress, filterOutOperationsWithZeroAmount
KeepOperations(operations) ==
  Select(operations, LAMBDA op : IsAddressObserved(op.account) /\ op.value # 0)

applyDefaultStatusOnOperations(operations) ==
  [ i \in DOMAIN operations |->
      IF operations[i].status = "" THEN [operations[i] EXCEPT !.status = "Success"]
      ELSE operations[i] ]

filterOutRosettaTransactionsWithNoOperations(rosettaTxs) ==
  Select(rosettaTxs, LAMBDA rosettaTx : rosettaTx.operations # <<>>)

\* The transactions and receipts of a block, as Rosetta transactions, before any operation
\* is filtered.
RosettaTxs(txs, receipts) ==
  LET results == filterOutIntrashardContractResultsWhoseOriginalTransactionIsInInvalidMiniblock(txs)
      kept == filterOutIntrashardRelayedTransactionAlreadyHeldInInvalidMiniblock(results)
      refunds == Select(receipts, LAMBDA receipt : receipt.data = "refundedGas")
  IN  [ i \in DOMAIN kept |-> txToRosettaTx(kept[i], kept) ]
      \o [ i \in DOMAIN refunds |->
             [hash |-> refunds[i].hash, operations |-> refundReceiptToRosettaTx(refunds[i])] ]

\* transformBlockTxs returns an error, for the block as a whole: some transaction cannot be
\* transformed, or an operation has an address that does not decode.
TransformFails(txs, receipts) ==
  LET results == filterOutIntrashardContractResultsWhoseOriginalTransactionIsInInvalidMiniblock(txs)
      kept == filterOutIntrashardRelayedTransactionAlreadyHeldInInvalidMiniblock(results)
  IN  \/ \E tx \in Range(kept) : CannotTransform(tx)
      \/ \E rosettaTx \in Range(RosettaTxs(txs, receipts)) :
           \E op \in Range(rosettaTx.operations) : ~HasPubKey(op.account)

\* transformBlockTxs, when it does not fail
transformBlockTxs(txs, receipts) ==
  LET all == RosettaTxs(txs, receipts)
  IN  filterOutRosettaTransactionsWithNoOperations(
        [ i \in DOMAIN all |->
            [all[i] EXCEPT !.operations = applyDefaultStatusOnOperations(KeepOperations(@))] ])
=============================================================================
