----------------------------- MODULE PaymentShown -----------------------------
(***************************************************************************)
(* Construction together with the data endpoints: what the transformer     *)
(* (TransactionsTransformer) makes of a client's transaction, first in     *)
(* /mempool/transaction and then in /block, compared with what the client  *)
(* was shown by /construction/parse.  How the node's API shows the         *)
(* execution of a transfer is external (as in BlockExecution); addresses   *)
(* are the records of TransactionsTransformer.                             *)
(***************************************************************************)
EXTENDS Construction

\* One provider for all addresses of shard 0, in an epoch after Sirius and Spica.
Transformer == INSTANCE TransactionsTransformer WITH
  activationEpochSirius <- 0,
  activationEpochSpica <- 0,
  nativeCurrency <- nativeCurrency.symbol,
  nativeAsESDTIdentifier <- "EGLD-000000",
  customCurrencies <- {c.symbol : c \in customCurrencies},
  systemContractDeployAddress <- NoText,
  NoAddress <- NoText,
  config <- [observedActualShard |-> 0, projected |-> -1, shouldHandleContracts |-> TRUE]

\* The transfer event of a custom transfer; a transfer of native value has none.
TransferEvents(t) ==
  IF t.data.kind # "transfer" THEN <<>>
  ELSE << [ identifier |-> "ESDTTransfer", address |-> t.sender, receiver |-> t.receiver,
            topics |-> 4, value |-> 0, data |-> "",
            tokens |-> << [identifier |-> t.data.token, nonceAsBytes |-> <<>>,
                           value |-> t.data.amount] >> ] >>

ApiTransaction(t, events) ==
  [ type |-> "normal", hash |-> t, sender |-> t.sender, receiver |-> t.receiver,
    value |-> t.value, fee |-> Charged(t), relayer |-> NoText,
    processing |-> IF t.data.kind = "transfer" THEN "BuiltInFunctionCall" ELSE "MoveBalance",
    operation |-> "", nonce |-> t.nonce, dataLength |-> t.data.length, isGuarded |-> FALSE,
    isRefund |-> FALSE, original |-> <<>>, sourceShard |-> 0, destinationShard |-> 0,
    epoch |-> 0, inner |-> [value |-> 0], events |-> events ]

Shown(operations) ==
  { [type |-> op.type, account |-> op.account, value |-> op.value, symbol |-> op.currency.symbol] :
      op \in {operations[i] : i \in DOMAIN operations} }

\* What /construction/parse showed, without decimals (TransactionsTransformer leaves them out).
Parsed(t) == Shown(ParsedOperations(t))

InMempool(t) == Shown(Transformer!mempoolMoveBalanceTxToRosettaTx(ApiTransaction(t, <<>>)))

\* /block: the operations of the transaction, without its fee
InBlock(t) ==
  LET served == Transformer!transformBlockTxs(<< ApiTransaction(t, TransferEvents(t)) >>, <<>>)
  IN  {op \in Shown(served[1].operations) : op.type # "Fee"}

Enabled(s) == payment[s].intent.currency \in customCurrencies \cup {nativeCurrency}

\* A payment in an enabled currency is shown by /block as it was by /construction/parse, and by
\* /mempool/transaction as well if it is native (a custom one has no operations there): a
\* client that waits for its operations finds them.
PaymentIsShown ==
  \A s \in Sessions : \A t \in signed[s] :
    Enabled(s) =>
      /\ t \in pool => InMempool(t) = IF IsNative(payment[s].intent) THEN Parsed(t) ELSE {}
      /\ t \in Executed(Len(chain)) => InBlock(t) = Parsed(t)
=============================================================================
