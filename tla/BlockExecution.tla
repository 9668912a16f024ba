---------------------------- MODULE BlockExecution ----------------------------
(***************************************************************************)
(* EXTERNAL, but for the properties.  What the MultiversX protocol does to *)
(* the balances of one shard in one block, and how the node's API shows    *)
(* it: one action per kind of execution that the code and the test data of *)
(* server/services tell apart.  The balance changes are those of the       *)
(* protocol; transactionsTransformer sees `txs' and `receipts' only, and   *)
(* must find the same changes again.                                       *)
(*                                                                         *)
(* Names: Alice, Bob and Con (a contract) are in shard 0, Carol and        *)
(* RemoteCon in shard 1.                                                   *)
(***************************************************************************)
EXTENDS TransactionsTransformer

CONSTANTS
  Alice, Bob, Con, NewCon, Carol, RemoteCon,
  Metachain,          \* the sender of rewards: not an address
  Tokens,             \* the tokens that are moved: [identifier, nonce, value]
  PaidFee, ToldFee, Refund,  \* fees, and the value of the gas that comes back
  Amount,             \* native value that is moved ...
  Values,             \* ... and where it may be one of several
  MaxExecutions,      \* bound: executions in the block
  Configs, Epochs     \* bounds: provider configurations, epochs of the block

AccountList == <<Alice, Bob, Con, NewCon, systemContractDeployAddress, Carol, RemoteCon>>
Accounts == {AccountList[i] : i \in DOMAIN AccountList}

ASSUME AmountAssumption ==
  /\ Values \subseteq Nat
  /\ PaidFee \in Nat /\ ToldFee \in Nat /\ Refund \in Nat /\ Amount \in Nat
  /\ networkConfig \in [ {"MinGasLimit", "GasPerDataByte", "ExtraGasLimitGuardedTx",
                          "ExtraGasLimitRelayedTxV3", "GasPrice"} -> Nat ]

ASSUME AccountAssumption ==
  /\ \A i, j \in DOMAIN AccountList : AccountList[i] = AccountList[j] => i = j
  /\ \A account \in Accounts : HasPubKey(account) /\ account.shard \in Nat
  /\ \A i \in DOMAIN AccountList : AccountList[i].shard = 0 <=> i <= 5
  /\ isContractAddress(Con) /\ isContractAddress(RemoteCon)
  /\ NoAddress \notin Accounts

\* The identifier of a token has two parts, the symbol of the native currency has one; no
\* token that can be minted has the identifier of the native currency among tokens.
ASSUME CurrencyAssumption ==
  /\ \A token \in Tokens :
       /\ token \in [identifier : STRING \X STRING, nonce : Nat, value : Nat]
       /\ token.identifier # nativeAsESDTIdentifier
  /\ nativeAsESDTIdentifier \in STRING \X STRING
  /\ nativeCurrency \in Seq(STRING) /\ Len(nativeCurrency) = 1

\* The block is one of the shard that is observed.
ASSUME BlockAssumption ==
  /\ MaxExecutions \in Nat /\ Epochs \subseteq Nat
  /\ \A c \in Configs : c.observedActualShard = 0

VARIABLES
  epoch,      \* the block's
  executed,   \* executions so far
  txs,        \* transactions and contract results of the block
  receipts,   \* its receipts
  changes     \* what happened to balances: [account, balance, value]

vars == <<config, epoch, executed, txs, receipts, changes>>

Init ==
  /\ config \in Configs
  /\ epoch \in Epochs
  /\ executed = 0
  /\ txs = <<>>
  /\ receipts = <<>>
  /\ changes = <<>>

-----------------------------------------------------------------------------
NativeToken == [identifier |-> nativeAsESDTIdentifier, nonce |-> 0, value |-> Amount]

NoInner == [value |-> 0]

Transaction(sender, receiver, value) ==
  [ type |-> "normal", hash |-> <<executed + 1, 0>>, sender |-> sender, receiver |-> receiver,
    value |-> value, fee |-> PaidFee, relayer |-> NoAddress, processing |-> "MoveBalance",
    operation |-> "", nonce |-> 0, dataLength |-> 0, isGuarded |-> FALSE, isRefund |-> FALSE,
    original |-> <<>>, sourceShard |-> sender.shard, destinationShard |-> receiver.shard,
    epoch |-> epoch, inner |-> NoInner, events |-> <<>> ]

\* The k-th contract result of the transaction being executed.
ContractResult(k, sender, receiver, value) ==
  [ Transaction(sender, receiver, value) EXCEPT
      !.type = "unsigned", !.hash = <<executed + 1, k>>, !.fee = 0,
      !.original = <<executed + 1, 0>> ]

Event(identifier, address, receiver, topics) ==
  [ identifier |-> identifier, address |-> address, receiver |-> receiver, topics |-> topics,
    tokens |-> <<>>, value |-> 0, data |-> "" ]

SignalError(reason) == [Event("signalError", Con, NoAddress, 2) EXCEPT !.data = reason]

\* The balances of an account: the native one, and one for each token and nonce.
NativeBalance == [identifier |-> nativeCurrency, nonce |-> 0]
BalanceOf(token) ==
  IF token.identifier = nativeAsESDTIdentifier THEN NativeBalance
  ELSE [identifier |-> token.identifier, nonce |-> token.nonce]

Change(account, balance, value) == [account |-> account, balance |-> balance, value |-> value]
Moved(from, to, value, balance) ==
  << Change(from, balance, -value), Change(to, balance, value) >>
Paid(account, fee) == << Change(account, NativeBalance, -fee) >>

\* The protocol tells a nonce in as few bytes as it needs (0 in none).
Bytes(nonce) ==
  LET bytes[n \in 0 .. nonce] ==
        IF n = 0 THEN <<>> ELSE Append(bytes[n \div 256], n % 256)
  IN  bytes[nonce]

InEvent(token) ==
  [identifier |-> token.identifier, nonceAsBytes |-> Bytes(token.nonce), value |-> token.value]

Execute(newTxs, newReceipts, newChanges) ==
  /\ executed < MaxExecutions
  /\ executed' = executed + 1
  /\ txs' = txs \o newTxs
  /\ receipts' = receipts \o newReceipts
  /\ changes' = changes \o newChanges
  /\ UNCHANGED <<config, epoch>>

-----------------------------------------------------------------------------
\* A move of balance, of either shard, possibly relayed (V3, relayer of the sender's shard).
MoveBalance ==
  \E value \in Values, parties \in {<<Alice, Bob>>, <<Alice, Carol>>, <<Carol, Bob>>} :
  \E relayer \in IF parties = <<Alice, Carol>> THEN {NoAddress, Bob} ELSE {NoAddress} :
    LET tx == [Transaction(parties[1], parties[2], value) EXCEPT !.relayer = relayer]
    IN  Execute(<<tx>>, <<>>,
          Moved(tx.sender, tx.receiver, value, NativeBalance)
          \o Paid(IF relayer = NoAddress THEN tx.sender ELSE relayer, PaidFee))

\* An invalid transaction costs the fee that the API tells...
InvalidTransaction ==
  \E relayer \in {NoAddress, Bob}, withResult \in BOOLEAN :
    LET tx == [Transaction(Alice, Con, Amount) EXCEPT
                 !.type = "invalid", !.relayer = relayer, !.processing = "SCInvoking"]
        result == ContractResult(1, Con, Alice, Amount)
    IN  Execute(IF withResult THEN <<result, tx>> ELSE <<tx>>, <<>>,
          Paid(IF relayer = NoAddress THEN Alice ELSE relayer, PaidFee))

\* ... but for two errors, where only the movement of its data is paid for (and the API
\* tells a higher fee).
InvalidMoveBalance ==
  \E relayer \in {NoAddress, Bob}, reason \in {"nonPayable", "invalidMeta"},
     isGuarded \in BOOLEAN, dataLength \in {0, 5} :
    LET tx == [Transaction(Alice, Con, Amount) EXCEPT
                 !.type = "invalid", !.relayer = relayer, !.dataLength = dataLength,
                 !.isGuarded = isGuarded, !.fee = ToldFee, !.events = <<SignalError(reason)>>]
        gas == networkConfig.MinGasLimit + dataLength * networkConfig.GasPerDataByte
               + (IF isGuarded THEN networkConfig.ExtraGasLimitGuardedTx ELSE 0)
               + (IF relayer = NoAddress THEN 0 ELSE networkConfig.ExtraGasLimitRelayedTxV3)
    IN  Execute(<<tx>>, <<>>,
          Paid(IF relayer = NoAddress THEN Alice ELSE relayer, gas * networkConfig.GasPrice))

\* An invalid relayed (V1) transaction is in its invalid miniblock and in an ordinary one.
InvalidRelayedTransaction ==
  LET tx == [Transaction(Bob, Alice, 0) EXCEPT
               !.processing = "RelayedTx", !.dataLength = 5,
               !.inner = [sender |-> Alice, receiver |-> Con, value |-> Amount]]
  IN  Execute(<<tx, [tx EXCEPT !.type = "invalid"]>>, <<>>, Paid(Bob, PaidFee))

\* A call that succeeds; unused gas comes back, to the caller or, for a contract's own
\* call, not at all (its "refund" to itself has no effect).
ContractCall ==
  \E value \in Values, caller \in {Alice, Carol}, callee \in {Con, RemoteCon} :
  \E refund \in {"none", "result", "ineffective", "receipt"} :
    /\ caller = Alice \/ callee = Con
    /\ LET tx == [Transaction(caller, callee, value) EXCEPT !.processing = "SCInvoking"]
           result == [ContractResult(1, callee, IF refund = "result" THEN caller ELSE callee, Refund)
                        EXCEPT !.isRefund = TRUE]
       IN  Execute(
             IF refund \in {"result", "ineffective"} THEN <<tx, result>> ELSE <<tx>>,
             IF refund = "receipt" /\ caller = Alice
             THEN << [hash |-> <<executed + 1, 9>>, data |-> "refundedGas",
                      sender |-> caller, value |-> Refund],
                     [hash |-> <<executed + 1, 8>>, data |-> "other",
                      sender |-> caller, value |-> 1] >> ELSE <<>>,
             Moved(caller, callee, value, NativeBalance) \o Paid(caller, PaidFee)
             \o (IF refund = "result" \/ (refund = "receipt" /\ caller = Alice)
                 THEN << Change(caller, NativeBalance, Refund) >> ELSE <<>>))

\* A contract pays out native value.  There is a contract result for it, unless (since
\* Sirius) it is told by a transferValueOnly event alone.
ContractPays ==
  \E to \in {Bob, Carol}, data \in {"ExecuteOnDestContext", "AsyncCall", "DirectCall"} :
    LET tx == [Transaction(Alice, Con, 0) EXCEPT !.processing = "SCInvoking",
                 !.events = << [Event("transferValueOnly", Con, to,
                                      IF IsReleaseSiriusActive(epoch) THEN 2 ELSE 3)
                                  EXCEPT !.value = Amount, !.data = data] >>]
        eventOnly == IsReleaseSiriusActive(epoch) /\ data # "DirectCall" /\ to.shard = Con.shard
    IN  Execute(IF eventOnly THEN <<tx>> ELSE <<tx, ContractResult(1, Con, to, Amount)>>, <<>>,
          Moved(Con, to, Amount, NativeBalance) \o Paid(Alice, PaidFee))

\* A call or deployment that fails keeps its fee and nothing else.  Before Sirius, and
\* across shards, the value goes to the receiver and a result brings it back.
ExecutionFails ==
  \E value \in Values, caller \in {Alice, Carol}, processing \in {"SCInvoking", "SCDeployment"} :
    /\ caller = Alice \/ processing = "SCInvoking"
    /\ LET callee == IF processing = "SCInvoking" THEN Con ELSE systemContractDeployAddress
           tx == [Transaction(caller, callee, value) EXCEPT
                    !.processing = processing, !.destinationShard = 0,
                    !.events = <<SignalError("execution failed")>>]
           comesBack == ~IsReleaseSiriusActive(epoch) \/ caller = Carol
       IN  Execute(IF comesBack THEN <<tx, ContractResult(1, callee, caller, value)>> ELSE <<tx>>,
             <<>>, Paid(caller, PaidFee))

\* The value of a call that failed in the other shard comes back in a later block.
ValueReturnsFromOtherShard ==
  Execute(<<[ContractResult(1, RemoteCon, Alice, Amount) EXCEPT !.original = <<0, 0>>]>>, <<>>,
          << Change(Alice, NativeBalance, Amount) >>)

\* A contract is deployed, directly or by a contract that is called.
Deployment ==
  \E value \in Values, direct \in BOOLEAN, topics \in {2, 3} :
    LET event == Event("SCDeploy", NewCon, Alice, topics)
        tx == IF direct
              THEN [Transaction(Alice, systemContractDeployAddress, value) EXCEPT
                      !.processing = "SCDeployment", !.destinationShard = 0, !.events = <<event>>]
              ELSE [Transaction(Alice, Con, value) EXCEPT
                      !.processing = "SCInvoking", !.events = <<event>>]
    IN  Execute(<<tx>>, <<>>,
          Moved(Alice, IF direct THEN NewCon ELSE Con, value, NativeBalance) \o Paid(Alice, PaidFee))

\* The owner of a contract of this shard claims the rewards: a result from the owner to
\* itself holds them, and since Spica an event, too.
ClaimDeveloperRewards ==
  LET tx == [Transaction(Alice, Con, 0) EXCEPT
               !.processing = "BuiltInFunctionCall", !.operation = "ClaimDeveloperRewards",
               !.dataLength = 5,
               !.events = IF IsReleaseSpicaActive(epoch)
                          THEN << [Event("ClaimDeveloperRewards", Con, Alice, 2)
                                     EXCEPT !.value = Amount] >> ELSE <<>>]
  IN  Execute(<<tx, ContractResult(1, Alice, Alice, Amount)>>, <<>>,
        << Change(Alice, NativeBalance, Amount) >> \o Paid(Alice, PaidFee))

\* Tokens are transferred, one or several at once; native value may be among several.
TokenTransfer ==
  \E token \in Tokens, to \in {Bob, Carol}, withNative \in BOOLEAN :
    LET tokens == IF withNative THEN <<token, NativeToken>> ELSE <<token>>
        identifier == IF withNative THEN "MultiESDTNFTTransfer"
                      ELSE IF token.nonce = 0 THEN "ESDTTransfer" ELSE "ESDTNFTTransfer"
        tx == [Transaction(Alice, to, 0) EXCEPT
                 !.processing = "BuiltInFunctionCall",
                 !.events = << [Event(identifier, Alice, to, IF withNative THEN 7 ELSE 4)
                                  EXCEPT !.tokens = [i \in DOMAIN tokens |-> InEvent(tokens[i])]] >>]
    IN  Execute(<<tx>>, <<>>,
          FlattenSeq([i \in DOMAIN tokens |->
            Moved(Alice, to, tokens[i].value, BalanceOf(tokens[i]))])
          \o Paid(Alice, PaidFee))

\* Tokens are burnt, wiped, minted or created.
SupplyChange ==
  \E token \in Tokens, identifier \in BurnEvents \cup MintEvents :
    LET wiped == identifier = "ESDTWipe"
        account == IF wiped THEN Bob ELSE Alice
        tx == [Transaction(Alice, Alice, 0) EXCEPT
                 !.processing = "BuiltInFunctionCall",
                 !.events = << [Event(identifier, Alice, IF wiped THEN Bob ELSE NoAddress,
                                      IF identifier \in {"ESDTWipe", "ESDTNFTCreate"} THEN 4 ELSE 3)
                                  EXCEPT !.tokens = <<InEvent(token)>>] >>]
        sign == IF identifier \in {"ESDTLocalBurn", "ESDTNFTBurn", "ESDTWipe"} THEN -1 ELSE 1
    IN  Execute(<<tx>>, <<>>,
          << Change(account, BalanceOf(token), sign * token.value) >>
          \o Paid(Alice, PaidFee))

\* The metachain rewards an account.
RewardTransaction ==
  \E to \in {Alice, Con} :
    Execute(<<[Transaction(Alice, to, Amount) EXCEPT
                 !.type = "reward", !.sender = Metachain, !.fee = 0]>>, <<>>,
            << Change(to, NativeBalance, Amount) >>)

\* A relayed (V1) transaction: its value moves by a contract result; when its execution
\* fails, before Sirius, a result brings back what no result has moved.
RelayedTransaction ==
  \E value \in Values, fails \in BOOLEAN :
    LET tx == [Transaction(Bob, Alice, 0) EXCEPT
                 !.processing = "RelayedTx", !.dataLength = 5,
                 !.inner = [sender |-> Alice, receiver |-> Con, value |-> value],
                 !.events = IF fails THEN <<SignalError("execution failed")>> ELSE <<>>]
        results == CASE ~fails -> <<ContractResult(1, Alice, Con, value)>>
                     [] fails /\ ~IsReleaseSiriusActive(epoch) ->
                          <<ContractResult(1, Con, Alice, value)>>
                     [] OTHER -> <<>>
    IN  Execute(<<tx>> \o results, <<>>,
          (IF fails THEN <<>> ELSE Moved(Alice, Con, value, NativeBalance)) \o Paid(Bob, PaidFee))

Next ==
  \/ MoveBalance \/ InvalidTransaction \/ InvalidMoveBalance \/ InvalidRelayedTransaction
  \/ ContractCall \/ ContractPays \/ ExecutionFails \/ ValueReturnsFromOtherShard
  \/ Deployment \/ ClaimDeveloperRewards \/ TokenTransfer \/ SupplyChange
  \/ RewardTransaction \/ RelayedTransaction

Spec == Init /\ [][Next]_vars

-----------------------------------------------------------------------------
(* Properties of the block that transformBlockTxs makes of it *)

Total(amounts) ==
  LET sum[i \in 0 .. Len(amounts)] == IF i = 0 THEN 0 ELSE sum[i - 1] + amounts[i]
  IN  sum[Len(amounts)]

Served == transformBlockTxs(txs, receipts)
ServedOperations == FlattenSeq([i \in DOMAIN Served |-> Served[i].operations])

\* The balances that are served, and the one that a client is answered with when it asks
\* for the currency of an operation (/account/balance).
ServedBalances ==
  {NativeBalance} \cup {BalanceOf(token) : token \in {t \in Tokens : t.identifier \in customCurrencies}}
Queries == INSTANCE AccountBalance
AskedBalance(op) == Queries!GetAccountBalance(op.currency.symbol)

\* A block is served: no transaction that the protocol executes makes transformBlockTxs
\* fail, as one operation on something that is not an address, or one event read wrongly,
\* would do for the whole block (and the client's sync would stop there).
BlockIsServed == ~TransformFails(txs, receipts)

\* The successful operations of the block explain every change of every observed balance
\* that /account/balance answers with when it is asked for their currencies, native and
\* custom: nothing is missing, nothing is counted twice, and nothing is left of what failed.
Reconciled ==
  LET operations == ServedOperations
  IN  \A account \in {a \in Accounts : IsAddressObserved(a)}, balance \in ServedBalances :
        Total([i \in DOMAIN operations |->
                 IF /\ operations[i].status = "Success"
                    /\ operations[i].account = account /\ AskedBalance(operations[i]) = balance
                 THEN operations[i].value ELSE 0])
        = Total([i \in DOMAIN changes |->
                   IF changes[i].account = account /\ changes[i].balance = balance
                   THEN changes[i].value ELSE 0])

\* The served block is one a Rosetta client accepts: no transaction occurs twice or
\* without operations, no operation is empty or of an account or balance not served, and
\* no balance is told in two currencies.
BlockIsAcceptable ==
  LET served == Served
  IN  /\ \A i, j \in DOMAIN served : served[i].hash = served[j].hash => i = j
      /\ \A i \in DOMAIN served :
           /\ served[i].operations # <<>>
           /\ \A op \in Range(served[i].operations) :
                op.value # 0 /\ IsAddressObserved(op.account) /\ AskedBalance(op) \in ServedBalances
      /\ \A op, other \in Range(ServedOperations) :
           AskedBalance(op) = AskedBalance(other) => op.currency = other.currency
=============================================================================
