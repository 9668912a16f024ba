----------------------------- MODULE Construction -----------------------------
(***************************************************************************)
(* Payments made with the construction endpoints: clients that carry the   *)
(* state from /construction/preprocess to /construction/submit, the        *)
(* service (ConstructionService), and a node that executes what it is      *)
(* sent, rolls back, forgets and settles.                                  *)
(*                                                                         *)
(* The client and the node are external.  The client is the one of the     *)
(* Rosetta specification (and of src/systemtests): it compares what /parse *)
(* tells with what it wants, before it signs and before it submits,        *)
(* repeats calls on retriable errors, and starts over when a payment can   *)
(* no longer succeed.  Each session makes one payment.  A transaction is   *)
(* its own hash: equal transactions are one transaction.                   *)
(***************************************************************************)
EXTENDS ConstructionService, FiniteSets

CONSTANTS
  Sessions,
  PaymentsOf,           \* PaymentsOf[s]: the payments that session s may be about
  RequiredTransferGas   \* external: gas that the network wants for executing a custom transfer

Forms == {"operations", "oneOperation", "metadata", "negative", "swapped", "incomplete", "text"}

ASSUME ConstructionAssumption ==
  /\ RequiredTransferGas \in 0 .. networkConfig.GasLimitCustomTransfer
  /\ \A s \in Sessions, p \in UNION {PaymentsOf[t] : t \in Sessions} :
       /\ p.form \in Forms
       /\ p.intent.amount \in Nat \ {0}
       /\ p.data.kind \in {"none", "message", "transfer", "malformed"}
       /\ p.data.length \in Nat
       /\ p.gasLimit \in Nat /\ p.gasPrice \in Nat

VARIABLES
  pc,          \* the call that a session makes next, or how it ended
  payment,     \* what it is about: [intent, form, data, gasLimit, gasPrice]
  options,     \* the response of preprocess
  metadata,    \* the response of metadata ...
  suggested,   \* ... and the suggested fee in it
  tx,          \* the transaction, unsigned or signed
  error,       \* the error of the last call that failed
  signed,      \* history: all transactions that a session has signed
  pool,        \* external: transactions that wait at the node
  chain,       \* external: transactions executed, one in each block
  settled      \* external: how many of them can no longer be rolled back

sessionVars == <<pc, payment, options, metadata, suggested, tx, error, signed>>
networkVars == <<pool, chain, settled>>
vars == <<sessionVars, networkVars>>

Nothing == [none |-> TRUE]

-----------------------------------------------------------------------------
(* What a client wants, and how it says so *)

IsNative(intent) == intent.currency = nativeCurrency

Debit(intent) ==
  [ type |-> IF IsNative(intent) THEN "Transfer" ELSE "CustomTransfer",
    account |-> intent.sender, value |-> -intent.amount, currency |-> intent.currency ]
Credit(intent) ==
  [ Debit(intent) EXCEPT !.account = intent.receiver, !.value = intent.amount ]

\* The request for a payment: with operations, in either order, with metadata, or a mix; with
\* too few operations; with the amount as the change of the sender's balance, or with a text.
RequestOf(p) ==
  LET intent == p.intent
      full == p.form = "metadata"
  IN  [ operations |->
          CASE p.form = "metadata" -> <<>>
            [] p.form \in {"oneOperation", "incomplete"} -> << Debit(intent) >>
            [] p.form = "swapped" -> << Credit(intent), Debit(intent) >>
            [] OTHER -> << Debit(intent), Credit(intent) >>,
        metadata |->
          [ sender |-> IF full THEN intent.sender ELSE NoText,
            receiver |-> IF full \/ p.form = "oneOperation" THEN intent.receiver ELSE NoText,
            amount |-> CASE full -> intent.amount
                         [] p.form = "negative" -> -intent.amount
                         [] p.form = "text" -> NotANumber
                         [] OTHER -> NoAmount,
            currencySymbol |-> IF full THEN intent.currency.symbol ELSE NoText,
            gasLimit |-> p.gasLimit, gasPrice |-> p.gasPrice, data |-> p.data ] ]

\* The client's check of /construction/parse, as operations in any order.
IsAsIntended(t, intent) ==
  /\ ParseSucceeds(t)
  /\ {ParsedOperations(t)[i] : i \in 1 .. 2} = {Debit(intent), Credit(intent)}

\* Variation: a failed submission is final.
OnlyAccountErrorsAreRetriable == {"ErrUnableToGetAccount"}

\* errors.go: the errors that these calls may be repeated on.
Retriable == {"ErrUnableToGetAccount", "ErrUnableToSubmitTransaction"}
CallOf == [ErrUnableToGetAccount |-> "metadata", ErrUnableToSubmitTransaction |-> "submit"]

-----------------------------------------------------------------------------
(* The node *)

\* The nonce of an account after the first n blocks.
NonceAfter(account, n) == Cardinality({i \in 1 .. n : chain[i].sender = account})

\* Variation: the account's state at the head of the chain.
NonceAtHead(account) == NonceAfter(account, Len(chain))

\* Variation: the nonce of the last transaction, not the one of the next.
NonceOfLastTransaction(account) == NonceAfter(account, settled) - 1

\* GetAccount: buildUrlGetAccount asks for the state on the final block.
AccountNonce(account) == NonceAfter(account, settled)

Executed(n) == {chain[i] : i \in 1 .. n}

RequiredGas(t) ==
  networkConfig.MinGasLimit + networkConfig.GasPerDataByte * t.data.length
  + (IF t.data.kind = "transfer" THEN RequiredTransferGas ELSE 0)

HasEnoughGas(t) == t.gasLimit >= RequiredGas(t) /\ t.gasPrice >= networkConfig.MinGasPrice

NodeAccepts(t) ==
  /\ t.nonce >= NonceAfter(t.sender, Len(chain))
  /\ t.value \in Nat
  /\ HasEnoughGas(t)
  /\ t.signature = t.sender

\* What the execution of a transaction changes.
Effect(t) ==
  CASE t.data.kind = "transfer" /\ t.value = 0 ->
         [ sender |-> t.sender, receiver |-> t.receiver,
           amount |-> t.data.amount, symbol |-> t.data.token ]
    [] t.data.kind \in {"none", "message"} ->
         [ sender |-> t.sender, receiver |-> t.receiver,
           amount |-> t.value, symbol |-> nativeCurrency.symbol ]
    [] OTHER -> Nothing

\* The fee that is kept, once the gas that execution did not need has been refunded.  The node
\* rounds a price of gas as the middleware does; that they might differ is not looked for.
Charged(t) ==
  (networkConfig.MinGasLimit + networkConfig.GasPerDataByte * t.data.length) * t.gasPrice
  + (IF t.data.kind = "transfer" THEN RequiredTransferGas * executionGasPrice(t.gasPrice) ELSE 0)

\* A transaction in the pool whose turn it is; others with its nonce are dropped.
Execute ==
  \E t \in pool :
    /\ t.nonce = NonceAfter(t.sender, Len(chain))
    /\ chain' = Append(chain, t)
    /\ pool' = {u \in pool : u.sender = t.sender => u.nonce > t.nonce}
    /\ UNCHANGED <<sessionVars, settled>>

\* The head is rolled back; its transaction returns to the pool, or does not.
Rollback ==
  /\ settled < Len(chain)
  /\ chain' = SubSeq(chain, 1, Len(chain) - 1)
  /\ pool' \in {pool, pool \cup {chain[Len(chain)]}}
  /\ UNCHANGED <<sessionVars, settled>>

Settle ==
  /\ settled < Len(chain)
  /\ settled' = settled + 1
  /\ UNCHANGED <<sessionVars, pool, chain>>

PoolForgets ==
  /\ \E t \in pool : pool' = pool \ {t}
  /\ UNCHANGED <<sessionVars, chain, settled>>

-----------------------------------------------------------------------------
Init ==
  /\ pc = [s \in Sessions |-> "idle"]
  /\ payment = [s \in Sessions |-> Nothing]
  /\ options = [s \in Sessions |-> Nothing]
  /\ metadata = [s \in Sessions |-> Nothing]
  /\ suggested = [s \in Sessions |-> 0]
  /\ tx = [s \in Sessions |-> Nothing]
  /\ error = [s \in Sessions |-> "none"]
  /\ signed = [s \in Sessions |-> {}]
  /\ pool = {}
  /\ chain = <<>>
  /\ settled = 0

Goto(s, place) == pc' = [pc EXCEPT ![s] = place]

Begin(s) ==
  /\ pc[s] = "idle"
  /\ \E p \in PaymentsOf[s] : payment' = [payment EXCEPT ![s] = p]
  /\ Goto(s, "preprocess")
  /\ UNCHANGED <<options, metadata, suggested, tx, error, signed, networkVars>>

ConstructionPreprocess(s) ==
  /\ pc[s] = "preprocess"
  /\ PreprocessSucceeds(RequestOf(payment[s]))
  /\ options' = [options EXCEPT ![s] = OptionsOf(RequestOf(payment[s]))]
  /\ Goto(s, "metadata")
  /\ UNCHANGED <<payment, metadata, suggested, tx, error, signed, networkVars>>

\* ErrConstruction
RefuseRequest(s) ==
  /\ pc[s] = "preprocess"
  /\ ~PreprocessSucceeds(RequestOf(payment[s]))
  /\ Goto(s, "refused")
  /\ UNCHANGED <<payment, options, metadata, suggested, tx, error, signed, networkVars>>

ConstructionMetadata(s) ==
  /\ pc[s] = "metadata"
  /\ FeeIsAccepted(options[s])
  /\ metadata' = [metadata EXCEPT ![s] =
                    MetadataOf(options[s], AccountNonce(options[s].sender))]
  /\ suggested' = [suggested EXCEPT ![s] = computeFee(options[s])]
  /\ options' = [options EXCEPT ![s] = Nothing]
  /\ Goto(s, "payloads")
  /\ UNCHANGED <<payment, tx, error, signed, networkVars>>

\* ErrInsufficientGasLimit, ErrGasPriceTooLow (computed after the account was asked for)
RefuseFee(s) ==
  /\ pc[s] = "metadata"
  /\ ~FeeIsAccepted(options[s])
  /\ Goto(s, "refused")
  /\ UNCHANGED <<payment, options, metadata, suggested, tx, error, signed, networkVars>>

\* GetAccount fails.
MetadataFails(s) ==
  /\ pc[s] = "metadata"
  /\ error' = [error EXCEPT ![s] = "ErrUnableToGetAccount"]
  /\ Goto(s, "failed")
  /\ UNCHANGED <<payment, options, metadata, suggested, tx, signed, networkVars>>

ConstructionPayloads(s) ==
  /\ pc[s] = "payloads"
  /\ MetadataIsValid(metadata[s])
  /\ tx' = [tx EXCEPT ![s] = TransactionOf(metadata[s])]
  /\ metadata' = [metadata EXCEPT ![s] = Nothing]
  /\ Goto(s, "parse")
  /\ UNCHANGED <<payment, options, suggested, error, signed, networkVars>>

\* /construction/parse of the unsigned transaction shows what the client wants...
ConstructionParse(s) ==
  /\ pc[s] = "parse"
  /\ IsAsIntended(tx[s], payment[s].intent)
  /\ Goto(s, "combine")
  /\ UNCHANGED <<payment, options, metadata, suggested, tx, error, signed, networkVars>>

\* ... or it does not, and the client does not sign.
RefuseToSign(s) ==
  /\ pc[s] = "parse"
  /\ ~IsAsIntended(tx[s], payment[s].intent)
  /\ Goto(s, "refused")
  /\ UNCHANGED <<payment, options, metadata, suggested, tx, error, signed, networkVars>>

\* The client signs with the key that the payload asks for, and combines.
ConstructionCombine(s) ==
  /\ pc[s] = "combine"
  /\ tx' = [tx EXCEPT ![s] = CombinedWith(@, payment[s].intent.sender)]
  /\ signed' = [signed EXCEPT ![s] = @ \cup {tx'[s]}]
  /\ Goto(s, "parseSigned")
  /\ UNCHANGED <<payment, options, metadata, suggested, error, networkVars>>

ConstructionParseSigned(s) ==
  /\ pc[s] = "parseSigned"
  /\ IsAsIntended(tx[s], payment[s].intent)
  /\ Signers(tx[s]) = {payment[s].intent.sender}
  /\ Goto(s, "submit")
  /\ UNCHANGED <<payment, options, metadata, suggested, tx, error, signed, networkVars>>

\* SendTransaction: the node takes the transaction; its answer arrives, or does not.
ConstructionSubmit(s) ==
  /\ pc[s] = "submit"
  /\ NodeAccepts(tx[s])
  /\ pool' = pool \cup {tx[s]}
  /\ \/ Goto(s, "sent") /\ UNCHANGED error
     \/ Goto(s, "failed") /\ error' = [error EXCEPT ![s] = "ErrUnableToSubmitTransaction"]
  /\ UNCHANGED <<payment, options, metadata, suggested, tx, signed, chain, settled>>

\* SendTransaction fails: the node is not reached, or does not accept.
SubmitFails(s) ==
  /\ pc[s] = "submit"
  /\ error' = [error EXCEPT ![s] = "ErrUnableToSubmitTransaction"]
  /\ Goto(s, "failed")
  /\ UNCHANGED <<payment, options, metadata, suggested, tx, signed, networkVars>>

\* The client repeats the call when the error is retriable, and starts over otherwise.
HandleError(s) ==
  /\ pc[s] = "failed"
  /\ Goto(s, IF error[s] \in Retriable THEN CallOf[error[s]] ELSE "preprocess")
  /\ error' = [error EXCEPT ![s] = "none"]
  /\ UNCHANGED <<payment, options, metadata, suggested, tx, signed, networkVars>>

\* /mempool/transaction does not know the transaction, nor is it in a block.
SubmitAgain(s) ==
  /\ pc[s] = "sent"
  /\ tx[s] \notin pool \cup Executed(Len(chain))
  /\ Goto(s, "submit")
  /\ UNCHANGED <<payment, options, metadata, suggested, tx, error, signed, networkVars>>

\* The client finds the transaction in a block, by the hash that /construction/hash computed:
\* also when /construction/submit never answers, as the node takes no transaction twice.
Confirm(s) ==
  /\ pc[s] \in {"submit", "failed", "sent"}
  /\ tx[s] \in Executed(settled)
  /\ Goto(s, "done")
  /\ UNCHANGED <<payment, options, metadata, suggested, tx, error, signed, networkVars>>

\* The nonce has been used, for good, by another transaction.
StartOver(s) ==
  /\ pc[s] \in {"submit", "failed", "sent"}
  /\ tx[s] # Nothing
  /\ tx[s].nonce < NonceAfter(tx[s].sender, settled)
  /\ tx[s] \notin Executed(settled)
  /\ tx' = [tx EXCEPT ![s] = Nothing]
  /\ error' = [error EXCEPT ![s] = "none"]
  /\ Goto(s, "preprocess")
  /\ UNCHANGED <<payment, options, metadata, suggested, signed, networkVars>>

Over == {"done", "refused", "abandoned"}

\* The client ends, whatever it was about to do.
Abandon(s) ==
  /\ pc[s] \notin Over \cup {"idle"}
  /\ Goto(s, "abandoned")
  /\ UNCHANGED <<payment, options, metadata, suggested, tx, error, signed, networkVars>>

SessionStep(s) ==
  \/ ConstructionPreprocess(s) \/ RefuseRequest(s)
  \/ ConstructionMetadata(s) \/ RefuseFee(s) \/ MetadataFails(s)
  \/ ConstructionPayloads(s)
  \/ ConstructionParse(s) \/ RefuseToSign(s)
  \/ ConstructionCombine(s)
  \/ ConstructionParseSigned(s)
  \/ ConstructionSubmit(s) \/ SubmitFails(s)
  \/ HandleError(s)
  \/ SubmitAgain(s) \/ Confirm(s) \/ StartOver(s)

Next ==
  \/ \E s \in Sessions : Begin(s) \/ SessionStep(s) \/ Abandon(s)
  \/ Execute \/ Rollback \/ Settle \/ PoolForgets

Spec == Init /\ [][Next]_vars

\* Clients go on; a call that is repeated again and again succeeds some time; and so does the
\* node with what it has: it executes what it can and, however often it rolls back, settles.
Fairness ==
  /\ \A s \in Sessions :
       WF_vars(SessionStep(s)) /\ WF_vars(StartOver(s))
       /\ SF_vars(ConstructionMetadata(s)) /\ SF_vars(ConstructionSubmit(s)) /\ SF_vars(Confirm(s))
  /\ SF_vars(Execute) /\ SF_vars(Settle)

FairSpec == Spec /\ Fairness

-----------------------------------------------------------------------------
(* Properties *)

Amount == Int \cup {NoAmount, NotANumber}
Places == {"idle", "preprocess", "metadata", "payloads", "parse", "combine", "parseSigned",
           "submit", "failed", "sent"} \cup Over

TypeOK ==
  /\ pc \in [Sessions -> Places]
  /\ \A s \in Sessions :
       /\ pc[s] # "idle" => payment[s] \in PaymentsOf[s]
       /\ pc[s] = "metadata" => options[s].amount \in Amount
       /\ pc[s] = "payloads" => metadata[s].nonce \in Nat /\ metadata[s].amount \in Amount
       /\ suggested[s] \in Nat
       /\ error[s] \in {"none"} \cup DOMAIN CallOf
       /\ \A t \in signed[s] : t.nonce \in Nat /\ t.value \in Nat
  /\ settled \in 0 .. Len(chain)

\* What the node executes for a client is what the client wanted when it began, and only if its
\* sender signed it: whatever form the request had, with data that looks like a transfer of
\* something else, or with decimals the client got wrong, createOperationsFromPreparedTx does
\* not show as intended what is not.
ExecutedIsIntended ==
  \A s \in Sessions, i \in 1 .. Len(chain) :
    chain[i] \in signed[s] =>
      LET intent == payment[s].intent
      IN  Effect(chain[i]) = [ sender |-> intent.sender, receiver |-> intent.receiver,
                               amount |-> intent.amount, symbol |-> intent.currency.symbol ]

\* A transaction that is signed never waits for another one: the nonce that ConstructionMetadata
\* takes from the final block is not above that of the node's chain, whatever is rolled back.
NonceIsNeverAhead ==
  \A s \in Sessions : \A t \in signed[s] : t.nonce <= NonceAfter(t.sender, Len(chain))

\* However many answers of /construction/submit get lost, a payment is executed at most once:
\* since ErrUnableToSubmitTransaction is retriable, the client submits the same transaction
\* again, and constructs a new one only when the old one can no longer be executed.
ExecutedAtMostOnce ==
  \A s \in Sessions : Cardinality({i \in 1 .. Len(chain) : chain[i] \in signed[s]}) <= 1

\* No signed transaction is refused for its gas: computeFeeComponents estimates, or accepts from
\* the client, no less than the network wants, also for the data of a custom transfer.
GasSuffices ==
  \A s \in Sessions : \A t \in signed[s] : HasEnoughGas(t)

\* The fee that a payment costs after refunds is the suggested one, or less if the execution of a
\* custom transfer needs less than the configured gas (the client leaves the gas limit open).
SuggestedFeeIsEnough ==
  \A s \in Sessions :
    /\ tx[s] \in signed[s] /\ payment[s].gasLimit = 0
    => /\ Charged(tx[s]) <= suggested[s]
       /\ IsNative(payment[s].intent) => Charged(tx[s]) = suggested[s]

\* The client states a currency that is served, in a form that says all, and enough gas.
IsWellFormed(p) ==
  LET data == IF IsNative(p.intent) THEN p.data.length ELSE TransferDataLength
      gas == networkConfig.MinGasLimit + networkConfig.GasPerDataByte * data
             + (IF IsNative(p.intent) THEN 0 ELSE networkConfig.GasLimitCustomTransfer)
  IN  /\ p.intent.currency \in customCurrencies \cup {nativeCurrency}
      /\ p.form \in {"operations", "oneOperation", "metadata"}
      /\ p.data.kind \in (IF IsNative(p.intent) THEN {"none", "message"} ELSE {"none"})
      /\ p.gasLimit = 0 \/ p.gasLimit >= gas
      /\ p.gasPrice = 0 \/ p.gasPrice >= networkConfig.MinGasPrice

\* Every well-formed payment is made in the end, however many calls fail, blocks are rolled back
\* and transactions get lost, and whatever other clients of the account do or leave undone.
PaymentsSettle ==
  \A s \in Sessions :
    pc[s] = "preprocess" /\ IsWellFormed(payment[s]) ~> pc[s] \in {"done", "abandoned"}
=============================================================================
