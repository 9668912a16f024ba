# Rosetta middleware for MultiversX: TLA+ models and proofs

The middleware (`src/cmd`, `src/server`) answers Rosetta requests about one shard of the MultiversX
network. It keeps almost no state of its own: it asks an *observer*, a node of that shard, over
HTTP, and converts what the node says. What makes it hard is that

- the observer's chain moves, and rolls back, between the requests that make up one answer;
- effects of one transaction may be spread over two blocks (*scheduled miniblocks*), so that a block
  can only be served together with both of its neighbours;
- all HTTP handlers share a cache of blocks and a lazily fetched genesis block;
- a Rosetta client adds up the operations of all blocks and compares the sums with balances: every
  operation missing or counted twice is noticed, forever.

The modules here say what is promised to such a client, model the code that keeps the promise, check
it on small instances with TLC, and prove most of the safety part for all instances with TLAPS.

## 1. Inventory

| Component | State | Operations | Modelled by |
| --- | --- | --- | --- |
| Block provider (`provider/networkProvider.go`) | `blocksCache`, an LRU cache by nonce, shared by handlers | `GetBlockByNonce`, `GetBlockByHash` | `NetworkProvider` |
| Scheduled miniblocks (`provider/scheduledMiniblocks.go`) | none | `doSimplifyBlockWithScheduledTransactions` | `ScheduledMiniblocks`, `ContractResults` |
| Node status (`provider/nodeStatus.go`) | two flags | `GetNodeStatus`, `getLatestBlockNonce` | `NodeStatus`, `FinalityMargin` |
| Genesis block (`services/blockService.go`) | `genesisBlock` under an `RWMutex` | `getGenesisBlock` | `GenesisBlock` |
| Block service (`services/blockService.go`) | none else | `Block`, `BlockTransaction` | `SyncingClient`, `RosettaServer` |
| Transactions transformer (`services/transactionsTransformer.go`, `transactionEventsController.go`, filters, operations) | none | `transformBlockTxs`, `mempoolMoveBalanceTxToRosettaTx` | `TransactionsTransformer` |
| Process and routing (`cmd/rosetta`, `server/factory`, `services/errors.go`, `offline_services.go`) | the provider's configuration | start, interrupt, exit; online and offline services; errors | `RosettaServer` |
| Network service (`services/networkService.go`) | none | `NetworkList`, `NetworkStatus`, `NetworkOptions` | `RosettaServer`, `NodeStatus` |
| Construction service (`services/constructionService*.go`, `common.go`) | none; state passes through the client | derive, preprocess, metadata, payloads, parse, combine, hash, submit | `ConstructionService`, `Construction` |
| Account service (`services/accountService.go`, `provider/accounts.go`, `converters.go`) | none | `AccountBalance`, the nonce of an account | `SyncingClient`, `AccountBalance`, `Construction` |
| Mempool service (`services/mempoolService.go`) | none | `MempoolTransaction` | `PaymentShown`, `RosettaServer` |
| Provider extension (`services/networkProviderExtension.go`) | none | contract address, amounts and currencies, genesis identifier | the modules that use them |
| Currencies and token identifiers (`provider/currenciesProvider.go`, `tokenIdentifierParts.go`) | immutable | look up a currency, parse a token identifier | `AccountBalance`, `TransactionsTransformer` |
| URLs, resources, logging, pprof, configuration files | immutable | formatting | not modelled |
| System tests, mocks | | | read for what node and protocol do |

**How they interact.** A request reaches a service of `services/` through the routers that
`factory/controllers.go` builds: the real services online, `offline_services.go` for accounts,
blocks and the mempool when offline. `blockService` takes block 0 from the genesis block and any
other block from the block provider, which obtains it and its neighbours (cache or observer) and has
`scheduledMiniblocks.go` simplify it in place; `transactionsTransformer` turns the result into
operations. `networkService` reports the latest block by the same bound on nonces
(`getLatestNonceGivenHighestFinalNonce`) that the provider applies to block requests. The calls of
`constructionService` are connected by what the client carries from one to the next (options,
metadata, the transaction), each time through JSON; only metadata (the nonce of an account) and
submit involve the observer. Handlers share
the cache and the genesis block, and nothing else; there are no messages between components, and
nothing is persisted.

**What is hard, and what must hold.** All hazards are in `PROJECT.json`, each at its line. The main
ones:

- *Finality of neighbours.* Serving block N caches block N+1. If that one can still be rolled back,
  later answers are wrong, and stay so while it is cached. `CacheIsSettled`, `NeighboursAreFinal`.
- *Mixed sources.* Self, previous and next block of an answer are obtained at different times. They
  must be of one branch, and answers must fit together. `AnswersAreConsistent`, `ImplementsLedger`.
- *Aliasing.* Cached objects must not be changed by what is done to an answer.
  `CachedBlocksNeverChange`, `ObjectsAreStampedForOneBlock`.
- *Selection of effective transactions.* `EffectiveAreExecuted`, `ResultsAreComplete`.
- *Value accounting* over eras (Sirius, Spica), failures, relayed and invalid transactions:
  `Reconciled`; and one bad transaction must not take the block down: `BlockIsServed`,
  `BlockIsAcceptable`.
- *Double-checked locking.* `NoDataRace`, `FetchedAtMostOnce`, `OneGenesisBlock`, `CallsReturn`.
- *A status from four requests* with rollbacks, epoch changes and pruning: `StatusBlocksAreFinal`,
  `HistoryIsNotEmpty`, `HistoryIsInDatabase`.
- *Errors, flags and offline mode.* A fault that will not go away must not be answered with a
  retriable error, and offline mode, which is looked at in four layers, must not pass for a failure
  of the observer: `RequestsSettle`, `OfflineAnswersAreFinal`, `OfflineRequestsAreAnswered`,
  `GenesisHasItsTimestamp`.
- *Payments.* A nonce that is taken from the final block is used by another transaction meanwhile;
  the node takes a transaction and its answer is lost; a rollback takes one back: `NonceIsNeverAhead`,
  `ExecutedAtMostOnce`, `PaymentsSettle`. What `/parse` shows is what is executed, and what the
  mempool and the block show later: `ExecutedIsIntended`, `PaymentIsShown`. Gas and fees, rounded by
  JSON numbers: `GasSuffices`, `SuggestedFeeIsEnough`.
- *What a syncing client builds* from statuses, blocks and balances, asked for at different times,
  over rollbacks, restarts and reads of others: `ClientIsOnLedger`, `ClientNeverReorganises`,
  `BalancesFitTheChain`, `CatchesUp`.

## 2. Modules

```
  BlockLedger  <--implements--  NetworkProvider  <--implements--  SyncingClient
                                 |         |
                             Observer  FinalityMargin
                                 |         |
                                 NodeStatus

  GenesisBlock                                  RosettaServer

  ScheduledMiniblocks <-- ScheduledChain <-- MCScheduledChain --> ContractResults
  TransactionsTransformer <-- BlockExecution <-- MCBlockExecution
             ^                      |
             |                      +--> AccountBalance
             +-- PaymentShown --> Construction --> ConstructionService
                      ^
                MCConstruction
```

Theorems are in `NetworkProviderProofs`, `SyncingClientProofs`, `NodeStatusProofs`,
`GenesisBlockProofs`, `ScheduledChainProofs`, `BlockExecutionProofs`, `ConstructionProofs` and
`RosettaServerProofs`, each about the module it is named after (`ConstructionProofs` about
PaymentShown, too).

**Observer** (external). The node's chain of one shard as a function from nonces to blocks, where
`id` and `prev` stand for hashes. Blocks are produced, rolled back down to `settled` and settled,
one at a time. A status carries any `HighestFinalNonce` from 0 (a node that starts up) to `settled +
OverReport`: `nodeStatus.go` is written against "rollback-related edge cases while node is syncing",
and `OverReport` says how far such a node may be wrong.

**FinalityMargin** is `getLatestNonceGivenHighestFinalNonce`: the highest final nonce less
`nonceDelta`, if any.

**NetworkProvider** is the block provider with any number of handlers. A step is what the code does
between two waits: `AcceptNonce`/`RejectNonce` when the status arrives, `CacheHit`/`CacheMiss`,
`ObserverAnswers`, `CacheResponse` (which puts the response in the cache whatever happened since),
`CallFails` at each request, `Simplify` at the end. `Restart` empties cache and calls.
`AnswerByHash` is `doGetBlockByHash`, without bound and without cache. The LRU order is abstracted
to "any other entry is evicted". `answers` is a history variable. An answer is the triple of blocks
it is computed from; what is computed is in ScheduledMiniblocks.

**BlockLedger** is the promise: one append-only ledger, and each answer for block *n* is made of the
blocks *n-1*, *n*, *n+1* of it. NetworkProvider implements it with the settled part of the
observer's chain as ledger.

**GenesisBlock** is `getGenesisBlock` with the `RWMutex` taken apart into what the code relies on: a
writer announces itself, waits for readers to leave and keeps new ones out; an unlock admits those
before the next writer. Reads and writes of `genesisBlock` are steps of their own, so that the mutex
has to keep them apart.

**ScheduledMiniblocks** translates `scheduledMiniblocks.go`. The recursion over contract results,
`findImmediatelyExecutingContractResultsOfTransaction`, is a constant operator of it and is defined
in **ContractResults**, since nothing can be proved about modules with recursive operators; the run
puts the one in the place of the other. **ScheduledChain** (external)
produces the chains that the protocol may produce around scheduled transactions, together with what
was really executed; the two are compared on every block that can be served. `StampedObjects` follows the transaction pointers of cached blocks through
`createBlockCopy` and simplification, to `transformBlockTxs`, which writes `BlockNonce` into them.

**TransactionsTransformer** translates `transformBlockTxs` with all filters, transaction types and
event kinds. An address is the record of what the code computes from it (shard, whether it is a
contract's, last byte). `mempoolMoveBalanceTxToRosettaTx` is the conversion of a pending
transaction. Filters are written with `Select`, not with `SelectSeq` of the standard module, whose
recursion the provers cannot unfold. **BlockExecution** (external) executes up to `MaxExecutions`
operations of the protocol in a block, with their balance changes, and shows them the way the node's
API does, by the cases that comments and test data of `server/services` tell apart. Values, fees and
tokens are constants. The assumptions on constants say what names stand for: accounts are different,
each in its shard, two of them are contracts (`AccountAssumption`); amounts are natural numbers
(`AmountAssumption`); the identifier of a token has two parts, the symbol of the native currency has
one, and no token that can be minted has the identifier that native value has among tokens
(`CurrencyAssumption`); the block is one of the observed shard (`BlockAssumption`).

**AccountBalance** is `GetAccountBalance` up to its request: which balance is asked for by the
currency of an operation. A symbol is the sequence of its parts between dashes; the last part of the
symbol of a token with a nonce is that nonce in hexadecimal, which `ExtendedIdentifier` writes and
`ParseNonce` reads. `Reconciled` goes through it: the operations of a block must explain the change
of the very balance that a client is answered with when it asks for their currency.

**NodeStatus** is `GetNodeStatus`: `StatusArrives`, `LatestBlockArrives`, `EpochStartArrives`,
`OldestBlockArrives`, any of which may be `CallFails`. `getOldestEligibleEpoch` works on the current
epoch of the first response and on the flags. `PruneAndRestart` is the operator's procedure of the
repository's README ("Storage Pruning").

**RosettaServer** is the process: which service an endpoint gets, which error it answers, which
errors are retriable, what an interrupt does to pending requests, and which flags reach the
provider. Offline mode is looked at in four layers, each for endpoints of its own: the controllers
(`ServiceOf`), services (`ServiceChecks`), functions of the provider (`ProviderChecks`) and its
`getResource` (`ResourceChecks`); which one a request meets first decides what it is answered with (`StoppedOffline`, `OfflineAnswer`). A request is of
one of four kinds: the observer can serve it; the service finds it malformed; its gas is too little;
or it is *hopeless*, that is, never served, though the middleware does not know (a hash of no block,
an identifier that does not parse, a transaction that is executed or dead). A served one may become
hopeless (`Lapse`, external). A process whose `ListenAndServe` fails is `deaf`: it takes no request
and waits for an interrupt.

**ConstructionService** is what the construction endpoints compute, as operators, since the service
keeps no state: the options that preprocess makes of a request, their checks, the fee, the metadata,
the transaction, what `/parse` reads back from one, and the errors each of them gives. Amounts are
integers, an empty text or another text, as signs and texts that are no numbers are treated
differently by `getMagnitudeOfAmount`, `amountToHex` and the final check; the data of a transaction
is what `/parse` sees in it. `JsonNumber` rounds as float64 does. **Construction** has any number of
sessions, each a client with one payment, with an action for each call and each way it fails; the
client (external) compares `/parse` with its intent, repeats what is retriable, looks for its
transaction by hash, and starts over once its nonce is used for good. The node (external) executes,
rolls back, settles, and forgets pending transactions. **PaymentShown** shows the transaction of a
session to the transformer, as pending and as executed, and compares the operations with those of
`/parse`.

**SyncingClient** composes NetworkProvider with what is above it: `doGetBlock` (`RouteOf`: index
before hash, genesis by either), the link of block 1 to the configured genesis
(`ParentIdentifier`), `/network/status`, whose two requests are two steps, and the block that a
balance is asked for at (`AccountQueryOptions`). One handler serves a client that appends block after
block and drops its last one when the next has another parent; the others serve clients that read
blocks by hash which have been reported.

`MC*` modules hold values of constants and symmetry only. Definitions commented as "Variation" are
plausible mistakes in a definition of the code; they are used to see that each property notices one.

## 3. Runs

| Run | Module | Expected | Properties |
| --- | --- | --- | --- |
| `provider_by_nonce` | MCNetworkProvider | pass | TypeOK, CacheIsSettled, NeighboursAreFinal, AnswersAreConsistent, CachedBlocksNeverChange, ImplementsLedger |
| `provider_by_hash` | MCNetworkProvider | pass | CachedUnderOwnNonce, CallsReturn |
| `provider_by_hash_finality` | MCNetworkProvider | violation | NeighboursAreFinal |
| `genesis_block` | GenesisBlock | pass | TypeOK, NoDataRace, FetchedAtMostOnce, OneGenesisBlock, CallsReturn |
| `scheduled_chain` | MCScheduledChain | pass | EffectiveAreExecuted, ResultsAreComplete, ObjectsAreStampedForOneBlock |
| `block_reconciliation` | MCBlockExecution | pass | BlockIsServed, Reconciled, BlockIsAcceptable |
| `construction` | MCConstruction | pass | TypeOK, ExecutedIsIntended, NonceIsNeverAhead, ExecutedAtMostOnce, GasSuffices, SuggestedFeeIsEnough, PaymentIsShown, PaymentsSettle |
| `syncing_client` | MCSyncingClient | pass | SyncTypeOK, ClientIsOnLedger, BalancesFitTheChain, NeighboursAreFinal, ClientNeverReorganises, CatchesUp |
| `node_status` | NodeStatus | pass | TypeOK, StatusBlocksAreFinal, HistoryIsNotEmpty, HistoryIsInDatabase |
| `server_settles` | RosettaServer | pass | TypeOK, OfflineAnswersAreFinal, RequestsSettle |
| `server_offline` | RosettaServer | violation | OfflineRequestsAreAnswered |
| `server_genesis_timestamp` | RosettaServer | violation | GenesisHasItsTimestamp |

To repeat one: `tlc -workers 2 -config provider_by_nonce.cfg MCNetworkProvider`; the `.cfg` has the
name of the run.

### Bounds, and why they are enough

- `provider_by_nonce`: nonces up to 3, of which block 1 can be served (a reported final nonce of 3
  gives a latest nonce of 1) with neighbours 0 and 2; 5 blocks, so that one or two nonces get a
  second block after rollbacks; a cache of 2 entries for 3 blocks, so that serving one block evicts
  part of it; 2 handlers, as handlers interact in pairs, through cache entries; over-reporting of 1,
  the most that the margin covers: `n + 1 <= settled` follows from `n + 2 <= settled + OverReport`
  only if `OverReport < 2`. The proofs below remove these bounds. Handlers are symmetric; no
  liveness is checked under symmetry.
- `provider_by_hash`: 3 blocks only; liveness is about calls, and rollbacks of 3 blocks are enough
  to take any block away from a pending one.
- `genesis_block`: 4 callers: a writer, a reader that it stops, a second writer waiting, and one
  more. `fetches` needs no bound: at most one succeeds.
- `scheduled_chain`: chains of 5 blocks. A block depends on its two neighbours, so every window of
  three blocks, with anything scheduled in the block before it, occurs. The pool has a call with
  nested results and a callback from another shard that has a result of its own, a call with two
  results, and a plain transfer; any of them may be scheduled, and turn out invalid.
- `block_reconciliation`: blocks of 2 executions, as the filters relate transactions in pairs; a
  bounded block is complete at the end, hence `CHECK_DEADLOCK FALSE`. The amounts differ from each
  other, so that none is taken for another one. The proofs below remove these bounds, except that an
  execution is of one of the kinds of BlockExecution. Three epochs are the eras
  before Sirius, of Sirius and of Spica; three configurations are an unrestricted one, one with a
  projected shard, and one with a projected shard and without contracts. The token with a nonce has
  nonce 266, that is 0x010a: two bytes, each with a zero among its digits.
- `node_status`: epochs of 2 blocks and 11 nonces are 6 epochs, which is enough for two prunings.
  `MaxLag` bounds how far finality, and what is reported of it, trail the head. `HistoryIsNotEmpty`
  needs `(numHistoricalEpochs - 1) * EpochLength >= 2 * MaxLag + nonceDelta`, and the run is at that
  limit exactly. Just below it, a status requested right after pruning, when the head has fallen
  back into the previous epoch, offers a history that begins after the latest block. Real epochs are
  far longer than any rollback.
- `construction`: two sessions of one account, since sessions meet only in the account's nonce and
  in the node's pool. One of them makes any of the payments of MCConstruction: every form of request
  with every currency (native, custom, custom with wrong decimals, not enabled), all kinds of data,
  and gas limits and prices on both sides of each bound; the other one a plain payment. Numbers of
  gas are scaled down, and `MaxExact` (2^53 in the code) is 16, so that limits and prices of 17 and
  27 are rounded on their way, while real ones hardly are. The chain needs no bound: of each session
  at most one transaction is executed. Sessions end, hence `CHECK_DEADLOCK FALSE`.
- `syncing_client`: nonces up to 4, so that blocks 1 and 2 can be served and the link between them
  and the one to genesis both occur (with fewer nonces only block 1 is served); 4 blocks beside
  genesis, so that both can be served after a block was rolled back; a cache of 2, over-reporting of
  1, and a second handler that reads by hash. A bounded chain is complete at the end, hence
  `CHECK_DEADLOCK FALSE`.
- `server_settles`: one client, since requests share nothing but the process; all flags, endpoints,
  kinds of requests and errors.

### Fairness

- A call of NetworkProvider and of GenesisBlock: weak fairness of its own steps. Goroutines that are
  ready run, and a request to the observer ends by `requestTimeoutInSeconds` at the latest. Nothing
  is assumed of the observer, of the clients, nor of *how* a request ends.
- Strong fairness of `Announce` (a writer enters `sync.RWMutex`): Go's `sync.Mutex` hands itself to
  a goroutine that waited for more than 1 ms, so a writer is not passed over forever, though the
  mutex is not free all the time.
- `RequestsSettle`: strong fairness of `ObserverDelivers`, as a client that retries needs an
  observer that answers some time. It is disabled for hopeless requests, of which the property
  promises nothing, and in offline mode, where it says, with no help of fairness, that requests end.
- `PaymentsSettle`: clients go on (weak fairness of `SessionStep` and `StartOver`); a call that is
  made again and again succeeds some time (strong fairness of metadata and submit, and of `Confirm`,
  as the observer answers some time); the node executes what it can and settles however often it
  rolls back (strong fairness of `Execute` and `Settle`). Nothing is assumed of other sessions: they
  may abandon a payment at any place.
- `CatchesUp`: calls as in NetworkProvider; strong fairness of `SyncNextBlock`, as a status that lags
  takes the tip back for a while. The property itself has a premise, `TroubleEnds`: restarts and
  failed requests end, and of the final nonces that the observer reports, some are up to date, both
  when the client asks for the status and when `GetBlockByNonce` does. Under trouble that never ends
  there is nothing to promise: each call for a block needs up to seven requests that all succeed.

### Findings

1. `provider_by_hash_finality`: `GetBlockByHash` has no bound on the nonce and caches the neighbours
   it fetches. For example, block 2 is cached as the neighbour of block 1, which is asked for by
   hash; block 2 is rolled back, replaced and finalised; and `GetBlockByNonce(1)` still uses the old
   one from the cache. A comment at `nodeStatus.go:73` wants block N+1 to be final. It
   does not happen as long as no client asks for the hash of a block above the one that
   `/network/status` reports, but the cache is shared: one that does affects all others.
2. `server_offline`: `NewOfflineService` leaves `errFactory` nil, so account, block and mempool
   endpoints panic instead of answering `ErrOfflineMode`. `net/http` recovers: the process survives,
   the request gets no response.
3. `server_genesis_timestamp`: `main.go:63-88` does not pass `--genesis-timestamp` on; the genesis
   block is served with timestamp 0.

Smaller observations. `networkProvider.go:277` says of transactions of cached blocks "We don't
mutate the transactions themselves", but `transactionsTransformer.go:39` writes `BlockNonce` into
them. `ObjectsAreStampedForOneBlock` is why it does no harm: an object is part of one served block
only, so that it is written with one value, by however many handlers. (Without a lock it is a data
race in the sense of Go's memory model all the same.) `retriable` of `ErrCannotParsePoolTransaction`
is false though its cause may be a failed request; nothing in the repository says what it should be.

On retriable errors. Some failures are permanent and answered with an error that is declared
retriable: a malformed block hash, or the identifier of a token that does not parse
(`ErrUnableToGetAccount`, `accountService.go:52-55` and `:80-83`), a hash of no block
(`ErrUnableToGetBlock`), a transaction that was executed (`ErrTransactionIsNotInPool`) or whose nonce
was used (`ErrUnableToSubmitTransaction`). A client that only does what `retriable` says asks
forever. In RosettaServer these are the hopeless requests, which `RequestsSettle` excepts; it is about
all others. What `retriable = true` should promise is not said in the repository, so that this is
noted here and not a finding.

On payments. A client that submits what was executed, or is dead, is such a one; `Confirm` and
`StartOver`, which look at the chain, are what ends it in Construction. A currency
that is not enabled passes `/construction/parse` if its decimals are stated as 0, the value the
service falls back to, but `/block` does not show its transfers (`PaymentIsShown` is about enabled
ones). A native payment whose own data begins with `ESDTTransfer` is shown as the transfer of that
token, and so is not signed; only data that names a token like the native currency could deceive a
client (`DataNamesTokens` below excludes it: a token identifier has a suffix that no native currency
has). `gas-limit-custom-transfer` is declared as a `Float64Flag` and read with `GlobalUint64`
(`cli.go:283`), which parses the text of the number: from a million on it has an exponent, and the
flag becomes 0. The conversion is in a library; the model takes what comes out.

## 4. Proofs

`tlapm NetworkProviderProofs.tla`, and likewise for the seven other `*Proofs` modules, checks them, for
every value of the constants. Further assumptions are hypotheses of the theorems, named where they are
defined.

**NetworkProviderProofs.** Assumed of the constants: `ObserverAssumption` and `ProviderAssumption`,
which say only that they are numbers, a capacity of at least 1, and that `NoBlock` is no block.

- Part 1, without further assumption, by-hash queries included. The inductive invariant `Inv1` is
  `TypeOK`, `ChainInv` (the observer's chain is complete and linked below its head), `CallInv` of
  every handler (what a call has obtained when it is at a given slot) and `CachedUnderOwnNonce`.
  `CallInv` is needed for types already: the nonce of a neighbour is computed from `got[h].self`,
  which must be a block above genesis. Theorems `TypeCorrectness`, `CacheKeysAreNonces`.
- Part 2 assumes `MarginSuffices`, that is `OverReport < nonceDelta` (with over-reporting of 2 the
  margin is used up). `Inv2` adds that whatever a call asks for, obtained or holds in `fetched`, and
  what is cached or answered, is settled and equal to the observer's chain there: `CacheIsSettled`
  alone is not inductive, since a response is cached some time after it was asked for. It is
  preserved by any step that is no answer by hash, or one with a settled next block
  (`AnswerIsSettled`), which is what SyncingClientProofs uses. The theorems `CacheFinality`,
  `NeighbourFinality`, `AnswerConsistency`, `CacheStability` (an action property) and
  `LedgerRefinement` (`Spec => Ledger!Spec`: initial states map to initial states, `SettleBlock` to
  `Extend`, `Simplify` to `Serve`, all else stutters) are for `ServeByHash = FALSE`; finding 1 shows
  that this is needed when anyone may ask for any hash.

**SyncingClientProofs.** `ImplementsProvider`: every behaviour with a syncing client is one of
NetworkProvider (`SyncSpec => Spec`), so that Part 1 applies. All else assumes `MarginSuffices`
only: `ServeByHash` may be true. The argument: what `/network/status` reports, and the client's
chain, is settled *with its next block* (`ClientInv`), since the reported nonce is `nonceDelta` below
a final one; so an answer by hash for a reported block is settled in the sense of Part 2, and `Inv2`
holds without the restriction to nonces (`FinalityWithReadsByHash`). With it, the block that arrives
for the client is on the settled chain, and its parent is the client's last block (`OnLedger`,
`NoReorganisation`, an action property). `Balances` needs `IdsInv` as well: ids increase along the
chain, so that a hash is the hash of one block.

**GenesisBlockProofs.** Only `NoOne \notin Callers` is assumed. The inductive invariant `IInv` is
`TypeOK`, `LockInv` (who may be where, given `readers` and `writer`) and `FetchInv` (what is known
of `genesisBlock`, `fetches` and the callers' locals at each place). `FetchedAtMostOnce` is not
inductive alone: it rests on the second check finding the stored block, which rests on exclusion.
Theorems `TypeCorrectness`, `RaceFreedom`, `SingleFetch`, `GenesisAgreement`.

**ScheduledChainProofs.** Assumed: `PoolAssumption` (a hash has one transaction; no transaction is,
directly or not, its own result) and `RecursionUnfolds`, the equation by which
`ImmediatelyExecutingResults` of ContractResults is defined. The recursion is shown to find what it
should by well-founded induction in the form that `PoolAssumption` gives: of the transactions for
which it does not, one has only results for which it does (`RecursionIsSound`,
`RecursionIsComplete`). `ResultsOf` is a least closed set, hence disjoint for transactions that are
not results of each other (`ResultsAreDisjoint`), so that nothing is removed by term (b) or (c) of
`gatherEffectiveTransactions` which belongs to the block. The inductive invariant adds to the
properties that whatever was executed comes with its cause (`DoneInv`), whatever is shown was
executed (`ShownInv`), and what the last block executed is its own part together with the results
that the next one will show (`ScheduledInv`). Theorems `ServedAreExecuted`,
`RecursionFindsTheResults`; and `ObjectsHaveOneBlock`: objects of block N+1 that are stamped for
block N are just those that term (c) removes from block N+1.

**NodeStatusProofs.** `TypeCorrectness` has no further assumption. The rest assumes
`EpochsAreLongEnough`, the condition on `HistoryIsNotEmpty` above, which the run meets exactly.
`CallInv` says what is known of the epochs and nonces that a call holds between its four requests,
`FlagInv` that the flag follows the pruned database. Theorems `StatusFinality`,
`HistoryBeforeLatest`, `HistoryIsKept`.

**ConstructionProofs.** The inductive invariant relates each session's carried state to what it
began with, signed transactions to their sessions, and the chain to its nonces: those of one account
are 0, 1, 2, ... along the chain, without gaps, and a transaction that a session gave up stays dead,
because its nonce was used in the settled part. `AtMostOnce` needs no further assumption: two
executed transactions of one session have different nonces, and the later one was constructed when
the earlier one could no longer be executed. `NeverAhead` assumes that nonces are exact in JSON
(`Len(chain) <= MaxExact`); `IntendedIsExecuted`, `EnoughGas`, `SuggestedFee` and `TypeCorrectness`
assume `DataNamesTokens`; `EnoughGas` also `GasIsExact`, the estimate being below 2^53, while a
limit that the client states may be rounded; `SuggestedFee` that the least gas price is exact.

`PaymentShownAsParsed` assumes, beside `DataNamesTokens`, that both accounts of a payment are in the
observed shard (`WithinShard`: the provider that PaymentShown is about shows no others) and that the
identifier which events use for native value is not configured as a custom currency
(`NativeIsNotCustom`: `extractOperationsFromEventESDT` shows it as native before it looks at custom
currencies). The instance of the run meets them. What the client accepts of `/construction/parse`
fixes sender, receiver, value and data of what it signs (`IntendedFields`). Of such a transaction,
`normalTxToRosetta` and the events make three operations, the fee after or before the movement;
these are followed through the filters and the default status to what `/block` answers
(`OwnOperations`, `EventOperationsOfOne`, `FilteredOperations`, `ServedAlone`).

**BlockExecutionProofs.** `SpecBlockIsServed`, `SpecReconciled` and `SpecBlockIsAcceptable` hold for
any number of executions, in any order, and for all values, fees, tokens, nonces, epochs and
configurations that meet the four assumptions on the constants; nothing else is assumed. The
argument has three parts.

- What the operations of a block sum up to is the sum of what each transaction and receipt that is
  kept says. All that `transformBlockTxs` consists of (filters, the conversion of each type of
  transaction, events, fees) is shown to neither lose nor double a value:
  `Select`, `FlattenSeq` and sums are shown to respect concatenation, and a transaction to say
  something only about the accounts and balances it names. `NonceRoundTrip` (hexadecimal nonces,
  byte by byte, with their zeros) and `AskedBalanceOfToken` lead from the currency of an operation
  to the balance asked for, by any account request.
- The two filters that look at other transactions of the block do so by hash (`HashesOfInvalid`).
  `Reconciled` is not inductive: nothing in it keeps the hash of a new transaction from being that of
  an invalid one of before. `IInv` adds that the hashes of each execution are its own
  (`HashesBetween`), that among what is kept no hash occurs twice (`Distinct`), that all transactions
  and events are ones the transformer can read (`ApiTransactions`), and asks that changes are
  explained for *every* account of the shard, whatever a projected shard or the configuration lets
  through. Then a block splits: what is made of the transactions so far and the new ones together is
  what is made of each (`NextExecution`).
- For each action, what is made of its transactions and receipts alone is what it changed. These
  proofs are case analyses over eras, shards, kinds of failures, the features that are detected, and
  events.

Induction over data (the length of a sequence, the bytes of a nonce) is done here without the
library's induction theorems: the set of the lengths, or numbers, for which a claim fails has a least
element (`WFMin` of WellFoundedInduction, with the order of the natural numbers), which is refuted.

**RosettaServerProofs.** `TypeCorrectness` (every failure has an error that is declared) and
`OfflineFinality`, from the invariant that the provider is the one of the flags, that requests are
pending only while the process runs, and that only those are at the observer which need it, and of a
process that is online. That last part is not the guard of one action: every endpoint that needs the
observer has some check of its own on the way (`StoppedSomewhere`), and every endpoint that is not
served by the offline service meets one of a service first (`OfflineAnswerIsFinal`).

**Model-checked only.** Liveness (`CallsReturn`, `RequestsSettle`, `PaymentsSettle`, `CatchesUp`) is
out of TLAPS's reach; every invariant and action property of the runs has a theorem. Nothing is
proved of `ImmediatelyExecutingResults` itself, which is recursive; that it satisfies
`RecursionUnfolds` is its definition.

## 5. What is left out, and why

- *Block provider*: the LRU order; offline mode (an error before anything else; see RosettaServer);
  `createBlockCopy` beyond which objects it copies.
- *Genesis*: `createGenesisOperations`, a list of balances filtered by address.
- *Scheduled miniblocks*: lists of transactions are sets. Where a block has several transactions
  with one hash, the code keeps them all if nothing is scheduled, and the last one otherwise; the
  properties go by hash.
- *Transformer*: transaction metadata, the text of event data and topics; amounts are numbers, so
  that `""` and `"0"` are the same (`isZeroAmount` tells `"-"` from both, and a node states every
  amount); in BlockExecution, claiming developer rewards of a contract in another shard, and
  receipts other than gas refunds. `CannotRecognizeEvent` has all reasons for which an event is not
  recognised, but BlockExecution produces events with the expected numbers of topics only.
- *Node status*: `parsePeersCounts`, which formats. An error field in the body of a successful
  response, which `getBlockSummaryByNonce` does not read, is excluded by assumption.
- *Construction*: `/construction/derive` (it converts a public key), version and chain ID (constants
  of the service), and the text of data and addresses. `executionGasPrice` is exact, where the code
  multiplies in float64, and the node of Construction uses the same operator: that both round alike
  is assumed. Of texts that are no numbers, those that `strings.Trim` would make one (`"--5"`) are
  not considered, as preprocess trims operation values only. `/construction/hash` is the identity of
  transactions. That two different transactions have different hashes is assumed.
- *Accounts*: the value of a balance is the observer's and passed on.
- *Process*: `CreateNetworkProvider`'s construction of libraries, logging, pprof.
- *Currencies*: how the table of them is filled from its file. Their decimals are part of
  ConstructionService only; operations and balances look them up by the same symbol.
- *URLs, resources, configuration files*: formatting, data types.

## 6. What could follow

- The balances of genesis together with the operations of all later blocks, as one sum that a client
  compares with a balance; now `Reconciled` is about one block.
- Payments between shards, of which each shard's provider shows a part: `PaymentIsShown` is about
  payments inside one.
- The parts of section 5 that are formats or libraries need another tool than TLA+.
