--------------------------- MODULE NetworkProvider ---------------------------
(***************************************************************************)
(* The block-serving core of server/provider/networkProvider.go: how       *)
(* GetBlockByNonce and GetBlockByHash obtain a block and its two           *)
(* neighbours, through an LRU cache shared by all HTTP handlers, from an   *)
(* observer whose chain moves meanwhile.                                   *)
(*                                                                         *)
(* Each handler (goroutine of the HTTP server) serves one call at a time;  *)
(* a step is what the code does between two points where it waits (a       *)
(* request to the observer, an access to the cache).  The effect of        *)
(* "simplifying" a block with its neighbours is in ScheduledMiniblocks;    *)
(* here an answer is the triple of blocks it is computed from.             *)
(*                                                                         *)
(* A nonce of 0 never reaches these functions: blockService.doGetBlock     *)
(* answers it from the genesis block (GenesisBlock).  Offline mode returns *)
(* errIsOffline before anything else and is left out.                      *)
(***************************************************************************)
EXTENDS Observer, FinalityMargin, FiniteSets

CONSTANTS
  Handlers,        \* the goroutines that serve block calls
  CacheCapacity,   \* blocksCacheCapacity
  ServeByHash      \* whether clients also query by hash

ASSUME ProviderAssumption ==
  /\ CacheCapacity \in Nat \ {0}
  /\ ServeByHash \in BOOLEAN

VARIABLES
  cache,      \* blocksCache: the cached block of each nonce, or NoBlock
  mutated,    \* nonces whose cached block object was simplified in place
  pc,         \* what each handler is about to do
  call,       \* the function it is in: "byNonce" or "byHash"
  nonce,      \* the nonce asked for
  slot,       \* which of the three blocks it is obtaining
  got,        \* the blocks obtained so far
  aliased,    \* whether got[h].self is the cache's own object
  fetched,    \* the observer's response, before it is cached
  answers     \* history: the successful answers of GetBlockByNonce

cacheVars == <<cache, mutated>>
handlerVars == <<pc, call, nonce, slot, got, aliased, fetched>>
vars == <<observerVars, cacheVars, handlerVars, answers>>

Slots == {"self", "prev", "next"}
Nothing == [s \in Slots |-> NoBlock]
Answer == [self : Block, prev : Block, next : Block]

\* pc values at which the handler waits for an HTTP response of the observer.
AtObserver == {"status", "byHash", "ask"}

TypeOK ==
  /\ ObserverTypeOK
  /\ cache \in [Nonces -> Block \cup {NoBlock}]
  /\ mutated \subseteq Nonces
  /\ pc \in [Handlers -> AtObserver \cup {"idle", "lookup", "put", "simplify"}]
  /\ call \in [Handlers -> {"byNonce", "byHash"}]
  /\ nonce \in [Handlers -> Nonces]
  /\ slot \in [Handlers -> Slots]
  /\ got \in [Handlers -> [Slots -> Block \cup {NoBlock}]]
  /\ aliased \in [Handlers -> BOOLEAN]
  /\ fetched \in [Handlers -> Block \cup {NoBlock}]
  /\ answers \subseteq Answer

CacheInit ==
  /\ cache = [n \in Nonces |-> NoBlock]
  /\ mutated = {}

HandlersInit ==
  /\ pc = [h \in Handlers |-> "idle"]
  /\ call = [h \in Handlers |-> "byNonce"]
  /\ nonce = [h \in Handlers |-> 0]
  /\ slot = [h \in Handlers |-> "self"]
  /\ got = [h \in Handlers |-> Nothing]
  /\ aliased = [h \in Handlers |-> FALSE]
  /\ fetched = [h \in Handlers |-> NoBlock]

Init ==
  /\ ObserverInit
  /\ CacheInit
  /\ HandlersInit
  /\ answers = {}

-----------------------------------------------------------------------------
\* The nonce of the block being obtained: the one asked for, or a neighbour's.
WantedNonce(h) ==
  CASE slot[h] = "self" -> nonce[h]
    [] slot[h] = "prev" -> got[h]["self"].nonce - 1
    [] slot[h] = "next" -> got[h]["self"].nonce + 1

\* simplifyBlockWithScheduledTransactions: the previous block, then the next one.
NextSlot(s) == IF s = "self" THEN "prev" ELSE IF s = "prev" THEN "next" ELSE "self"

CachedNonces == {n \in Nonces : cache[n] # NoBlock}
IsCached(n) == n \in CachedNonces

\* lrucache.Put.  The library evicts the least recently used entry when full;
\* which entry that is does not matter here, any victim is allowed.
PutInCache(n, b) ==
  \/ /\ IsCached(n) \/ Cardinality(CachedNonces) < CacheCapacity
     /\ cache' = [cache EXCEPT ![n] = b]
     /\ mutated' = mutated \ {n}
  \/ /\ ~IsCached(n)
     /\ Cardinality(CachedNonces) >= CacheCapacity
     /\ \E victim \in CachedNonces :
          /\ cache' = [cache EXCEPT ![n] = b, ![victim] = NoBlock]
          /\ mutated' = mutated \ {n, victim}

\* Variation: doGetBlockByNonce returns the cached object itself.
CopyIsTheCachedObject == TRUE

\* createBlockCopy: the caller gets an object of its own, not the cache's.
CopyIsAliased == FALSE

\* Variation: the call does not wait for the next block.
ObtainWithoutNext(h, b) ==
  /\ got' = [got EXCEPT ![h][slot[h]] = b]
  /\ aliased' = [aliased EXCEPT ![h] = IF slot[h] = "self" THEN CopyIsAliased ELSE @]
  /\ slot' = [slot EXCEPT ![h] = NextSlot(slot[h])]
  /\ pc' = [pc EXCEPT ![h] = IF slot[h] = "prev" THEN "simplify" ELSE "lookup"]

\* doGetBlockByNonce returns a copy of b; simplifyBlockWithScheduledTransactions
\* goes on with the previous block, then with the next one.
Obtain(h, b) ==
  /\ got' = [got EXCEPT ![h][slot[h]] = b]
  /\ aliased' = [aliased EXCEPT ![h] = IF slot[h] = "self" THEN CopyIsAliased ELSE @]
  /\ slot' = [slot EXCEPT ![h] = NextSlot(slot[h])]
  /\ pc' = [pc EXCEPT ![h] = IF slot[h] = "next" THEN "simplify" ELSE "lookup"]

\* The call returns (a block or an error) and its locals are gone.
Return(h) ==
  /\ pc' = [pc EXCEPT ![h] = "idle"]
  /\ call' = [call EXCEPT ![h] = "byNonce"]
  /\ nonce' = [nonce EXCEPT ![h] = 0]
  /\ slot' = [slot EXCEPT ![h] = "self"]
  /\ got' = [got EXCEPT ![h] = Nothing]
  /\ aliased' = [aliased EXCEPT ![h] = FALSE]
  /\ fetched' = [fetched EXCEPT ![h] = NoBlock]

-----------------------------------------------------------------------------
\* GetBlockByNonce(n) is called: the node status is requested first.
StartByNonce(h) ==
  /\ pc[h] = "idle"
  /\ \E n \in Nonces \ {0} : nonce' = [nonce EXCEPT ![h] = n]
  /\ pc' = [pc EXCEPT ![h] = "status"]
  /\ UNCHANGED <<observerVars, cacheVars, call, slot, got, aliased, fetched, answers>>

\* Variation: the nonce is compared with the highest final nonce itself.
AcceptNonceUpToFinal(h) ==
  /\ pc[h] = "status"
  /\ \E r \in ReportableFinalNonces : HasLatestNonce(r) /\ nonce[h] <= r
  /\ pc' = [pc EXCEPT ![h] = "lookup"]
  /\ UNCHANGED <<observerVars, cacheVars, call, nonce, slot, got, aliased, fetched, answers>>

\* Variation: the nonce is not compared at all.
AcceptAnyNonce(h) ==
  /\ pc[h] = "status"
  /\ \E r \in ReportableFinalNonces : HasLatestNonce(r)
  /\ pc' = [pc EXCEPT ![h] = "lookup"]
  /\ UNCHANGED <<observerVars, cacheVars, call, nonce, slot, got, aliased, fetched, answers>>

\* The status arrives and the nonce is not above the latest one.
AcceptNonce(h) ==
  /\ pc[h] = "status"
  /\ \E r \in ReportableFinalNonces : HasLatestNonce(r) /\ nonce[h] <= LatestNonce(r)
  /\ pc' = [pc EXCEPT ![h] = "lookup"]
  /\ UNCHANGED <<observerVars, cacheVars, call, nonce, slot, got, aliased, fetched, answers>>

\* errCannotGetLatestBlockNonce, or errCannotGetBlock.
RejectNonce(h) ==
  /\ pc[h] = "status"
  /\ \E r \in ReportableFinalNonces : HasLatestNonce(r) => nonce[h] > LatestNonce(r)
  /\ Return(h)
  /\ UNCHANGED <<observerVars, cacheVars, answers>>

\* GetBlockByHash is called: no status is requested.
StartByHash(h) ==
  /\ ServeByHash
  /\ pc[h] = "idle"
  /\ pc' = [pc EXCEPT ![h] = "byHash"]
  /\ call' = [call EXCEPT ![h] = "byHash"]
  /\ UNCHANGED <<observerVars, cacheVars, nonce, slot, got, aliased, fetched, answers>>

\* doGetBlockByHash: the observer answers with any block of its chain but
\* genesis; the response is neither looked up in the cache nor cached.
AnswerByHash(h) ==
  /\ pc[h] = "byHash"
  /\ \E n \in 1 .. height : got' = [got EXCEPT ![h]["self"] = chain[n]]
  /\ slot' = [slot EXCEPT ![h] = "prev"]
  /\ pc' = [pc EXCEPT ![h] = "lookup"]
  /\ UNCHANGED <<observerVars, cacheVars, call, nonce, aliased, fetched, answers>>

\* doGetBlockByNonce, cache hit.
CacheHit(h) ==
  /\ pc[h] = "lookup"
  /\ IsCached(WantedNonce(h))
  /\ Obtain(h, cache[WantedNonce(h)])
  /\ UNCHANGED <<observerVars, cacheVars, call, nonce, fetched, answers>>

\* doGetBlockByNonce, cache miss: the block is requested from the observer.
CacheMiss(h) ==
  /\ pc[h] = "lookup"
  /\ ~IsCached(WantedNonce(h))
  /\ pc' = [pc EXCEPT ![h] = "ask"]
  /\ UNCHANGED <<observerVars, cacheVars, call, nonce, slot, got, aliased, fetched, answers>>

\* The observer answers with the block that has this nonce now.
ObserverAnswers(h) ==
  /\ pc[h] = "ask"
  /\ HasBlock(WantedNonce(h))
  /\ fetched' = [fetched EXCEPT ![h] = chain[WantedNonce(h)]]
  /\ pc' = [pc EXCEPT ![h] = "put"]
  /\ UNCHANGED <<observerVars, cacheVars, call, nonce, slot, got, aliased, answers>>

\* Variation: a neighbour is cached under the nonce the client asked for.
CacheResponseUnderRequestedNonce(h) ==
  /\ pc[h] = "put"
  /\ PutInCache(nonce[h], fetched[h])
  /\ Obtain(h, fetched[h])
  /\ fetched' = [fetched EXCEPT ![h] = NoBlock]
  /\ UNCHANGED <<observerVars, call, nonce, answers>>

\* cacheBlockByNonce, whatever happened to the chain or the cache meanwhile.
CacheResponse(h) ==
  /\ pc[h] = "put"
  /\ PutInCache(WantedNonce(h), fetched[h])
  /\ Obtain(h, fetched[h])
  /\ fetched' = [fetched EXCEPT ![h] = NoBlock]
  /\ UNCHANGED <<observerVars, call, nonce, answers>>

\* Variation: a block request has no timeout and its error is not handled.
StatusCallFails(h) ==
  /\ pc[h] \in {"status", "byHash"}
  /\ Return(h)
  /\ UNCHANGED <<observerVars, cacheVars, answers>>

\* A request fails: connection error, timeout, error in the response (also
\* what the observer says of a nonce it has no block for).
CallFails(h) ==
  /\ pc[h] \in AtObserver
  /\ Return(h)
  /\ UNCHANGED <<observerVars, cacheVars, answers>>

\* doSimplifyBlockWithScheduledTransactions overwrites the MiniBlocks of the
\* handler's block; an alias of the cached block would be overwritten, too.
Simplify(h) ==
  /\ pc[h] = "simplify"
  /\ answers' = IF call[h] = "byNonce"
                THEN answers \cup {[self |-> got[h]["self"],
                                    prev |-> got[h]["prev"],
                                    next |-> got[h]["next"]]}
                ELSE answers
  /\ mutated' = IF aliased[h] THEN mutated \cup {got[h]["self"].nonce} ELSE mutated
  /\ Return(h)
  /\ UNCHANGED <<observerVars, cache>>

\* The middleware is restarted: the cache is in memory only, pending calls die.
Restart ==
  /\ cache' = [n \in Nonces |-> NoBlock]
  /\ mutated' = {}
  /\ pc' = [h \in Handlers |-> "idle"]
  /\ call' = [h \in Handlers |-> "byNonce"]
  /\ nonce' = [h \in Handlers |-> 0]
  /\ slot' = [h \in Handlers |-> "self"]
  /\ got' = [h \in Handlers |-> Nothing]
  /\ aliased' = [h \in Handlers |-> FALSE]
  /\ fetched' = [h \in Handlers |-> NoBlock]
  /\ UNCHANGED <<observerVars, answers>>

\* The steps of a call once it started.
HandlerStep(h) ==
  \/ AcceptNonce(h)
  \/ RejectNonce(h)
  \/ AnswerByHash(h)
  \/ CacheHit(h)
  \/ CacheMiss(h)
  \/ ObserverAnswers(h)
  \/ CacheResponse(h)
  \/ CallFails(h)
  \/ Simplify(h)

ObserverStep ==
  /\ ObserverNext
  /\ UNCHANGED <<cacheVars, handlerVars, answers>>

Next ==
  \/ ObserverStep
  \/ Restart
  \/ \E h \in Handlers : StartByNonce(h) \/ StartByHash(h) \/ HandlerStep(h)

Spec == Init /\ [][Next]_vars

\* The Go scheduler runs every ready goroutine, and every request to the
\* observer ends, if only by requestTimeoutInSeconds (server/factory/provider.go).
Fairness == \A h \in Handlers : WF_vars(HandlerStep(h))

FairSpec == Spec /\ Fairness

-----------------------------------------------------------------------------
(* Properties *)

\* The cache holds only blocks that can no longer be rolled back: the bound that
\* getLatestBlockNonce puts on a nonce covers the N+1 block that
\* simplifyBlockWithScheduledTransactions fetches and caches as well.
CacheIsSettled ==
  \A n \in CachedNonces : n <= settled /\ cache[n] = chain[n]

\* Every block that an answer of GetBlockByNonce was computed from is final, the
\* N+1 block included: "in the context of scheduled transactions, make sure the
\* N+1 block is final, as well" (getLatestBlockNonce in nodeStatus.go).
NeighboursAreFinal ==
  \A a \in answers, s \in Slots :
    a[s].nonce <= settled /\ chain[a[s].nonce] = a[s]

\* Answers of GetBlockByNonce fit together, whenever and from whichever mix of
\* cache and observer they were made: blocks of one answer are linked by hash,
\* answers for one nonce agree, and answers for consecutive nonces used each
\* other's block as neighbour (so no scheduled transaction is applied twice or lost).
AnswersAreConsistent ==
  /\ \A a \in answers : a.self.prev = a.prev.id /\ a.next.prev = a.self.id
  /\ \A a, b \in answers :
       /\ a.self.nonce = b.self.nonce => a = b
       /\ a.self.nonce + 1 = b.self.nonce => a.next = b.self /\ b.prev = a.self

\* doGetBlockByNonce caches a response under the nonce of that very block, also
\* when neighbours are fetched on behalf of GetBlockByHash.
CachedUnderOwnNonce ==
  \A n \in CachedNonces : cache[n].nonce = n

\* While a block stays cached it never changes, neither by a later response for its
\* nonce nor by the in-place simplification of what doGetBlockByNonce returned.
CachedBlocksNeverChange ==
  [][\A n \in Nonces :
       /\ cache[n] # NoBlock /\ cache'[n] # NoBlock => cache'[n] = cache[n]
       /\ n \in mutated' => n \in mutated]_vars

\* Every block call that was started returns.
CallsReturn == \A h \in Handlers : pc[h] # "idle" ~> pc[h] = "idle"

\* GetBlockByNonce implements one append-only ledger of linked blocks.
Ledger == INSTANCE BlockLedger WITH
  ledger <- [i \in 1 .. settled + 1 |-> chain[i - 1]],
  served <- answers

ImplementsLedger == Ledger!Spec
=============================================================================
