------------------------ MODULE NetworkProviderProofs ------------------------
(***************************************************************************)
(* Proofs about NetworkProvider for every number of handlers, every cache  *)
(* capacity and every length of the chain.                                 *)
(*                                                                         *)
(* Part 1 needs no assumption: types, and what a call has obtained so far. *)
(* Part 2 is about finality.  It assumes what the code relies on: clients  *)
(* query by nonce only, and a status claims final at most one block too    *)
(* many (OverReport < nonceDelta).                                         *)
(***************************************************************************)
EXTENDS NetworkProvider, Sequences, SequenceTheorems, TLAPS

-----------------------------------------------------------------------------
(* Part 1: types *)

\* Below its head the observer's chain is complete and linked.
ChainInv ==
  /\ settled <= height
  /\ \A n \in Nonces : n <= height => chain[n] \in Block /\ chain[n].nonce = n
  /\ \A n \in Nonces : 0 < n /\ n <= height => chain[n].prev = chain[n - 1].id

\* What handler h has obtained when it gets to its current slot.
CallInv(h) ==
  /\ pc[h] \in {"idle", "status", "byHash"} => slot[h] = "self"
  /\ pc[h] = "simplify" => slot[h] = "self"
  /\ pc[h] \in {"status", "lookup", "ask", "put"} /\ slot[h] = "self" => nonce[h] > 0
  /\ slot[h] # "self" \/ pc[h] = "simplify" =>
       got[h]["self"] \in Block /\ got[h]["self"].nonce > 0
  /\ slot[h] = "next" \/ pc[h] = "simplify" => got[h]["prev"] \in Block
  /\ pc[h] = "simplify" => got[h]["next"] \in Block
  /\ pc[h] = "put" => fetched[h] \in Block /\ fetched[h].nonce = WantedNonce(h)

Inv1 ==
  /\ TypeOK
  /\ ChainInv
  /\ \A h \in Handlers : CallInv(h)
  /\ CachedUnderOwnNonce

\* Initially nothing was obtained and nothing is cached (NewNetworkProvider).
LEMMA Init1 == Init => Inv1
<1> SUFFICES ASSUME Init PROVE Inv1
  OBVIOUS
<1> USE ObserverAssumption, ProviderAssumption
<1> USE DEF Init, ObserverInit, CacheInit, HandlersInit
<1>1. Genesis \in Block /\ 0 \in Nonces
  BY DEF Genesis, Block, Nonces
<1>2. TypeOK
  BY <1>1 DEF TypeOK, ObserverTypeOK, Nothing, Slots, AtObserver, Nonces
<1>3. ChainInv
  <2>1. ASSUME NEW n \in Nonces, n <= height PROVE n = 0 /\ chain[n] = Genesis
    BY <2>1, <1>1 DEF Nonces
  <2>2. Genesis.nonce = 0
    BY DEF Genesis
  <2>3. \A n \in Nonces : ~(0 < n /\ n <= height)
    BY DEF Nonces
  <2> QED
    BY <1>1, <2>1, <2>2, <2>3 DEF ChainInv
<1>4. ASSUME NEW h \in Handlers PROVE CallInv(h)
  BY DEF CallInv
<1>5. CachedUnderOwnNonce
  BY DEF CachedUnderOwnNonce, CachedNonces
<1> QED
  BY <1>2, <1>3, <1>4, <1>5 DEF Inv1
\* Producing, rolling back and settling blocks keeps the chain linked.
LEMMA ObserverStep1 == Inv1 /\ ObserverStep => Inv1'
<1> SUFFICES ASSUME Inv1, ObserverStep PROVE Inv1'
  OBVIOUS
<1> USE ObserverAssumption
<1> USE DEF Inv1, TypeOK, ObserverTypeOK, ChainInv
<1>1. UNCHANGED <<cache, mutated, pc, call, nonce, slot, got, aliased, fetched, answers>>
  BY DEF ObserverStep, cacheVars, handlerVars
<1>2. ObserverTypeOK' /\ ChainInv'
  <2>1. CASE ProduceBlock
    <3> DEFINE b == [nonce |-> height + 1, id |-> produced + 1, prev |-> chain[height].id]
    <3>1. chain[height] \in Block /\ height + 1 \in Nonces /\ produced + 1 \in 0 .. MaxBlocks
      BY <2>1 DEF ProduceBlock, Nonces
    <3>2. b \in Block /\ b.nonce = height + 1 /\ b.prev = chain[height].id
      BY <3>1 DEF Block
    <3> HIDE DEF b
    <3>3. /\ height' = height + 1 /\ produced' = produced + 1 /\ settled' = settled
          /\ chain' = [chain EXCEPT ![height + 1] = b]
      BY <2>1 DEF ProduceBlock, b
    <3>4. ObserverTypeOK'
      BY <3>1, <3>2, <3>3
    <3>5. \A n \in Nonces : n <= height' => chain'[n] \in Block /\ chain'[n].nonce = n
      BY <3>1, <3>2, <3>3 DEF Nonces
    <3>6. \A n \in Nonces : 0 < n /\ n <= height' => chain'[n].prev = chain'[n - 1].id
      BY <3>1, <3>2, <3>3 DEF Nonces
    <3> QED
      BY <3>3, <3>4, <3>5, <3>6 DEF Nonces
  <2>2. CASE RollbackBlock
    BY <2>2 DEF RollbackBlock, Nonces
  <2>3. CASE SettleBlock
    BY <2>3 DEF SettleBlock, Nonces
  <2> QED
    BY <2>1, <2>2, <2>3 DEF ObserverStep, ObserverNext
<1>3. TypeOK'
  BY <1>1, <1>2
<1>4. \A h \in Handlers : CallInv(h)'
  BY <1>1 DEF CallInv, WantedNonce
<1>5. CachedUnderOwnNonce'
  BY <1>1 DEF CachedUnderOwnNonce, CachedNonces
<1> QED
  BY <1>2, <1>3, <1>4, <1>5

\* A handler's call is not affected by what the others do.
LEMMA CallFrame ==
  ASSUME NEW h \in Handlers, CallInv(h),
         pc'[h] = pc[h], slot'[h] = slot[h], nonce'[h] = nonce[h],
         got'[h] = got[h], fetched'[h] = fetched[h]
  PROVE  CallInv(h)'
BY DEF CallInv, WantedNonce

\* A call that returned satisfies CallInv again, and forgets everything typed.
LEMMA ReturnLemma ==
  ASSUME TypeOK, NEW h \in Handlers, Return(h)
  PROVE  /\ CallInv(h)'
         /\ \A g \in Handlers \ {h} :
              /\ pc'[g] = pc[g] /\ slot'[g] = slot[g] /\ nonce'[g] = nonce[g]
              /\ got'[g] = got[g] /\ fetched'[g] = fetched[g]
              /\ call'[g] = call[g] /\ aliased'[g] = aliased[g]
         /\ pc' \in [Handlers -> AtObserver \cup {"idle", "lookup", "put", "simplify"}]
         /\ call' \in [Handlers -> {"byNonce", "byHash"}]
         /\ nonce' \in [Handlers -> Nonces]
         /\ slot' \in [Handlers -> Slots]
         /\ got' \in [Handlers -> [Slots -> Block \cup {NoBlock}]]
         /\ aliased' \in [Handlers -> BOOLEAN]
         /\ fetched' \in [Handlers -> Block \cup {NoBlock}]
<1> USE DEF TypeOK, ObserverTypeOK, Return
<1>1. 0 \in Nonces /\ "self" \in Slots /\ Nothing \in [Slots -> Block \cup {NoBlock}]
  BY ObserverAssumption DEF Nonces, Slots, Nothing
<1>2. CallInv(h)'
  BY DEF CallInv
<1> QED
  BY <1>1, <1>2

\* PutInCache stores b under n and leaves or evicts the other entries.
LEMMA PutLemma ==
  ASSUME TypeOK, NEW n \in Nonces, NEW b \in Block, PutInCache(n, b)
  PROVE  /\ cache' \in [Nonces -> Block \cup {NoBlock}]
         /\ mutated' \subseteq mutated
         /\ cache'[n] = b
         /\ \A m \in Nonces \ {n} : cache'[m] = cache[m] \/ cache'[m] = NoBlock
<1> USE DEF TypeOK
<1>1. CASE /\ cache' = [cache EXCEPT ![n] = b]
           /\ mutated' = mutated \ {n}
  BY <1>1
<1>2. ASSUME NEW v \in CachedNonces, ~IsCached(n),
             cache' = [cache EXCEPT ![n] = b, ![v] = NoBlock],
             mutated' = mutated \ {n, v}
      PROVE  /\ cache' \in [Nonces -> Block \cup {NoBlock}]
             /\ mutated' \subseteq mutated
             /\ cache'[n] = b
             /\ \A m \in Nonces \ {n} : cache'[m] = cache[m] \/ cache'[m] = NoBlock
  <2>1. v # n /\ v \in Nonces
    BY <1>2 DEF IsCached, CachedNonces
  <2> QED
    BY <1>2, <2>1
<1> QED
  BY <1>1, <1>2 DEF PutInCache

\* The nonce of a block being obtained is one the chain can have, or one above.
LEMMA WantedLemma ==
  ASSUME Inv1, NEW h \in Handlers, pc[h] \in {"lookup", "ask", "put"}
  PROVE  WantedNonce(h) \in Int /\ WantedNonce(h) >= 0
<1> USE ObserverAssumption DEF Inv1, TypeOK, ObserverTypeOK, CallInv
<1>1. CASE slot[h] = "self"
  BY <1>1 DEF WantedNonce, Nonces
<1>2. CASE slot[h] # "self"
  <2>1. got[h]["self"].nonce \in Nonces /\ got[h]["self"].nonce > 0
    BY <1>2 DEF Block
  <2> QED
    BY <1>2, <2>1 DEF WantedNonce, Nonces, Slots
<1> QED
  BY <1>1, <1>2
\* Obtaining a block with the wanted nonce fills the slot and moves to the next.
LEMMA ObtainLemma ==
  ASSUME Inv1, NEW h \in Handlers, pc[h] \in {"lookup", "put"},
         NEW b \in Block, b.nonce = WantedNonce(h),
         Obtain(h, b), nonce' = nonce
  PROVE  /\ CallInv(h)'
         /\ \A g \in Handlers \ {h} :
              /\ pc'[g] = pc[g] /\ slot'[g] = slot[g]
              /\ got'[g] = got[g] /\ aliased'[g] = aliased[g]
         /\ pc' \in [Handlers -> AtObserver \cup {"idle", "lookup", "put", "simplify"}]
         /\ slot' \in [Handlers -> Slots]
         /\ got' \in [Handlers -> [Slots -> Block \cup {NoBlock}]]
         /\ aliased' \in [Handlers -> BOOLEAN]
<1> USE DEF Inv1, TypeOK, Obtain
<1>1. slot[h] \in Slots /\ NextSlot(slot[h]) \in Slots
  BY DEF NextSlot, Slots
<1>2. /\ got'[h] \in [Slots -> Block \cup {NoBlock}]
      /\ got'[h] = [got[h] EXCEPT ![slot[h]] = b]
      /\ pc'[h] = IF slot[h] = "next" THEN "simplify" ELSE "lookup"
      /\ slot'[h] = NextSlot(slot[h])
  BY <1>1
<1>3. CallInv(h)'
  <2>1. CASE slot[h] = "self"
    <3>1. b.nonce = nonce[h] /\ nonce[h] > 0
      BY <2>1 DEF WantedNonce, CallInv
    <3>2. /\ got'[h]["self"] = b
          /\ slot'[h] = "prev" /\ pc'[h] = "lookup"
      BY <1>2, <2>1 DEF NextSlot, Slots
    <3> QED
      BY <3>1, <3>2 DEF CallInv
  <2>2. CASE slot[h] = "prev"
    <3>1. /\ got'[h]["prev"] = b /\ got'[h]["self"] = got[h]["self"]
          /\ slot'[h] = "next" /\ pc'[h] = "lookup"
      BY <1>2, <2>2 DEF NextSlot, Slots
    <3> QED
      BY <2>2, <3>1 DEF CallInv
  <2>3. CASE slot[h] = "next"
    <3>1. /\ got'[h]["next"] = b /\ got'[h]["self"] = got[h]["self"]
          /\ got'[h]["prev"] = got[h]["prev"]
          /\ slot'[h] = "self" /\ pc'[h] = "simplify"
      BY <1>2, <2>3 DEF NextSlot, Slots
    <3> QED
      BY <2>3, <3>1 DEF CallInv
  <2> QED
    BY <1>1, <2>1, <2>2, <2>3 DEF Slots
<1>4. aliased' \in [Handlers -> BOOLEAN]
  BY DEF CopyIsAliased
<1>5. pc' \in [Handlers -> AtObserver \cup {"idle", "lookup", "put", "simplify"}]
  OBVIOUS
<1> QED
  BY <1>1, <1>3, <1>4, <1>5

\* Inv1 is preserved by every step of a handler.
LEMMA HandlerStep1 ==
  ASSUME Inv1, NEW h \in Handlers,
         StartByNonce(h) \/ StartByHash(h) \/ HandlerStep(h)
  PROVE  Inv1'
<1> USE ObserverAssumption, ProviderAssumption
<1>0. /\ TypeOK /\ ChainInv /\ CachedUnderOwnNonce /\ CallInv(h)
      /\ \A g \in Handlers : CallInv(g)
  BY DEF Inv1
<1>1. CASE StartByNonce(h)
  <2> USE <1>1 DEF StartByNonce, observerVars, cacheVars
  <2>1. TypeOK'
    BY <1>0 DEF TypeOK, ObserverTypeOK, AtObserver
  <2>2. ASSUME NEW g \in Handlers PROVE CallInv(g)'
    <3>1. CASE g = h
      BY <3>1, <1>0 DEF CallInv, TypeOK, Nonces
    <3>2. CASE g # h
      BY <3>2, <1>0, CallFrame DEF TypeOK
    <3> QED
      BY <3>1, <3>2
  <2> QED
    BY <1>0, <2>1, <2>2 DEF Inv1, ChainInv, CachedUnderOwnNonce, CachedNonces
<1>2. CASE StartByHash(h)
  <2> USE <1>2 DEF StartByHash, observerVars, cacheVars
  <2>1. TypeOK'
    BY <1>0 DEF TypeOK, ObserverTypeOK, AtObserver
  <2>2. ASSUME NEW g \in Handlers PROVE CallInv(g)'
    <3>1. CASE g = h
      BY <3>1, <1>0 DEF CallInv, TypeOK
    <3>2. CASE g # h
      BY <3>2, <1>0, CallFrame DEF TypeOK
    <3> QED
      BY <3>1, <3>2
  <2> QED
    BY <1>0, <2>1, <2>2 DEF Inv1, ChainInv, CachedUnderOwnNonce, CachedNonces
<1>3. CASE AcceptNonce(h)
  <2> USE <1>3 DEF AcceptNonce, observerVars, cacheVars
  <2>1. TypeOK'
    BY <1>0 DEF TypeOK, ObserverTypeOK, AtObserver
  <2>2. ASSUME NEW g \in Handlers PROVE CallInv(g)'
    <3>1. CASE g = h
      BY <3>1, <1>0 DEF CallInv, TypeOK
    <3>2. CASE g # h
      BY <3>2, <1>0, CallFrame DEF TypeOK
    <3> QED
      BY <3>1, <3>2
  <2> QED
    BY <1>0, <2>1, <2>2 DEF Inv1, ChainInv, CachedUnderOwnNonce, CachedNonces
<1>4. CASE RejectNonce(h) \/ CallFails(h)
  <2>1. Return(h) /\ UNCHANGED <<observerVars, cacheVars, answers>>
    BY <1>4 DEF RejectNonce, CallFails
  <2>2. TypeOK'
    BY <1>0, <2>1, ReturnLemma DEF TypeOK, ObserverTypeOK, observerVars, cacheVars
  <2>3. ASSUME NEW g \in Handlers PROVE CallInv(g)'
    BY <1>0, <2>1, ReturnLemma, CallFrame
  <2> QED
    BY <1>0, <2>1, <2>2, <2>3
    DEF Inv1, ChainInv, CachedUnderOwnNonce, CachedNonces, observerVars, cacheVars
<1>5. CASE AnswerByHash(h)
  <2> USE <1>5 DEF AnswerByHash, observerVars, cacheVars
  <2>1. PICK n \in 1 .. height : got' = [got EXCEPT ![h]["self"] = chain[n]]
    OBVIOUS
  <2>2. n \in Nonces /\ chain[n] \in Block /\ chain[n].nonce > 0
    BY <1>0 DEF TypeOK, ObserverTypeOK, ChainInv, Nonces
  <2>3. TypeOK'
    BY <1>0, <2>1, <2>2 DEF TypeOK, ObserverTypeOK, AtObserver, Slots
  <2>4. ASSUME NEW g \in Handlers PROVE CallInv(g)'
    <3>1. CASE g = h
      BY <3>1, <1>0, <2>1, <2>2 DEF CallInv, TypeOK, Slots
    <3>2. CASE g # h
      BY <3>2, <1>0, <2>1, CallFrame DEF TypeOK
    <3> QED
      BY <3>1, <3>2
  <2> QED
    BY <1>0, <2>3, <2>4 DEF Inv1, ChainInv, CachedUnderOwnNonce, CachedNonces
<1>6. CASE CacheHit(h)
  <2> USE <1>6 DEF CacheHit, observerVars, cacheVars
  <2> DEFINE b == cache[WantedNonce(h)]
  <2>1. b \in Block /\ b.nonce = WantedNonce(h)
    BY <1>0 DEF IsCached, CachedNonces, CachedUnderOwnNonce, TypeOK
  <2>2. Obtain(h, b) /\ nonce' = nonce /\ pc[h] \in {"lookup", "put"}
    OBVIOUS
  <2> HIDE DEF b
  <2>3. TypeOK'
    BY <1>0, <2>1, <2>2, ObtainLemma DEF TypeOK, ObserverTypeOK, Inv1
  <2>4. ASSUME NEW g \in Handlers PROVE CallInv(g)'
    BY <1>0, <2>1, <2>2, ObtainLemma, CallFrame DEF Inv1
  <2> QED
    BY <1>0, <2>3, <2>4 DEF Inv1, ChainInv, CachedUnderOwnNonce, CachedNonces
<1>7. CASE CacheMiss(h)
  <2> USE <1>7 DEF CacheMiss, observerVars, cacheVars
  <2>1. TypeOK'
    BY <1>0 DEF TypeOK, ObserverTypeOK, AtObserver
  <2>2. ASSUME NEW g \in Handlers PROVE CallInv(g)'
    <3>1. CASE g = h
      BY <3>1, <1>0 DEF CallInv, TypeOK
    <3>2. CASE g # h
      BY <3>2, <1>0, CallFrame DEF TypeOK
    <3> QED
      BY <3>1, <3>2
  <2> QED
    BY <1>0, <2>1, <2>2 DEF Inv1, ChainInv, CachedUnderOwnNonce, CachedNonces
<1>8. CASE ObserverAnswers(h)
  <2> USE <1>8 DEF ObserverAnswers, observerVars, cacheVars
  <2> DEFINE n == WantedNonce(h)
  <2>1. n \in Nonces /\ chain[n] \in Block /\ chain[n].nonce = n
    BY <1>0, WantedLemma DEF Inv1, HasBlock, TypeOK, ObserverTypeOK, ChainInv, Nonces
  <2>2. TypeOK'
    BY <1>0, <2>1 DEF TypeOK, ObserverTypeOK
  <2>3. ASSUME NEW g \in Handlers PROVE CallInv(g)'
    <3>1. CASE g = h
      BY <3>1, <1>0, <2>1 DEF CallInv, TypeOK, WantedNonce
    <3>2. CASE g # h
      BY <3>2, <1>0, CallFrame DEF TypeOK
    <3> QED
      BY <3>1, <3>2
  <2> QED
    BY <1>0, <2>2, <2>3 DEF Inv1, ChainInv, CachedUnderOwnNonce, CachedNonces
<1>9. CASE CacheResponse(h)
  <2> USE <1>9 DEF CacheResponse, observerVars
  <2> DEFINE n == WantedNonce(h)
             b == fetched[h]
  <2>1. b \in Block /\ b.nonce = n /\ n \in Nonces
    BY <1>0 DEF CallInv, Block
  <2>2. /\ Obtain(h, b) /\ PutInCache(n, b) /\ nonce' = nonce
        /\ pc[h] \in {"lookup", "put"}
    OBVIOUS
  <2>3. /\ fetched' \in [Handlers -> Block \cup {NoBlock}]
        /\ \A g \in Handlers \ {h} : fetched'[g] = fetched[g]
    BY <1>0 DEF TypeOK
  <2>4. b.nonce = WantedNonce(h)
    BY <2>1
  <2> HIDE DEF b, n
  <2>5. /\ pc' \in [Handlers -> AtObserver \cup {"idle", "lookup", "put", "simplify"}]
        /\ slot' \in [Handlers -> Slots]
        /\ got' \in [Handlers -> [Slots -> Block \cup {NoBlock}]]
        /\ aliased' \in [Handlers -> BOOLEAN]
    BY <2>1, <2>2, <2>4, ObtainLemma
  <2>6. cache' \in [Nonces -> Block \cup {NoBlock}] /\ mutated' \subseteq Nonces
    BY <1>0, <2>1, <2>2, PutLemma DEF TypeOK
  <2>7. TypeOK'
    BY <1>0, <2>3, <2>5, <2>6 DEF TypeOK, ObserverTypeOK
  <2>8. ASSUME NEW g \in Handlers PROVE CallInv(g)'
    BY <1>0, <2>1, <2>2, <2>3, <2>4, ObtainLemma, CallFrame
  <2>9. CachedUnderOwnNonce'
    BY <1>0, <2>1, <2>2, PutLemma DEF CachedUnderOwnNonce, CachedNonces
  <2> QED
    BY <1>0, <2>7, <2>8, <2>9 DEF Inv1, ChainInv
<1>10. CASE Simplify(h)
  <2>1. /\ Return(h) /\ UNCHANGED <<observerVars, cache>>
        /\ pc[h] = "simplify"
    BY <1>10 DEF Simplify
  <2>2. answers' \subseteq Answer /\ mutated' \subseteq Nonces
    BY <1>0, <1>10 DEF Simplify, CallInv, TypeOK, Answer, Block
  <2>3. TypeOK'
    BY <1>0, <2>1, <2>2, ReturnLemma DEF TypeOK, ObserverTypeOK, observerVars
  <2>4. ASSUME NEW g \in Handlers PROVE CallInv(g)'
    BY <1>0, <2>1, ReturnLemma, CallFrame
  <2> QED
    BY <1>0, <2>1, <2>3, <2>4
    DEF Inv1, ChainInv, CachedUnderOwnNonce, CachedNonces, observerVars
<1> QED
  BY <1>1, <1>2, <1>3, <1>4, <1>5, <1>6, <1>7, <1>8, <1>9, <1>10 DEF HandlerStep

\* A restart empties the cache and forgets every call.
LEMMA Restart1 == Inv1 /\ Restart => Inv1'
<1> SUFFICES ASSUME Inv1, Restart PROVE Inv1'
  OBVIOUS
<1> USE ObserverAssumption
<1> USE DEF Inv1, Restart, observerVars
<1>1. TypeOK'
  BY DEF TypeOK, ObserverTypeOK, Nothing, Slots, AtObserver, Nonces
<1>2. ASSUME NEW h \in Handlers PROVE CallInv(h)'
  BY DEF CallInv
<1> QED
  BY <1>1, <1>2 DEF ChainInv, CachedUnderOwnNonce, CachedNonces

\* Inv1 holds in every reachable state, by-hash queries included.
LEMMA Invariant1 == Spec => []Inv1
<1>1. Inv1 /\ [Next]_vars => Inv1'
  <2> SUFFICES ASSUME Inv1, [Next]_vars PROVE Inv1'
    OBVIOUS
  <2>1. CASE UNCHANGED vars
    BY <2>1 DEF vars, observerVars, cacheVars, handlerVars, Inv1, TypeOK, ObserverTypeOK,
                ChainInv, CallInv, WantedNonce, CachedUnderOwnNonce, CachedNonces
  <2> QED
    BY <2>1, ObserverStep1, Restart1, HandlerStep1 DEF Next
<1> QED
  BY <1>1, Init1, PTL DEF Spec

\* Every variable of the block provider keeps its type: in particular an answer
\* of GetBlockByNonce is never made before all three blocks were obtained.
THEOREM TypeCorrectness == Spec => []TypeOK
<1>1. Inv1 => TypeOK
  BY DEF Inv1
<1> QED
  BY <1>1, Invariant1, PTL

\* doGetBlockByNonce never caches a block under another block's nonce.
THEOREM CacheKeysAreNonces == Spec => []CachedUnderOwnNonce
<1>1. Inv1 => CachedUnderOwnNonce
  BY DEF Inv1
<1> QED
  BY <1>1, Invariant1, PTL
-----------------------------------------------------------------------------
(* Part 2: finality *)

\* The margin of nonceDelta blocks covers what a status claims final too early.
MarginSuffices == OverReport < nonceDelta

\* What GetBlockByNonce relies on: the margin, and that nobody queries by hash (or only for
\* blocks whose next block is settled; see SyncingClientProofs).
FinalityAssumption == ServeByHash = FALSE /\ MarginSuffices
AnswerIsSettled(h) == AnswerByHash(h) => got'[h]["self"].nonce < settled

\* The nonce that a call is about.
AskedNonce(h) == IF call[h] = "byNonce" THEN nonce[h] ELSE got[h]["self"].nonce

\* A call that passed the status check works on settled blocks only.
SettledCall(h) ==
  /\ call[h] = "byHash" => ServeByHash
  /\ pc[h] = "byHash" => call[h] = "byHash"
  /\ pc[h] \in {"idle", "status", "lookup", "ask", "put"} /\ slot[h] = "self" =>
       call[h] = "byNonce"
  /\ aliased[h] = FALSE
  /\ pc[h] \in {"lookup", "ask", "put", "simplify"} =>
       0 < AskedNonce(h) /\ AskedNonce(h) < settled
  /\ slot[h] # "self" \/ pc[h] = "simplify" => got[h]["self"] = chain[AskedNonce(h)]
  /\ slot[h] = "next" \/ pc[h] = "simplify" => got[h]["prev"] = chain[AskedNonce(h) - 1]
  /\ pc[h] = "simplify" => got[h]["next"] = chain[AskedNonce(h) + 1]
  /\ pc[h] = "put" => fetched[h] = chain[WantedNonce(h)]

\* The answer about block n of the current chain.
AnswerOf(n) == [self |-> chain[n], prev |-> chain[n - 1], next |-> chain[n + 1]]

SettledAnswer(a) == \E n \in Nonces : 0 < n /\ n < settled /\ a = AnswerOf(n)

Inv2 ==
  /\ CacheIsSettled
  /\ mutated = {}
  /\ \A h \in Handlers : SettledCall(h)
  /\ \A a \in answers : SettledAnswer(a)

\* Initially there is nothing in the cache, in a call or in an answer.
LEMMA Init2 == Init => Inv2
BY DEF Init, ObserverInit, CacheInit, HandlersInit, Inv2, CacheIsSettled, CachedNonces, SettledCall

\* A nonce below the last settled one, and its neighbours, are settled nonces.
LEMMA NeighbourNonces ==
  ASSUME settled \in Nonces, NEW n \in Nonces, 0 < n, n < settled
  PROVE  /\ n - 1 \in Nonces /\ n + 1 \in Nonces
         /\ n - 1 <= settled /\ n <= settled /\ n + 1 <= settled
BY ObserverAssumption DEF Nonces

\* No step of the observer touches a settled block.
LEMMA SettledBlocksStay ==
  ASSUME Inv1, ObserverStep
  PROVE  /\ settled' \in Nonces /\ settled <= settled'
         /\ \A n \in Nonces : n <= settled => chain'[n] = chain[n]
<1> USE ObserverAssumption DEF Inv1, TypeOK, ObserverTypeOK, ChainInv, Nonces
<1>1. CASE ProduceBlock
  BY <1>1 DEF ProduceBlock
<1>2. CASE RollbackBlock
  BY <1>2 DEF RollbackBlock
<1>3. CASE SettleBlock
  BY <1>3 DEF SettleBlock
<1> QED
  BY <1>1, <1>2, <1>3 DEF ObserverStep, ObserverNext

\* The nonce that a call is about is one of the chain.
LEMMA AskedType ==
  ASSUME Inv1, NEW h \in Handlers, SettledCall(h),
         pc[h] \in {"lookup", "ask", "put", "simplify"}
  PROVE  AskedNonce(h) \in Nonces
BY DEF Inv1, TypeOK, CallInv, SettledCall, AskedNonce, Block

\* The nonce of the block being obtained, in terms of the nonce asked for.
LEMMA SettledWanted ==
  ASSUME Inv1, NEW h \in Handlers, SettledCall(h), pc[h] \in {"lookup", "ask", "put"}
  PROVE  /\ WantedNonce(h) = IF slot[h] = "self" THEN AskedNonce(h)
                             ELSE IF slot[h] = "prev" THEN AskedNonce(h) - 1
                             ELSE AskedNonce(h) + 1
         /\ WantedNonce(h) \in Nonces /\ WantedNonce(h) <= settled
         /\ AskedNonce(h) \in Nonces
<1> USE ObserverAssumption DEF Inv1, TypeOK, ObserverTypeOK, ChainInv, SettledCall
<1>0. AskedNonce(h) \in Nonces
  BY AskedType
<1>1. /\ AskedNonce(h) \in Nonces /\ AskedNonce(h) >= 1 /\ AskedNonce(h) + 1 <= settled
      /\ settled <= height /\ height <= MaxNonce
  BY <1>0 DEF Nonces
<1>2. chain[AskedNonce(h)].nonce = AskedNonce(h)
  BY <1>1 DEF Nonces
<1>3. WantedNonce(h) = IF slot[h] = "self" THEN AskedNonce(h)
                       ELSE IF slot[h] = "prev" THEN AskedNonce(h) - 1
                       ELSE AskedNonce(h) + 1
  <2>1. CASE slot[h] = "self"
    BY <2>1 DEF WantedNonce, AskedNonce
  <2>2. CASE slot[h] # "self"
    BY <1>2, <2>2 DEF WantedNonce, Slots
  <2> QED
    BY <2>1, <2>2
<1> QED
  BY <1>1, <1>3 DEF Nonces

\* A call whose locals and whose settled blocks stay keeps SettledCall.
LEMMA SettledFrame ==
  ASSUME Inv1, NEW h \in Handlers, SettledCall(h),
         settled' \in Nonces, settled <= settled',
         \A n \in Nonces : n <= settled => chain'[n] = chain[n],
         pc'[h] = pc[h], slot'[h] = slot[h], nonce'[h] = nonce[h], call'[h] = call[h],
         got'[h] = got[h], aliased'[h] = aliased[h], fetched'[h] = fetched[h]
  PROVE  SettledCall(h)'
<1> USE ObserverAssumption
<1>0. settled \in Nonces /\ slot[h] \in Slots /\ CallInv(h)
  BY DEF Inv1, TypeOK, ObserverTypeOK
<1>1. WantedNonce(h)' = WantedNonce(h) /\ AskedNonce(h)' = AskedNonce(h)
  BY DEF WantedNonce, AskedNonce
<1>a. pc[h] \in {"lookup", "ask", "put", "simplify"} => AskedNonce(h) \in Nonces
  BY AskedType
<1>2. CASE pc[h] \in {"lookup", "ask", "put"}
  <2>1. /\ AskedNonce(h) \in Nonces /\ AskedNonce(h) - 1 \in Nonces
        /\ AskedNonce(h) - 1 <= settled /\ AskedNonce(h) <= settled
    BY <1>0, <1>2, <1>a, NeighbourNonces DEF SettledCall
  <2>2. WantedNonce(h) \in Nonces /\ WantedNonce(h) <= settled
    BY <1>2, SettledWanted
  <2>3. /\ chain'[AskedNonce(h)] = chain[AskedNonce(h)]
        /\ chain'[AskedNonce(h) - 1] = chain[AskedNonce(h) - 1]
        /\ chain'[WantedNonce(h)] = chain[WantedNonce(h)]
    BY <2>1, <2>2
  <2>4. 0 < AskedNonce(h) /\ AskedNonce(h) < settled'
    BY <1>0, <1>2, <2>1 DEF SettledCall, Nonces
  <2> QED
    BY <1>1, <1>2, <2>3, <2>4 DEF SettledCall
<1>3. CASE pc[h] = "simplify"
  <2>1. /\ AskedNonce(h) \in Nonces /\ AskedNonce(h) - 1 \in Nonces /\ AskedNonce(h) + 1 \in Nonces
        /\ AskedNonce(h) + 1 <= settled
    BY <1>0, <1>3, <1>a, NeighbourNonces DEF SettledCall
  <2> QED
    BY <1>0, <1>1, <1>3, <2>1 DEF SettledCall, Nonces, CallInv
<1>4. CASE pc[h] \in {"idle", "status", "byHash"}
  BY <1>0, <1>4 DEF SettledCall, CallInv
<1> QED
  BY <1>2, <1>3, <1>4 DEF Inv1, TypeOK, AtObserver

\* The observer's steps preserve finality.
LEMMA ObserverStep2 == Inv1 /\ Inv2 /\ ObserverStep => Inv2'
<1> SUFFICES ASSUME Inv1, Inv2, ObserverStep PROVE Inv2'
  OBVIOUS
<1> USE ObserverAssumption
<1>1. /\ settled' \in Nonces /\ settled \in Nonces /\ settled <= settled'
      /\ \A n \in Nonces : n <= settled => chain'[n] = chain[n]
  BY SettledBlocksStay DEF Inv1, TypeOK, ObserverTypeOK
<1>2. UNCHANGED <<cache, mutated, pc, call, nonce, slot, got, aliased, fetched, answers>>
  BY DEF ObserverStep, cacheVars, handlerVars
<1>3. CacheIsSettled'
  BY <1>1, <1>2 DEF Inv2, CacheIsSettled, CachedNonces, Nonces
<1>4. ASSUME NEW h \in Handlers PROVE SettledCall(h)'
  BY <1>1, <1>2, SettledFrame DEF Inv2
<1>5. ASSUME NEW a \in answers PROVE SettledAnswer(a)'
  <2>1. PICK n \in Nonces : 0 < n /\ n < settled /\ a = AnswerOf(n)
    BY DEF Inv2, SettledAnswer
  <2>2. n < settled'
    BY <1>1, <2>1 DEF Nonces
  <2>3. chain'[n] = chain[n] /\ chain'[n - 1] = chain[n - 1] /\ chain'[n + 1] = chain[n + 1]
    BY <1>1, <2>1, NeighbourNonces
  <2> QED
    BY <2>1, <2>2, <2>3 DEF AnswerOf, SettledAnswer
<1> QED
  BY <1>2, <1>3, <1>4, <1>5 DEF Inv2
\* Obtaining the settled block of the wanted nonce keeps a call settled.
LEMMA ObtainSettled ==
  ASSUME Inv1, NEW h \in Handlers, SettledCall(h), pc[h] \in {"lookup", "put"},
         Obtain(h, chain[WantedNonce(h)]),
         chain' = chain, settled' = settled, nonce' = nonce, call' = call
  PROVE  SettledCall(h)'
<1> USE DEF Inv1, TypeOK
<1> DEFINE b == chain[WantedNonce(h)]
<1>1. /\ got'[h] = [got[h] EXCEPT ![slot[h]] = b]
      /\ got[h] \in [Slots -> Block \cup {NoBlock}]
      /\ pc'[h] = IF slot[h] = "next" THEN "simplify" ELSE "lookup"
      /\ slot'[h] = NextSlot(slot[h])
      /\ aliased'[h] = FALSE
  BY DEF Obtain, SettledCall, CopyIsAliased
<1>2. /\ WantedNonce(h) = IF slot[h] = "self" THEN AskedNonce(h)
                          ELSE IF slot[h] = "prev" THEN AskedNonce(h) - 1
                          ELSE AskedNonce(h) + 1
  BY SettledWanted
<1>3. /\ 0 < AskedNonce(h) /\ AskedNonce(h) < settled
      /\ call[h] = "byNonce" \/ slot[h] # "self"
      /\ call[h] \in {"byNonce", "byHash"}
      /\ call[h] = "byHash" => ServeByHash
  BY DEF SettledCall
<1>b. AskedNonce(h)' = AskedNonce(h)
  BY <1>1, <1>3 DEF AskedNonce, Slots
<1>4. CASE slot[h] = "self"
  <2>1. /\ got'[h]["self"] = chain[AskedNonce(h)]
        /\ slot'[h] = "prev" /\ pc'[h] = "lookup"
    BY <1>1, <1>2, <1>4 DEF NextSlot, Slots
  <2> QED
    BY <1>1, <1>3, <1>b, <2>1 DEF SettledCall
<1>5. CASE slot[h] = "prev"
  <2>1. /\ got'[h]["prev"] = chain[AskedNonce(h) - 1] /\ got'[h]["self"] = got[h]["self"]
        /\ slot'[h] = "next" /\ pc'[h] = "lookup"
    BY <1>1, <1>2, <1>5 DEF NextSlot, Slots
  <2> QED
    BY <1>1, <1>3, <1>5, <1>b, <2>1 DEF SettledCall
<1>6. CASE slot[h] = "next"
  <2>1. /\ got'[h]["next"] = chain[AskedNonce(h) + 1] /\ got'[h]["self"] = got[h]["self"]
        /\ got'[h]["prev"] = got[h]["prev"]
        /\ slot'[h] = "self" /\ pc'[h] = "simplify"
    BY <1>1, <1>2, <1>6 DEF NextSlot, Slots
  <2> QED
    BY <1>1, <1>3, <1>6, <1>b, <2>1 DEF SettledCall
<1> QED
  BY <1>4, <1>5, <1>6 DEF Slots

\* A call that returned is settled, there is nothing left in it.
LEMMA ReturnSettled ==
  ASSUME TypeOK, NEW h \in Handlers, Return(h)
  PROVE  SettledCall(h)'
BY DEF TypeOK, Return, SettledCall

\* Every step of a handler preserves finality.
LEMMA HandlerStep2 ==
  ASSUME MarginSuffices, Inv1, Inv1', Inv2, NEW h \in Handlers, AnswerIsSettled(h),
         StartByNonce(h) \/ StartByHash(h) \/ HandlerStep(h)
  PROVE  Inv2'
<1> USE ObserverAssumption, ProviderAssumption
<1>0. /\ TypeOK /\ ChainInv /\ CallInv(h) /\ settled \in Nonces
      /\ CacheIsSettled /\ mutated = {} /\ SettledCall(h)
      /\ \A g \in Handlers : SettledCall(g)
      /\ \A a \in answers : SettledAnswer(a)
  BY DEF Inv1, Inv2, TypeOK, ObserverTypeOK
<1>a. ASSUME chain' = chain, settled' = settled, cache' = cache, mutated' = mutated,
             answers' = answers,
             \A g \in Handlers \ {h} :
               /\ pc'[g] = pc[g] /\ slot'[g] = slot[g] /\ nonce'[g] = nonce[g]
               /\ got'[g] = got[g] /\ fetched'[g] = fetched[g]
               /\ call'[g] = call[g] /\ aliased'[g] = aliased[g],
             SettledCall(h)'
      PROVE  Inv2'
  <2>1. ASSUME NEW g \in Handlers PROVE SettledCall(g)'
    BY <1>0, <1>a, SettledFrame DEF Nonces
  <2> QED
    BY <1>0, <1>a, <2>1 DEF Inv2, CacheIsSettled, CachedNonces, SettledAnswer, AnswerOf
<1>1. CASE StartByNonce(h)
  <2>1. SettledCall(h)'
    BY <1>0, <1>1 DEF StartByNonce, SettledCall, CallInv, TypeOK
  <2> QED
    BY <1>0, <1>1, <1>a, <2>1 DEF StartByNonce, observerVars, cacheVars, TypeOK
<1>2. CASE StartByHash(h)
  <2>1. SettledCall(h)'
    BY <1>0, <1>2 DEF StartByHash, SettledCall, CallInv, TypeOK
  <2> QED
    BY <1>0, <1>2, <1>a, <2>1 DEF StartByHash, observerVars, cacheVars, TypeOK
<1>3. CASE AcceptNonce(h)
  <2>1. 0 < nonce[h] /\ nonce[h] < settled
    <3>1. PICK r \in ReportableFinalNonces :
            HasLatestNonce(r) /\ nonce[h] <= LatestNonce(r)
      BY <1>3 DEF AcceptNonce
    <3>2. r <= settled + OverReport /\ OverReport <= 1 /\ r \in Int /\ OverReport \in Int
      BY <1>0, <3>1 DEF ReportableFinalNonces, MarginSuffices, nonceDelta, Nonces
    <3>3. nonce[h] \in Int /\ nonce[h] > 0 /\ settled \in Int
      BY <1>0, <1>3 DEF AcceptNonce, CallInv, TypeOK, Nonces
    <3> QED
      BY <3>1, <3>2, <3>3 DEF LatestNonce, nonceDelta
  <2>2. SettledCall(h)'
    BY <1>0, <1>3, <2>1 DEF AcceptNonce, SettledCall, CallInv, TypeOK, observerVars, AskedNonce
  <2> QED
    BY <1>0, <1>3, <1>a, <2>2 DEF AcceptNonce, observerVars, cacheVars, TypeOK
<1>4. CASE RejectNonce(h) \/ CallFails(h)
  <2>1. Return(h) /\ UNCHANGED <<observerVars, cacheVars, answers>>
    BY <1>4 DEF RejectNonce, CallFails
  <2>2. SettledCall(h)'
    BY <1>0, <2>1, ReturnSettled
  <2> QED
    BY <1>0, <1>a, <2>1, <2>2, ReturnLemma DEF observerVars, cacheVars
<1>5. CASE AnswerByHash(h)
  <2>1. PICK n \in 1 .. height : got' = [got EXCEPT ![h]["self"] = chain[n]]
    BY <1>5 DEF AnswerByHash
  <2>2. n \in Nonces /\ chain[n].nonce = n
    BY <1>0, <2>1 DEF ChainInv, TypeOK, ObserverTypeOK, Nonces
  <2>3. /\ got'[h]["self"] = chain[n] /\ pc'[h] = "lookup" /\ slot'[h] = "prev"
        /\ call'[h] = "byHash" /\ aliased'[h] = FALSE /\ ServeByHash
        /\ settled' = settled /\ chain' = chain
    BY <1>0, <1>5, <2>1 DEF AnswerByHash, TypeOK, SettledCall, Slots, observerVars
  <2>4. AskedNonce(h)' = n /\ 0 < n /\ n < settled
    BY <1>5, <2>1, <2>2, <2>3 DEF AskedNonce, AnswerIsSettled
  <2>5. SettledCall(h)'
    BY <2>3, <2>4 DEF SettledCall
  <2> QED
    BY <1>0, <1>5, <1>a, <2>5 DEF AnswerByHash, observerVars, cacheVars, TypeOK
<1>6. CASE CacheHit(h)
  <2>1. /\ Obtain(h, chain[WantedNonce(h)])
        /\ UNCHANGED <<observerVars, cacheVars, call, nonce, fetched, answers>>
        /\ pc[h] \in {"lookup", "put"}
    BY <1>0, <1>6 DEF CacheHit, IsCached, CacheIsSettled
  <2>2. SettledCall(h)'
    BY <1>0, <2>1, ObtainSettled DEF observerVars
  <2>3. \A g \in Handlers \ {h} : /\ pc'[g] = pc[g] /\ slot'[g] = slot[g]
                                  /\ got'[g] = got[g] /\ aliased'[g] = aliased[g]
    BY <1>0, <2>1 DEF Obtain, TypeOK
  <2> QED
    BY <1>a, <2>1, <2>2, <2>3 DEF observerVars, cacheVars
<1>7. CASE CacheMiss(h)
  <2>1. SettledCall(h)'
    BY <1>0, <1>7 DEF CacheMiss, SettledCall, CallInv, TypeOK, observerVars, AskedNonce
  <2> QED
    BY <1>0, <1>7, <1>a, <2>1 DEF CacheMiss, observerVars, cacheVars, TypeOK
<1>8. CASE ObserverAnswers(h)
  <2>1. SettledCall(h)'
    BY <1>0, <1>8
    DEF ObserverAnswers, SettledCall, CallInv, TypeOK, observerVars, WantedNonce, AskedNonce
  <2> QED
    BY <1>0, <1>8, <1>a, <2>1 DEF ObserverAnswers, observerVars, cacheVars, TypeOK
<1>9. CASE CacheResponse(h)
  <2> USE <1>9 DEF CacheResponse
  <2> DEFINE n == WantedNonce(h)
  <2>1. /\ Obtain(h, chain[n])
        /\ UNCHANGED <<observerVars, call, nonce, answers>>
        /\ pc[h] \in {"lookup", "put"}
    BY <1>0 DEF SettledCall
  <2>2. /\ PutInCache(n, chain[n]) /\ chain[n] \in Block
        /\ n \in Nonces /\ n <= settled
    BY <1>0, SettledWanted DEF SettledCall, CallInv
  <2>3. SettledCall(h)'
    BY <1>0, <2>1, ObtainSettled DEF observerVars
  <2>4. ASSUME NEW g \in Handlers PROVE SettledCall(g)'
    <3>1. CASE g = h
      BY <2>3, <3>1
    <3>2. CASE g # h
      <4>1. /\ pc'[g] = pc[g] /\ slot'[g] = slot[g] /\ got'[g] = got[g]
            /\ aliased'[g] = aliased[g] /\ fetched'[g] = fetched[g]
        BY <1>0, <2>1, <3>2 DEF Obtain, TypeOK
      <4>2. /\ nonce' = nonce /\ call' = call /\ chain' = chain /\ settled' = settled
        BY <2>1 DEF observerVars
      <4> QED
        BY <1>0, <4>1, <4>2, SettledFrame DEF Nonces
    <3> QED
      BY <3>1, <3>2
  <2> HIDE DEF n
  <2>5. CacheIsSettled' /\ mutated' = {}
    BY <1>0, <2>1, <2>2, PutLemma DEF CacheIsSettled, CachedNonces, observerVars
  <2> QED
    BY <1>0, <2>1, <2>4, <2>5 DEF Inv2, SettledAnswer, AnswerOf, observerVars
<1>10. CASE Simplify(h)
  <2>1. /\ Return(h) /\ cache' = cache /\ mutated' = mutated
        /\ chain' = chain /\ settled' = settled
    BY <1>0, <1>10 DEF Simplify, observerVars, SettledCall
  <2>2. ASSUME NEW a \in answers' PROVE SettledAnswer(a)
    <3>1. CASE a \in answers
      BY <1>0, <3>1
    <3>2. CASE a \notin answers
      <4>1. a = AnswerOf(nonce[h]) /\ nonce[h] \in Nonces
        BY <1>0, <1>10, <3>2 DEF Simplify, SettledCall, AnswerOf, AskedNonce, TypeOK
      <4>2. 0 < nonce[h] /\ nonce[h] < settled
        BY <1>0, <1>10, <3>2 DEF Simplify, SettledCall, AskedNonce
      <4> QED
        BY <4>1, <4>2 DEF SettledAnswer
    <3> QED
      BY <3>1, <3>2
  <2>3. ASSUME NEW g \in Handlers PROVE SettledCall(g)'
    BY <1>0, <2>1, ReturnLemma, ReturnSettled, SettledFrame DEF Nonces
  <2> QED
    BY <1>0, <2>1, <2>2, <2>3 DEF Inv2, CacheIsSettled, CachedNonces, SettledAnswer, AnswerOf
<1> QED
  BY <1>1, <1>2, <1>3, <1>4, <1>5, <1>6, <1>7, <1>8, <1>9, <1>10 DEF HandlerStep

\* After a restart nothing is cached; the answers already given stay settled.
LEMMA Restart2 == Inv2 /\ Restart => Inv2'
BY DEF Inv2, Restart, observerVars, CacheIsSettled, CachedNonces, SettledCall,
       SettledAnswer, AnswerOf

\* One step keeps finality, if an answer by hash is below the last settled block.
LEMMA Step2 ==
  ASSUME MarginSuffices, Inv1, Inv1', Inv2, [Next]_vars,
         \A h \in Handlers : AnswerIsSettled(h)
  PROVE  Inv2'
<1>1. CASE UNCHANGED vars
  BY <1>1 DEF vars, observerVars, cacheVars, handlerVars, Inv2, CacheIsSettled,
              CachedNonces, SettledCall, WantedNonce, AskedNonce, SettledAnswer, AnswerOf
<1> QED
  BY <1>1, ObserverStep2, Restart2, HandlerStep2 DEF Next

\* Inv2 holds in every reachable state.
LEMMA Invariant2 == ASSUME FinalityAssumption PROVE Spec => [](Inv1 /\ Inv2)
<1>1. Inv1 /\ Inv1' /\ Inv2 /\ [Next]_vars => Inv2'
  <2> SUFFICES ASSUME Inv1, Inv1', Inv2, [Next]_vars PROVE Inv2'
    OBVIOUS
  <2>1. ASSUME NEW h \in Handlers PROVE AnswerIsSettled(h)
    BY DEF FinalityAssumption, Inv2, SettledCall, AnswerIsSettled, AnswerByHash
  <2> QED
    BY <2>1, Step2 DEF FinalityAssumption
<1> QED
  BY <1>1, Init2, Invariant1, PTL DEF Spec
\* getLatestBlockNonce's margin keeps every block that may still be rolled back
\* out of the cache.
THEOREM CacheFinality == ASSUME FinalityAssumption PROVE Spec => []CacheIsSettled
<1>1. Inv1 /\ Inv2 => CacheIsSettled
  BY DEF Inv2
<1> QED
  BY <1>1, Invariant2, PTL

\* The three blocks a settled answer was computed from are the settled ones.
LEMMA AnswerFacts ==
  ASSUME Inv1, NEW n \in Nonces, 0 < n, n < settled
  PROVE  LET a == AnswerOf(n)
         IN  /\ a.self = chain[n] /\ a.prev = chain[n - 1] /\ a.next = chain[n + 1]
             /\ a.self.nonce = n /\ a.prev.nonce = n - 1 /\ a.next.nonce = n + 1
             /\ a.self.prev = a.prev.id /\ a.next.prev = a.self.id
             /\ n + 1 <= settled
<1>0. ChainInv /\ settled \in Nonces
  BY DEF Inv1, TypeOK, ObserverTypeOK
<1>1. /\ n - 1 \in Nonces /\ n + 1 \in Nonces
      /\ n - 1 <= settled /\ n <= settled /\ n + 1 <= settled
  BY <1>0, NeighbourNonces
<1>2. settled <= height /\ height \in Nonces /\ (n + 1) - 1 = n
  BY <1>0, ObserverAssumption DEF ChainInv, Inv1, TypeOK, ObserverTypeOK, Nonces
<1>3. n - 1 <= height /\ n <= height /\ n + 1 <= height /\ 0 < n + 1
  BY <1>0, <1>1, <1>2, ObserverAssumption DEF Nonces
<1>4. chain[n].nonce = n /\ chain[n - 1].nonce = n - 1 /\ chain[n + 1].nonce = n + 1
  BY <1>0, <1>1, <1>3 DEF ChainInv
<1>5. chain[n].prev = chain[n - 1].id /\ chain[n + 1].prev = chain[n].id
  BY <1>0, <1>1, <1>2, <1>3 DEF ChainInv
<1> QED
  BY <1>1, <1>4, <1>5 DEF AnswerOf

\* Every block that a settled answer was computed from is final.
LEMMA FinalNeighbours == Inv1 /\ Inv2 => NeighboursAreFinal
<1> SUFFICES ASSUME Inv1, Inv2, NEW a \in answers
             PROVE  \A s \in Slots : a[s].nonce <= settled /\ chain[a[s].nonce] = a[s]
  BY DEF NeighboursAreFinal
<1>1. PICK n \in Nonces : 0 < n /\ n < settled /\ a = AnswerOf(n)
  BY DEF Inv2, SettledAnswer
<1>2. settled \in Nonces /\ n - 1 <= settled /\ n <= settled /\ n + 1 <= settled
  BY <1>1, NeighbourNonces DEF Inv1, TypeOK, ObserverTypeOK
<1> QED
  BY <1>1, <1>2, AnswerFacts DEF Slots

\* "Make sure the N+1 block is final, as well": every block an answer of
\* GetBlockByNonce was computed from is final.
THEOREM NeighbourFinality == ASSUME FinalityAssumption PROVE Spec => []NeighboursAreFinal
BY FinalNeighbours, Invariant2, PTL

\* Answers of GetBlockByNonce are linked and used each other as neighbours.
THEOREM AnswerConsistency ==
  ASSUME FinalityAssumption PROVE Spec => []AnswersAreConsistent
<1>1. Inv1 /\ Inv2 => AnswersAreConsistent
  <2> SUFFICES ASSUME Inv1, Inv2 PROVE AnswersAreConsistent
    OBVIOUS
  <2>1. ASSUME NEW a \in answers
        PROVE  a.self.prev = a.prev.id /\ a.next.prev = a.self.id
    BY AnswerFacts DEF Inv2, SettledAnswer
  <2>2. ASSUME NEW a \in answers, NEW b \in answers
        PROVE  /\ a.self.nonce = b.self.nonce => a = b
               /\ a.self.nonce + 1 = b.self.nonce => a.next = b.self /\ b.prev = a.self
    <3>1. PICK m \in Nonces : 0 < m /\ m < settled /\ a = AnswerOf(m)
      BY DEF Inv2, SettledAnswer
    <3>2. PICK n \in Nonces : 0 < n /\ n < settled /\ b = AnswerOf(n)
      BY DEF Inv2, SettledAnswer
    <3>3. a.self.nonce = m /\ b.self.nonce = n
      BY <3>1, <3>2, AnswerFacts
    <3>4. CASE m + 1 = n
      <4>1. n - 1 = m
        BY <3>1, <3>2, <3>4, ObserverAssumption DEF Nonces
      <4>2. a.next = chain[m + 1] /\ b.self = chain[n] /\ b.prev = chain[n - 1]
            /\ a.self = chain[m]
        BY <3>1, <3>2, AnswerFacts
      <4>3. m # n
        BY <3>4, <3>1, ObserverAssumption DEF Nonces
      <4> QED
        BY <3>3, <3>4, <4>1, <4>2, <4>3
    <3>5. CASE m + 1 # n
      BY <3>1, <3>2, <3>3, <3>5
    <3> QED
      BY <3>4, <3>5
  <2> QED
    BY <2>1, <2>2 DEF AnswersAreConsistent
<1> QED
  BY <1>1, Invariant2, PTL
\* No step of the system touches a settled block of the observer.
LEMMA SettledBlocksStayNext ==
  ASSUME Inv1, [Next]_vars
  PROVE  /\ settled <= settled'
         /\ \A n \in Nonces : n <= settled => chain'[n] = chain[n]
<1>0. settled \in Nonces
  BY DEF Inv1, TypeOK, ObserverTypeOK
<1>1. CASE ObserverStep
  BY <1>1, SettledBlocksStay
<1>2. CASE UNCHANGED observerVars
  BY <1>0, <1>2, ObserverAssumption DEF observerVars, Nonces
<1>3. ASSUME Next, ~ObserverStep PROVE UNCHANGED observerVars
  <2>1. CASE Restart
    BY <2>1 DEF Restart
  <2>2. ASSUME NEW h \in Handlers, StartByNonce(h) \/ StartByHash(h) \/ HandlerStep(h)
        PROVE  UNCHANGED observerVars
    BY <2>2 DEF StartByNonce, StartByHash, HandlerStep, AcceptNonce, RejectNonce, AnswerByHash,
                CacheHit, CacheMiss, ObserverAnswers, CacheResponse, CallFails, Simplify
  <2> QED
    BY <1>3, <2>1, <2>2 DEF Next
<1> QED
  BY <1>1, <1>2, <1>3 DEF vars

\* While a block stays cached it never changes.
THEOREM CacheStability ==
  ASSUME FinalityAssumption PROVE Spec => CachedBlocksNeverChange
<1> DEFINE Stable == \A n \in Nonces :
                       /\ cache[n] # NoBlock /\ cache'[n] # NoBlock => cache'[n] = cache[n]
                       /\ n \in mutated' => n \in mutated
<1>1. (Inv1 /\ Inv2) /\ (Inv1 /\ Inv2)' /\ [Next]_vars => [Stable]_vars
  <2> SUFFICES ASSUME Inv1, Inv2, Inv2', [Next]_vars, NEW n \in Nonces
               PROVE  /\ cache[n] # NoBlock /\ cache'[n] # NoBlock => cache'[n] = cache[n]
                      /\ n \in mutated' => n \in mutated
    OBVIOUS
  <2>1. cache[n] # NoBlock => n <= settled /\ cache[n] = chain[n]
    BY DEF Inv2, CacheIsSettled, CachedNonces
  <2>2. cache'[n] # NoBlock => cache'[n] = chain'[n]
    BY DEF Inv2, CacheIsSettled, CachedNonces
  <2>3. n <= settled => chain'[n] = chain[n]
    BY SettledBlocksStayNext
  <2>4. mutated' = {}
    BY DEF Inv2
  <2> QED
    BY <2>1, <2>2, <2>3, <2>4
<1> QED
  BY <1>1, Invariant2, PTL DEF Spec, CachedBlocksNeverChange

-----------------------------------------------------------------------------
(* The ledger that GetBlockByNonce implements. *)

SettledLedger == [i \in 1 .. settled + 1 |-> chain[i - 1]]

\* The settled blocks are a sequence of blocks, genesis first.
LEMMA LedgerFacts ==
  ASSUME Inv1
  PROVE  /\ SettledLedger \in Seq(Block) /\ Len(SettledLedger) = settled + 1
         /\ \A n \in Nonces : n <= settled => SettledLedger[n + 1] = chain[n]
<1>0. settled \in Nat /\ settled <= height /\ height \in Nonces /\ settled \in Nonces
  BY ObserverAssumption DEF Inv1, TypeOK, ObserverTypeOK, ChainInv, Nonces
<1>1. ASSUME NEW i \in 1 .. settled + 1 PROVE chain[i - 1] \in Block
  <2>1. i - 1 \in Nonces /\ i - 1 <= height
    BY <1>0, ObserverAssumption DEF Nonces
  <2> QED
    BY <2>1 DEF Inv1, ChainInv
<1>2. SettledLedger \in [1 .. settled + 1 -> Block]
  BY <1>1 DEF SettledLedger
<1>3. settled + 1 \in Nat
  BY <1>0
<1>4. SettledLedger \in Seq(Block) /\ Len(SettledLedger) = settled + 1
  BY <1>2, <1>3
<1>5. ASSUME NEW n \in Nonces, n <= settled PROVE SettledLedger[n + 1] = chain[n]
  <2>1. n + 1 \in 1 .. settled + 1 /\ (n + 1) - 1 = n
    BY <1>0, <1>5, ObserverAssumption DEF Nonces
  <2> QED
    BY <2>1 DEF SettledLedger
<1> QED
  BY <1>4, <1>5

\* Initially the ledger is the genesis block alone.
LEMMA LedgerInit == Init => Ledger!Init
<1> SUFFICES ASSUME Init PROVE Ledger!Init
  OBVIOUS
<1>1. settled = 0 /\ answers = {} /\ chain[0] = Genesis
  BY ObserverAssumption DEF Init, ObserverInit, Nonces
<1>2. [i \in 1 .. settled + 1 |-> chain[i - 1]] = <<Genesis>>
  BY <1>1
<1> QED
  BY <1>1, <1>2 DEF Ledger!Init
\* Settling a block appends it to the ledger.
LEMMA LedgerExtend ==
  ASSUME Inv1, Inv1', ObserverStep, SettleBlock
  PROVE  Ledger!Extend
<1>0. /\ settled \in Nat /\ settled' = settled + 1 /\ settled + 1 <= height
      /\ settled + 1 \in Nonces /\ settled \in Nonces /\ (settled + 1) - 1 = settled
      /\ chain' = chain /\ answers' = answers
  BY ObserverAssumption
  DEF SettleBlock, Inv1, TypeOK, ObserverTypeOK, ChainInv, Nonces, ObserverStep
<1> DEFINE b == chain[settled + 1]
<1>1. b \in Block /\ b.prev = chain[settled].id
  BY <1>0 DEF Inv1, ChainInv
<1>2. /\ SettledLedger \in Seq(Block) /\ Len(SettledLedger) = settled + 1
      /\ SettledLedger[settled + 1] = chain[settled]
  BY <1>0, LedgerFacts
<1>3. SettledLedger' = Append(SettledLedger, b)
  <2>1. SettledLedger' = [i \in 1 .. (settled + 1) + 1 |-> chain[i - 1]]
    BY <1>0 DEF SettledLedger
  <2>2. Append(SettledLedger, b) =
          [i \in 1 .. (settled + 1) + 1 |->
             IF i = (settled + 1) + 1 THEN b ELSE SettledLedger[i]]
    BY <1>1, <1>2
  <2>3. ASSUME NEW i \in 1 .. (settled + 1) + 1
        PROVE  chain[i - 1] = IF i = (settled + 1) + 1 THEN b ELSE SettledLedger[i]
    BY <1>0 DEF SettledLedger
  <2> QED
    BY <2>1, <2>2, <2>3
<1>4. b.prev = SettledLedger[Len(SettledLedger)].id
  BY <1>1, <1>2
<1> QED
  BY <1>0, <1>1, <1>3, <1>4 DEF Ledger!Extend, SettledLedger

\* The other steps leave the ledger alone.
LEMMA LedgerStays ==
  ASSUME Inv1, [Next]_vars, settled' = settled
  PROVE  SettledLedger' = SettledLedger
<1>1. settled \in Nonces /\ \A n \in Nonces : n <= settled => chain'[n] = chain[n]
  BY SettledBlocksStayNext DEF Inv1, TypeOK, ObserverTypeOK
<1>2. ASSUME NEW i \in 1 .. settled + 1 PROVE chain'[i - 1] = chain[i - 1]
  <2>1. i - 1 \in Nonces /\ i - 1 <= settled
    BY <1>1, ObserverAssumption DEF Nonces
  <2> QED
    BY <1>1, <2>1
<1> QED
  BY <1>2 DEF SettledLedger

\* Answering a call serves an entry of the ledger that has both neighbours.
LEMMA LedgerServe ==
  ASSUME Inv1, Inv2, NEW h \in Handlers, Simplify(h), answers' # answers
  PROVE  Ledger!Serve
<1>0. /\ nonce[h] \in Nonces /\ 0 < nonce[h] /\ nonce[h] < settled
      /\ settled \in Nonces /\ SettledCall(h) /\ pc[h] = "simplify"
      /\ settled' = settled /\ chain' = chain
      /\ call[h] = "byNonce" /\ AskedNonce(h) = nonce[h]
  BY DEF Inv1, Inv2, TypeOK, ObserverTypeOK, Simplify, SettledCall, AskedNonce, observerVars
<1>1. answers' = answers \cup {AnswerOf(nonce[h])}
  BY <1>0 DEF Simplify, SettledCall, AnswerOf
<1> DEFINE i == nonce[h] + 1
<1>2. /\ i - 1 = nonce[h] /\ i + 1 = (nonce[h] + 1) + 1 /\ nonce[h] = (nonce[h] - 1) + 1
      /\ nonce[h] - 1 \in Nonces /\ nonce[h] + 1 \in Nonces
      /\ nonce[h] - 1 <= settled /\ nonce[h] <= settled /\ nonce[h] + 1 <= settled
  BY <1>0, NeighbourNonces, ObserverAssumption DEF Nonces
<1>3. /\ SettledLedger[i] = chain[nonce[h]]
      /\ SettledLedger[i - 1] = chain[nonce[h] - 1]
      /\ SettledLedger[i + 1] = chain[nonce[h] + 1]
      /\ Len(SettledLedger) = settled + 1
  BY <1>0, <1>2, LedgerFacts
<1>4. i \in 2 .. Len(SettledLedger) - 1
  BY <1>0, <1>2, <1>3, ObserverAssumption DEF Nonces
<1>5. SettledLedger' = SettledLedger
  BY <1>0 DEF SettledLedger
<1>6. answers' = answers \cup {[self |-> SettledLedger[i],
                               prev |-> SettledLedger[i - 1],
                               next |-> SettledLedger[i + 1]]}
  BY <1>1, <1>3 DEF AnswerOf
<1> HIDE DEF i
<1> QED
  BY <1>4, <1>5, <1>6 DEF Ledger!Serve, SettledLedger

\* GetBlockByNonce, its cache and its handlers implement one append-only ledger
\* of linked blocks, whatever the observer rolls back meanwhile.
THEOREM LedgerRefinement == ASSUME FinalityAssumption PROVE Spec => ImplementsLedger
<1>1. (Inv1 /\ Inv2) /\ (Inv1 /\ Inv2)' /\ [Next]_vars => [Ledger!Next]_(Ledger!ledgerVars)
  <2> SUFFICES ASSUME Inv1, Inv2, Inv1', [Next]_vars
               PROVE  [Ledger!Next]_(Ledger!ledgerVars)
    OBVIOUS
  <2> USE DEF Ledger!ledgerVars
  <2>1. ASSUME settled' = settled, answers' = answers
        PROVE  UNCHANGED Ledger!ledgerVars
    BY <2>1, LedgerStays DEF SettledLedger
  <2>2. CASE ObserverStep
    <3>1. CASE SettleBlock
      BY <2>2, <3>1, LedgerExtend DEF Ledger!Next
    <3>2. CASE ProduceBlock \/ RollbackBlock
      BY <2>1, <2>2, <3>2 DEF ObserverStep, ProduceBlock, RollbackBlock
    <3> QED
      BY <2>2, <3>1, <3>2 DEF ObserverStep, ObserverNext
  <2>3. CASE Restart
    BY <2>1, <2>3 DEF Restart, observerVars
  <2>4. ASSUME NEW h \in Handlers, StartByNonce(h) \/ StartByHash(h) \/ HandlerStep(h)
        PROVE  [Ledger!Next]_(Ledger!ledgerVars)
    <3>1. CASE Simplify(h)
      <4>1. settled' = settled
        BY <3>1 DEF Simplify, observerVars
      <4> QED
        BY <2>1, <3>1, <4>1, LedgerServe DEF Ledger!Next
    <3>2. CASE ~Simplify(h)
      BY <2>1, <2>4, <3>2
      DEF StartByNonce, StartByHash, HandlerStep, AcceptNonce, RejectNonce, AnswerByHash,
          CacheHit, CacheMiss, ObserverAnswers, CacheResponse, CallFails, observerVars
    <3> QED
      BY <3>1, <3>2
  <2>5. CASE UNCHANGED vars
    BY <2>1, <2>5 DEF vars, observerVars
  <2> QED
    BY <2>2, <2>3, <2>4, <2>5 DEF Next
<1> QED
  BY <1>1, LedgerInit, Invariant2, PTL DEF Spec, ImplementsLedger, Ledger!Spec
=============================================================================
