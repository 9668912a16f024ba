------------------------- MODULE SyncingClientProofs -------------------------
(***************************************************************************)
(* Proofs about SyncingClient, for any number of clients and blocks.       *)
(*                                                                         *)
(* NetworkProviderProofs shows that blocks served by nonce are settled, if *)
(* nobody asks by hash.  Here others do ask by hash, but for blocks that   *)
(* were reported: these are below the last settled one, so that their      *)
(* neighbours are settled as well, and do no harm to the cache.            *)
(* From this follows what the syncing client relies on (ClientInv).        *)
(***************************************************************************)
EXTENDS SyncingClient, NetworkProviderProofs

-----------------------------------------------------------------------------
(* The provider's part *)

\* The client only adds to NetworkProvider.
LEMMA ProviderSteps ==
  ASSUME [SyncNext]_allVars
  PROVE  [Next]_vars
BY SyncingClientAssumption DEF SyncNext, allVars, Next, MiddlewareRestarts, StatusArrives,
  LatestBlockArrives, StatusFails, SyncGenesis, SyncNextBlock, BlockArrives, ClientCallStep,
  ReadByHash, OtherCallStep, ReportedBlockIsAnswered, HandlerStep, Others

\* What holds of a block service holds of one that a syncing client uses.
THEOREM ImplementsProvider == SyncSpec => Spec
<1>1. SyncInit => Init
  BY DEF SyncInit
<1> QED
  BY <1>1, ProviderSteps, PTL DEF SyncSpec, Spec

\* Blocks that are produced later have higher ids: a hash belongs to one block of a chain.
IdsInv ==
  /\ \A n \in Nonces : n <= height => chain[n].id \in Nat /\ chain[n].id <= produced
  /\ \A m, n \in Nonces : m < n /\ n <= height => chain[m].id < chain[n].id

LEMMA IdsStep ==
  ASSUME Inv1, IdsInv, [Next]_vars
  PROVE  IdsInv'
<1> USE ObserverAssumption
<1>0. /\ chain \in [Nonces -> Block \cup {NoBlock}] /\ height \in Nonces /\ produced \in Nat
  BY DEF Inv1, TypeOK, ObserverTypeOK
<1>1. CASE UNCHANGED observerVars
  BY <1>1 DEF observerVars, IdsInv
<1>2. CASE ProduceBlock
  <2> DEFINE b == [nonce |-> height + 1, id |-> produced + 1, prev |-> chain[height].id]
  <2>1. b.id = produced + 1
    OBVIOUS
  <2> HIDE DEF b
  <2>2. /\ height' = height + 1 /\ height + 1 \in Nonces /\ produced' = produced + 1
        /\ chain' = [chain EXCEPT ![height + 1] = b]
    BY <1>0, <1>2 DEF ProduceBlock, Nonces, b
  <2>3. /\ chain'[height + 1].id = produced + 1
        /\ \A n \in Nonces : n <= height => chain'[n] = chain[n]
    BY <1>0, <2>1, <2>2 DEF Nonces
  <2>4. \A n \in Nonces : n <= height' => n <= height \/ n = height + 1
    BY <1>0, <2>2 DEF Nonces
  <2>5. ASSUME NEW n \in Nonces, n <= height'
        PROVE  chain'[n].id \in Nat /\ chain'[n].id <= produced'
    BY <1>0, <2>2, <2>3, <2>4, <2>5 DEF IdsInv
  <2>6. ASSUME NEW m \in Nonces, NEW n \in Nonces, m < n, n <= height'
        PROVE  chain'[m].id < chain'[n].id
    <3>1. m <= height
      BY <1>0, <2>2, <2>6 DEF Nonces
    <3>2. chain'[m].id = chain[m].id /\ chain[m].id \in Nat /\ chain[m].id <= produced
      BY <2>3, <3>1 DEF IdsInv
    <3>3. CASE n <= height
      BY <2>3, <2>6, <3>2, <3>3 DEF IdsInv
    <3>4. CASE n = height + 1
      BY <1>0, <2>3, <3>2, <3>4
    <3> QED
      BY <2>4, <2>6, <3>3, <3>4
  <2> QED
    BY <2>5, <2>6 DEF IdsInv
<1>3. CASE RollbackBlock
  <2>1. /\ height' = height - 1 /\ produced' = produced
        /\ chain' = [chain EXCEPT ![height] = NoBlock]
    BY <1>3 DEF RollbackBlock
  <2>2. \A n \in Nonces : n <= height' => n <= height /\ chain'[n] = chain[n]
    BY <1>0, <2>1 DEF Nonces
  <2>3. \A m, n \in Nonces : m < n /\ n <= height' => m <= height'
    BY <1>0, <2>1 DEF Nonces
  <2> QED
    BY <2>1, <2>2, <2>3 DEF IdsInv
<1>4. CASE SettleBlock
  BY <1>4 DEF SettleBlock, IdsInv
<1>5. ASSUME NEW h \in Handlers, StartByNonce(h) \/ StartByHash(h) \/ HandlerStep(h)
      PROVE  UNCHANGED observerVars
  BY <1>5 DEF StartByNonce, StartByHash, HandlerStep, AcceptNonce, RejectNonce, AnswerByHash,
    CacheHit, CacheMiss, ObserverAnswers, CacheResponse, CallFails, Simplify
<1> QED
  BY <1>1, <1>2, <1>3, <1>4, <1>5 DEF Next, ObserverStep, ObserverNext, Restart, vars

-----------------------------------------------------------------------------
(* The client's part *)

\* The client's chain is the settled chain, with the genesis block of the flag.
SyncedBlock(i) ==
  IF i = 1 THEN synced[i] = GenesisIdentifier
  ELSE i - 1 < settled /\ synced[i] = blockToIdentifier(chain[i - 1])

\* What is reported is below the last settled block, and the client's call is for its next block.
ClientInv ==
  /\ statusPc \in {"idle", "latest"}
  /\ latest \in Nonces
  /\ statusPc = "latest" => 0 < latest /\ latest < settled
  /\ tip # NoBlock => \E n \in Nonces : 0 < n /\ n < settled /\ tip = chain[n]
  /\ synced \in Seq(Identifier)
  /\ \A i \in 1 .. Len(synced) : SyncedBlock(i)
  /\ pc[Client] # "idle" =>
       synced # <<>> /\ nonce[Client] = NextIndex /\ call[Client] = "byNonce"

\* A block that was reported is below the last settled one: so is its next block settled.
LEMMA ReportedIsSettled ==
  ASSUME Inv1, ClientInv, NEW n \in 1 .. height, IsReported(chain[n])
  PROVE  n < settled
<1> USE ObserverAssumption
<1>1. n \in Nonces /\ settled \in Nonces /\ height \in Nonces /\ settled <= height
  BY DEF Inv1, TypeOK, ObserverTypeOK, ChainInv, Nonces
<1>2. \A m \in Nonces : m <= height => chain[m].nonce = m
  BY DEF Inv1, ChainInv
<1>3. CASE chain[n] = tip
  <2>1. PICK m \in Nonces : m < settled /\ tip = chain[m]
    BY <1>3 DEF ClientInv, IsReported
  <2>2. chain[m].nonce = m /\ chain[n].nonce = n
    BY <1>1, <1>2, <2>1 DEF Nonces
  <2> QED
    BY <1>3, <2>1, <2>2
<1>4. ASSUME NEW i \in 1 .. Len(synced), synced[i] = blockToIdentifier(chain[n])
      PROVE  n < settled
  <2>1. SyncedBlock(i) /\ synced[i].index = n
    BY <1>1, <1>2, <1>4 DEF ClientInv, blockToIdentifier
  <2>2. i # 1
    BY <2>1 DEF SyncedBlock, GenesisIdentifier
  <2>3. i - 1 < settled /\ synced[i] = blockToIdentifier(chain[i - 1])
    BY <2>1, <2>2 DEF SyncedBlock
  <2>4. i - 1 \in Nonces /\ i - 1 <= height
    BY <1>1, <2>2, <2>3 DEF Nonces
  <2>5. synced[i].index = i - 1
    BY <1>2, <2>3, <2>4 DEF blockToIdentifier
  <2> QED
    BY <2>1, <2>3, <2>5
<1> QED
  BY <1>3, <1>4 DEF IsReported

\* What another client reads by hash is below the last settled block.
LEMMA OtherAnswers ==
  ASSUME Inv1, ClientInv, NEW h \in Handlers, OtherCallStep(h)
  PROVE  AnswerIsSettled(h)
<1>1. CASE ReportedBlockIsAnswered(h)
  <2>1. PICK n \in 1 .. height : got' = [got EXCEPT ![h]["self"] = chain[n]]
    BY <1>1 DEF ReportedBlockIsAnswered, AnswerByHash
  <2>2. got'[h]["self"] = chain[n]
    BY <2>1 DEF Inv1, TypeOK, Slots
  <2>3. IsReported(chain[n])
    BY <1>1, <2>2 DEF ReportedBlockIsAnswered
  <2>4. n \in Nonces /\ n <= height
    BY ObserverAssumption DEF Inv1, TypeOK, ObserverTypeOK, Nonces
  <2>5. chain[n].nonce = n
    BY <2>4 DEF Inv1, ChainInv
  <2> QED
    BY <2>2, <2>3, <2>5, ReportedIsSettled DEF AnswerIsSettled
<1>2. CASE CacheHit(h) \/ CacheMiss(h) \/ ObserverAnswers(h) \/ CacheResponse(h) \/ Simplify(h)
  BY <1>2 DEF CacheHit, CacheMiss, ObserverAnswers, CacheResponse, Simplify,
              AnswerIsSettled, AnswerByHash
<1>3. CASE CallFails(h)
  BY <1>3 DEF CallFails, Return, AnswerIsSettled, AnswerByHash, Inv1, TypeOK
<1> QED
  BY <1>1, <1>2, <1>3 DEF OtherCallStep

\* The client does not ask by hash.
LEMMA ClientAnswers ==
  ASSUME ClientInv, SettledCall(Client)
  PROVE  AnswerIsSettled(Client)
BY DEF ClientInv, SettledCall, AnswerIsSettled, AnswerByHash

\* Blocks served stay settled, though others ask by hash.
LEMMA SettledStep ==
  ASSUME MarginSuffices, Inv1, Inv1', Inv2, ClientInv, [SyncNext]_allVars
  PROVE  Inv2'
<1> USE SyncingClientAssumption
<1>1. CASE ObserverStep
  BY <1>1, ObserverStep2
<1>2. CASE MiddlewareRestarts
  BY <1>2, Restart2 DEF MiddlewareRestarts
<1>3. CASE UNCHANGED vars
  BY <1>3 DEF vars, observerVars, cacheVars, handlerVars, Inv2, CacheIsSettled,
              CachedNonces, SettledCall, WantedNonce, AskedNonce, SettledAnswer, AnswerOf
<1>4. CASE SyncNextBlock \/ BlockArrives \/ ClientCallStep
  <2>1. AnswerIsSettled(Client)
    BY ClientAnswers DEF Inv2
  <2>2. StartByNonce(Client) \/ HandlerStep(Client)
    BY <1>4 DEF SyncNextBlock, BlockArrives, ClientCallStep, HandlerStep
  <2> QED
    BY <2>1, <2>2, HandlerStep2
<1>5. ASSUME NEW h \in Others, ReadByHash(h) PROVE Inv2'
  <2>1. h \in Handlers /\ StartByHash(h) /\ AnswerIsSettled(h)
    BY <1>5 DEF Others, ReadByHash, StartByHash, AnswerIsSettled, AnswerByHash
  <2> QED
    BY <2>1, HandlerStep2
<1>6. ASSUME NEW h \in Others, OtherCallStep(h) PROVE Inv2'
  <2>1. h \in Handlers /\ AnswerIsSettled(h) /\ HandlerStep(h)
    BY <1>6, OtherAnswers DEF Others, OtherCallStep, ReportedBlockIsAnswered, HandlerStep
  <2> QED
    BY <2>1, HandlerStep2
<1> QED
  BY <1>1, <1>2, <1>3, <1>4, <1>5, <1>6
  DEF SyncNext, allVars, StatusArrives, LatestBlockArrives, StatusFails, SyncGenesis

\* Initially nothing was reported and the client has no block.
LEMMA ClientInit == SyncInit => ClientInv
BY ObserverAssumption, SyncingClientAssumption
DEF SyncInit, ClientInv, Init, HandlersInit, Nonces

\* Settling, producing or rolling back other blocks does not touch what was reported.
LEMMA ClientFrame ==
  ASSUME Inv1, ClientInv,
         settled' \in Nonces, settled <= settled',
         \A n \in Nonces : n <= settled => chain'[n] = chain[n],
         UNCHANGED clientVars,
         pc'[Client] # "idle" =>
           pc[Client] # "idle" /\ nonce'[Client] = nonce[Client] /\ call'[Client] = call[Client]
  PROVE  ClientInv'
<1> USE ObserverAssumption
<1>0. settled \in Nonces /\ UNCHANGED <<statusPc, latest, tip, synced>>
  BY DEF Inv1, TypeOK, ObserverTypeOK, clientVars
<1>1. statusPc' = "latest" => 0 < latest' /\ latest' < settled'
  BY <1>0 DEF ClientInv, Nonces
<1>2. ASSUME tip' # NoBlock
      PROVE  \E n \in Nonces : 0 < n /\ n < settled' /\ tip' = chain'[n]
  <2>1. PICK n \in Nonces : 0 < n /\ n < settled /\ tip = chain[n]
    BY <1>0, <1>2 DEF ClientInv
  <2>2. n < settled' /\ chain'[n] = chain[n]
    BY <1>0, <2>1 DEF Nonces
  <2> QED
    BY <1>0, <2>1, <2>2
<1>3. ASSUME NEW i \in 1 .. Len(synced) PROVE SyncedBlock(i)'
  <2>1. SyncedBlock(i)
    BY DEF ClientInv
  <2>2. CASE i = 1
    BY <1>0, <2>1, <2>2 DEF SyncedBlock, GenesisIdentifier
  <2>3. CASE i # 1
    <3>1. i - 1 \in Nonces /\ i - 1 < settled /\ i - 1 < settled'
      BY <1>0, <2>1, <2>3 DEF SyncedBlock, Nonces
    <3>2. chain'[i - 1] = chain[i - 1]
      BY <1>0, <3>1 DEF Nonces
    <3> QED
      BY <1>0, <2>1, <2>3, <3>1, <3>2 DEF SyncedBlock, blockToIdentifier
  <2> QED
    BY <2>2, <2>3
<1> QED
  BY <1>0, <1>1, <1>2, <1>3 DEF ClientInv, NextIndex

\* The block that the client gets follows its last one.
LEMMA ClientBlock ==
  ASSUME Inv1, Inv2, ClientInv, BlockArrives
  PROVE  LET b == got[Client]["self"]
         IN  /\ synced # <<>>
             /\ Len(synced) \in Nonces /\ Len(synced) < settled
             /\ b = chain[Len(synced)]
             /\ ParentIdentifier(b) = Last
             /\ blockToIdentifier(b) \in Identifier
             /\ synced' = Append(synced, blockToIdentifier(b))
<1> USE ObserverAssumption, SyncingClientAssumption
<1> DEFINE k == Len(synced)
           b == got[Client]["self"]
<1>1. /\ pc[Client] = "simplify" /\ synced # <<>> /\ nonce[Client] = k
      /\ call[Client] = "byNonce" /\ SettledCall(Client)
      /\ k \in Nat /\ k >= 1 /\ synced \in Seq(Identifier)
  BY DEF BlockArrives, Simplify, ClientInv, NextIndex, Inv2
<1>2. /\ k \in Nonces /\ k < settled /\ b = chain[k]
      /\ settled <= height /\ settled \in Nonces /\ height \in Nonces
  BY <1>1 DEF SettledCall, AskedNonce, Inv1, TypeOK, ObserverTypeOK, ChainInv
<1>3. /\ b \in Block /\ b.nonce = k /\ b.prev = chain[k - 1].id
      /\ k - 1 \in Nonces /\ chain[k - 1] \in Block /\ chain[k - 1].nonce = k - 1
  BY <1>1, <1>2 DEF Inv1, ChainInv, Nonces
<1>4. SyncedBlock(k) /\ Last = synced[k]
  BY <1>1 DEF ClientInv, Last
<1>5. ParentIdentifier(b) = Last
  <2>1. CASE k = 1
    BY <1>3, <1>4, <2>1 DEF ParentIdentifier, SyncedBlock
  <2>2. CASE k # 1
    BY <1>3, <1>4, <2>2 DEF ParentIdentifier, SyncedBlock, blockToIdentifier
  <2> QED
    BY <2>1, <2>2
<1>6. blockToIdentifier(b) \in Identifier
  BY <1>3 DEF blockToIdentifier, Identifier, Block
<1>7. synced' = Append(synced, blockToIdentifier(b))
  BY <1>5 DEF BlockArrives
<1> QED
  BY <1>1, <1>2, <1>5, <1>6, <1>7

\* Every step keeps what is reported and what the client has on the settled chain.
LEMMA ClientStep ==
  ASSUME MarginSuffices, Inv1, Inv2, ClientInv, [SyncNext]_allVars
  PROVE  ClientInv'
<1> USE ObserverAssumption, SyncingClientAssumption
<1>0. /\ settled \in Nonces /\ settled <= height /\ height \in Nonces
      /\ synced \in Seq(Identifier) /\ \A i \in 1 .. Len(synced) : SyncedBlock(i)
      /\ Client \in Handlers
      /\ \A n \in Nonces : n <= height => chain[n].nonce = n /\ chain[n] \in Block
  BY DEF Inv1, TypeOK, ObserverTypeOK, ChainInv, ClientInv
<1>a. ASSUME UNCHANGED observerVars, UNCHANGED clientVars,
             pc'[Client] # "idle" =>
               /\ pc[Client] # "idle"
               /\ nonce'[Client] = nonce[Client] /\ call'[Client] = call[Client]
      PROVE  ClientInv'
  BY <1>0, <1>a, ClientFrame DEF observerVars, Nonces
<1>1. CASE ObserverStep /\ UNCHANGED clientVars
  <2>1. UNCHANGED <<pc, nonce, call>>
    BY <1>1 DEF ObserverStep, handlerVars
  <2> QED
    BY <1>1, <2>1, SettledBlocksStay, ClientFrame
<1>2. CASE MiddlewareRestarts
  <2>1. /\ UNCHANGED <<chain, settled, tip, synced>> /\ statusPc' = "idle" /\ latest' = 0
        /\ pc'[Client] = "idle" /\ 0 \in Nonces
    BY <1>2 DEF MiddlewareRestarts, Restart, observerVars, Nonces
  <2> QED
    BY <2>1 DEF ClientInv, SyncedBlock, GenesisIdentifier, blockToIdentifier
<1>3. CASE StatusArrives
  <2>1. PICK r \in ReportableFinalNonces : HasLatestNonce(r) /\ latest' = LatestNonce(r)
    BY <1>3 DEF StatusArrives
  <2>2. r <= settled + OverReport /\ OverReport <= 1 /\ r \in Int /\ r > 2
        /\ latest' = r - 2 /\ OverReport \in Int /\ settled \in Int
    BY <1>0, <2>1
    DEF ReportableFinalNonces, MarginSuffices, HasLatestNonce, LatestNonce, nonceDelta, Nonces
  <2>3. latest' \in Nonces /\ 0 < latest' /\ latest' < settled
    BY <1>0, <2>2 DEF Nonces
  <2>4. UNCHANGED <<chain, settled, tip, synced, pc, nonce, call>> /\ statusPc' = "latest"
    BY <1>3 DEF StatusArrives, vars, observerVars, handlerVars
  <2> QED
    BY <2>3, <2>4
    DEF ClientInv, SyncedBlock, GenesisIdentifier, blockToIdentifier, NextIndex
<1>4. CASE LatestBlockArrives
  <2>1. /\ UNCHANGED <<chain, settled, synced, pc, nonce, call>>
        /\ statusPc' = "idle" /\ latest' = 0 /\ 0 \in Nonces
        /\ tip' = chain[latest] /\ latest \in Nonces /\ 0 < latest /\ latest < settled
    BY <1>4 DEF LatestBlockArrives, vars, observerVars, handlerVars, ClientInv, Nonces
  <2> QED
    BY <2>1 DEF ClientInv, SyncedBlock, GenesisIdentifier, blockToIdentifier, NextIndex
<1>5. CASE StatusFails
  <2>1. /\ UNCHANGED <<chain, settled, tip, synced, pc, nonce, call>>
        /\ statusPc' = "idle" /\ latest' = 0 /\ 0 \in Nonces
    BY <1>5 DEF StatusFails, vars, observerVars, handlerVars, Nonces
  <2> QED
    BY <2>1 DEF ClientInv, SyncedBlock, GenesisIdentifier, blockToIdentifier, NextIndex
<1>6. CASE SyncGenesis
  <2>1. /\ UNCHANGED <<chain, settled, tip, statusPc, latest, pc, nonce, call>>
        /\ synced = <<>> /\ synced' = <<GenesisIdentifier>>
    BY <1>6 DEF SyncGenesis, vars, observerVars, handlerVars
  <2>2. synced' \in Seq(Identifier) /\ Len(synced') = 1 /\ synced'[1] = GenesisIdentifier
    BY <2>1 DEF GenesisIdentifier, Identifier, Nonces
  <2>3. GenesisIdentifier' = GenesisIdentifier
    BY DEF GenesisIdentifier
  <2>4. \A i \in 1 .. Len(synced') : SyncedBlock(i)'
    BY <2>2, <2>3 DEF SyncedBlock
  <2>5. pc'[Client] = "idle"
    BY <2>1 DEF ClientInv
  <2> QED
    BY <2>1, <2>2, <2>4, <2>5 DEF ClientInv
<1>7. CASE SyncNextBlock
  <2>1. /\ UNCHANGED <<chain, settled, tip, statusPc, latest, synced, call>>
        /\ synced # <<>> /\ nonce'[Client] = NextIndex /\ pc[Client] = "idle"
        /\ pc'[Client] = "status"
    BY <1>0, <1>7 DEF SyncNextBlock, StartByNonce, clientVars, observerVars, Inv1, TypeOK
  <2>2. call[Client] = "byNonce"
    <3>1. SettledCall(Client) /\ CallInv(Client)
      BY <1>0 DEF Inv1, Inv2
    <3> QED
      BY <2>1, <3>1 DEF SettledCall, CallInv
  <2> QED
    BY <2>1, <2>2
    DEF ClientInv, SyncedBlock, GenesisIdentifier, blockToIdentifier, NextIndex
<1>8. CASE BlockArrives
  <2> DEFINE k == Len(synced)
  <2>1. /\ synced # <<>> /\ k \in Nonces /\ k < settled
        /\ blockToIdentifier(chain[k]) \in Identifier
        /\ synced' = Append(synced, blockToIdentifier(chain[k]))
    BY <1>8, ClientBlock
  <2>2. /\ synced' \in Seq(Identifier) /\ Len(synced') = k + 1
        /\ synced'[k + 1] = blockToIdentifier(chain[k])
        /\ \A i \in 1 .. k : synced'[i] = synced[i]
        /\ k >= 1
    BY <1>0, <2>1
  <2>3. UNCHANGED <<chain, settled, tip, statusPc, latest>> /\ pc'[Client] = "idle"
    BY <1>0, <1>8
    DEF BlockArrives, Simplify, Return, observerVars, Inv1, TypeOK
  <2>4. ASSUME NEW i \in 1 .. Len(synced') PROVE SyncedBlock(i)'
    <3>1. CASE i = k + 1
      BY <2>1, <2>2, <2>3, <3>1 DEF SyncedBlock, blockToIdentifier
    <3>2. CASE i # k + 1
      <4>1. i \in 1 .. k
        BY <2>1, <2>2, <3>2
      <4> QED
        BY <1>0, <2>2, <2>3, <4>1 DEF SyncedBlock, GenesisIdentifier, blockToIdentifier
    <3> QED
      BY <3>1, <3>2
  <2> QED
    BY <2>2, <2>3, <2>4 DEF ClientInv
<1>9. CASE ClientCallStep
  <2>1. UNCHANGED observerVars /\ UNCHANGED clientVars
    BY <1>9 DEF ClientCallStep, AcceptNonce, RejectNonce, CacheHit, CacheMiss, ObserverAnswers,
      CacheResponse, CallFails
  <2>2. pc'[Client] # "idle" =>
          /\ pc[Client] # "idle"
          /\ nonce'[Client] = nonce[Client] /\ call'[Client] = call[Client]
    BY <1>0, <1>9 DEF ClientCallStep, AcceptNonce, RejectNonce, CacheHit, CacheMiss,
      ObserverAnswers, CacheResponse, CallFails, Return, AtObserver, Inv1, TypeOK
  <2> QED
    BY <1>a, <2>1, <2>2
<1>10. ASSUME NEW h \in Others, ReadByHash(h) \/ OtherCallStep(h) PROVE ClientInv'
  <2>1. UNCHANGED observerVars /\ UNCHANGED clientVars /\ h \in Handlers /\ h # Client
    BY <1>10 DEF Others, ReadByHash, OtherCallStep, ReportedBlockIsAnswered, StartByHash,
      AnswerByHash, CacheHit, CacheMiss, ObserverAnswers, CacheResponse, CallFails, Simplify
  <2>2. /\ pc'[Client] = pc[Client] /\ nonce'[Client] = nonce[Client]
        /\ call'[Client] = call[Client]
    BY <1>0, <1>10, <2>1 DEF ReadByHash, OtherCallStep, ReportedBlockIsAnswered, StartByHash,
      AnswerByHash, CacheHit, CacheMiss, ObserverAnswers, CacheResponse, CallFails, Simplify,
      Obtain, Return, Inv1, TypeOK
  <2> QED
    BY <1>a, <2>1, <2>2
<1>11. CASE UNCHANGED allVars
  BY <1>a, <1>11 DEF allVars, vars, handlerVars
<1> QED
  BY <1>1, <1>2, <1>3, <1>4, <1>5, <1>6, <1>7, <1>8, <1>9, <1>10, <1>11 DEF SyncNext

-----------------------------------------------------------------------------
(* What the client relies on *)

\* Blocks keep their ids apart in every reachable state.
LEMMA IdsInvariant == SyncSpec => []IdsInv
<1>1. Init => IdsInv
  BY ObserverAssumption DEF Init, ObserverInit, Genesis, IdsInv, Nonces
<1> QED
  BY <1>1, IdsStep, Invariant1, ImplementsProvider, PTL DEF Spec

\* Inv1, Inv2 and ClientInv hold in every reachable state.
LEMMA SyncInvariant == ASSUME MarginSuffices PROVE SyncSpec => [](Inv1 /\ Inv2 /\ ClientInv)
<1>1. SyncInit => Inv2
  BY Init2 DEF SyncInit
<1>2. Inv1 /\ Inv1' /\ Inv2 /\ ClientInv /\ [SyncNext]_allVars => Inv2' /\ ClientInv'
  BY SettledStep, ClientStep
<1> QED
  BY <1>1, <1>2, ClientInit, Invariant1, ImplementsProvider, PTL DEF SyncSpec

\* Every variable of the client and of the middleware keeps its type.
THEOREM SyncTypes == ASSUME MarginSuffices PROVE SyncSpec => []SyncTypeOK
<1>1. Inv1 /\ ClientInv => SyncTypeOK
  <2> SUFFICES ASSUME Inv1, ClientInv PROVE SyncTypeOK
    OBVIOUS
  <2>1. tip \in Block \cup {NoBlock}
    <3>1. CASE tip = NoBlock
      BY <3>1
    <3>2. CASE tip # NoBlock
      BY <3>2 DEF ClientInv, Inv1, TypeOK, ObserverTypeOK
    <3> QED
      BY <3>1, <3>2
  <2> QED
    BY <2>1 DEF SyncTypeOK, ClientInv, Inv1
<1> QED
  BY <1>1, SyncInvariant, PTL

\* What /network/status reports and /block links together is the settled chain of the shard.
THEOREM OnLedger == ASSUME MarginSuffices PROVE SyncSpec => []ClientIsOnLedger
<1>1. Inv1 /\ ClientInv => ClientIsOnLedger
  <2> SUFFICES ASSUME Inv1, ClientInv, NEW i \in 2 .. Len(synced)
               PROVE  i - 1 <= settled /\ synced[i] = blockToIdentifier(chain[i - 1])
    BY DEF ClientIsOnLedger
  <2>1. i \in 1 .. Len(synced) /\ i # 1
    OBVIOUS
  <2>2. SyncedBlock(i) /\ settled \in Nonces
    BY <2>1 DEF ClientInv, Inv1, TypeOK, ObserverTypeOK
  <2> QED
    BY <2>1, <2>2, ObserverAssumption DEF SyncedBlock, Nonces
<1> QED
  BY <1>1, SyncInvariant, PTL

\* No block that the client gets has another parent than the client's last block.
THEOREM NoReorganisation == ASSUME MarginSuffices PROVE SyncSpec => ClientNeverReorganises
<1>1. Inv1 /\ Inv2 /\ ClientInv /\ [SyncNext]_allVars => [Len(synced') >= Len(synced)]_synced
  <2> SUFFICES ASSUME Inv1, Inv2, ClientInv, SyncNext, synced' # synced
               PROVE  Len(synced') >= Len(synced)
    BY DEF allVars, clientVars
  <2>1. SyncGenesis \/ BlockArrives
    BY DEF SyncNext, clientVars, MiddlewareRestarts, StatusArrives, LatestBlockArrives,
      StatusFails, SyncNextBlock, ClientCallStep, ReadByHash, OtherCallStep,
      ReportedBlockIsAnswered
  <2>2. CASE SyncGenesis
    BY <2>2 DEF SyncGenesis
  <2>3. CASE BlockArrives
    <3>1. PICK b \in Identifier : synced' = Append(synced, b)
      BY <2>3, ClientBlock
    <3>2. synced \in Seq(Identifier)
      BY DEF ClientInv
    <3> QED
      BY <3>1, <3>2
  <2> QED
    BY <2>1, <2>2, <2>3
<1> QED
  BY <1>1, SyncInvariant, PTL DEF SyncSpec, ClientNeverReorganises

\* A balance at a block of the client's chain is answered on that very block.
THEOREM Balances == ASSUME MarginSuffices PROVE SyncSpec => []BalancesFitTheChain
<1>1. Inv1 /\ ClientInv /\ IdsInv => BalancesFitTheChain
  <2> SUFFICES ASSUME Inv1, ClientInv, IdsInv, NEW i \in 2 .. Len(synced),
                      NEW index \in {synced[i].index, Absent},
                      NEW hash \in {synced[i].hash, Absent}, index # Absent \/ hash # Absent
               PROVE  {blockToIdentifier(b) : b \in AccountQueryOptions(index, hash)} = {synced[i]}
    BY DEF BalancesFitTheChain
  <2> DEFINE n == i - 1
  <2>1. /\ n \in Nonces /\ n <= height /\ height \in Nonces
        /\ synced[i] = blockToIdentifier(chain[n])
    <3>1. i \in 1 .. Len(synced) /\ i # 1
      OBVIOUS
    <3>2. SyncedBlock(i) /\ settled \in Nonces /\ height \in Nonces /\ settled <= height
      BY <3>1 DEF ClientInv, Inv1, TypeOK, ObserverTypeOK, ChainInv
    <3> QED
      BY <3>1, <3>2, ObserverAssumption DEF SyncedBlock, Nonces
  <2>2. chain[n].nonce = n /\ chain[n].id \in Nat
    BY <2>1 DEF Inv1, ChainInv, IdsInv
  <2>3. synced[i].index = n /\ synced[i].hash = chain[n].id
    BY <2>1, <2>2 DEF blockToIdentifier
  <2>4. n # Absent /\ chain[n].id # Absent
    BY <2>1, <2>2, SyncingClientAssumption, ObserverAssumption DEF Nonces
  <2>5. AccountQueryOptions(index, hash) = {chain[n]}
    <3>1. CASE index = n
      <4>1. AccountQueryOptions(index, hash) = {chain[m] : m \in {m \in {index} : HasBlock(m)}}
        BY <2>4, <3>1 DEF AccountQueryOptions
      <4>2. HasBlock(n)
        BY <2>1 DEF HasBlock
      <4> QED
        BY <3>1, <4>1, <4>2
    <3>2. CASE index = Absent
      <4>1. hash = chain[n].id
        BY <2>3, <3>2
      <4>2. AccountQueryOptions(index, hash) = {b \in {chain[m] : m \in 0 .. height} : b.id = hash}
        BY <2>4, <3>2, <4>1 DEF AccountQueryOptions
      <4>3. ASSUME NEW m \in 0 .. height, chain[m].id = chain[n].id
            PROVE  m = n
        <5>1. m \in Nonces /\ m <= height
          BY <2>1, ObserverAssumption DEF Nonces
        <5>2. chain[m].id \in Nat
          BY <5>1 DEF IdsInv
        <5>3. ~(m < n) /\ ~(n < m)
          BY <2>1, <2>2, <4>3, <5>1, <5>2 DEF IdsInv
        <5> QED
          BY <2>1, <5>1, <5>3, ObserverAssumption DEF Nonces
      <4>4. n \in 0 .. height
        BY <2>1, ObserverAssumption DEF Nonces
      <4> HIDE DEF n
      <4> QED
        BY <4>1, <4>2, <4>3, <4>4
    <3> QED
      BY <2>3, <3>1, <3>2
  <2> HIDE DEF n
  <2> QED
    BY <2>1, <2>5
<1> QED
  BY <1>1, SyncInvariant, IdsInvariant, PTL

\* NeighboursAreFinal also holds when other clients ask by hash, for blocks that were reported.
THEOREM FinalityWithReadsByHash ==
  ASSUME MarginSuffices PROVE SyncSpec => []NeighboursAreFinal
BY SyncInvariant, FinalNeighbours, PTL
=============================================================================
