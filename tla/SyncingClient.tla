---------------------------- MODULE SyncingClient ----------------------------
(***************************************************************************)
(* What the data endpoints are for: a client (the rosetta-cli of           *)
(* src/systemtests) that builds its own chain from /network/status and     *)
(* /block, and reads balances at its blocks, while other clients read      *)
(* blocks by hash.  It composes NetworkProvider (the provider, its cache,  *)
(* the observer) with blockService.doGetBlock, which routes a request and  *)
(* links the block to its parent, and accountService.                      *)
(*                                                                         *)
(* The client is external: it asks for the block after its last one until  *)
(* it is at the reported tip, repeats what fails, and drops its last block *)
(* when the next one has another parent.  Others ask by hash, but only for *)
(* blocks that have been reported (by /network/status or /block).          *)
(***************************************************************************)
EXTENDS NetworkProvider, Sequences

CONSTANTS
  Client,         \* the handler that serves the syncing client
  GenesisHash,    \* the flag genesis-block; PrevBlockHash of block 1 may differ from it
  Absent          \* an identifier's index or hash that is not there

ASSUME SyncingClientAssumption ==
  Client \in Handlers /\ GenesisHash \in Int /\ Absent \notin Int

VARIABLES
  statusPc,    \* "idle", or "latest": the node status arrived, its latest block is asked for
  latest,      \* getLatestBlockNonce, meanwhile
  tip,         \* the block that /network/status told last
  synced       \* the client's chain: block identifiers, genesis first

clientVars == <<statusPc, latest, tip, synced>>
allVars == <<vars, clientVars>>

Identifier == [index : Nonces, hash : Int]
Last == synced[Len(synced)]
NextIndex == Len(synced)

SyncInit ==
  /\ Init
  /\ statusPc = "idle" /\ latest = 0
  /\ tip = NoBlock
  /\ synced = <<>>

-----------------------------------------------------------------------------
(* blockService and accountService *)

GenesisIdentifier == [index |-> 0, hash |-> GenesisHash]
blockToIdentifier(b) == [index |-> b.nonce, hash |-> b.id]

\* doGetBlock: which of its functions answers a request; an index goes before a hash.
RouteOf(index, hash) ==
  CASE index = GenesisIdentifier.index \/ hash = GenesisHash -> "genesis"
    [] index # Absent /\ index # GenesisIdentifier.index /\ hash # GenesisHash -> "byNonce"
    [] index = Absent /\ hash \notin {Absent, GenesisHash} -> "byHash"
    [] OTHER -> "ErrMustQueryByIndexOrByHash"

\* Variation: block 1 is not linked to the genesis block of the flag.
ParentInTheBlock(b) == [index |-> b.nonce - 1, hash |-> b.prev]

\* convertToRosettaBlock: "link the second block to genesis".
ParentIdentifier(b) ==
  IF b.nonce = 1 THEN GenesisIdentifier ELSE [index |-> b.nonce - 1, hash |-> b.prev]

\* The observer's latest block for onFinalBlock: one it may report as final.
FinalBlocks == {chain[n] : n \in {m \in ReportableFinalNonces : HasBlock(m)}}

\* Variation: the block identifier is not looked at.
AccountQueryOnFinalBlock(index, hash) == FinalBlocks

\* blockIdentifierToAccountQueryOptions and buildUrlWithAccountQueryOptions: the blocks on
\* which the observer may answer for a balance; again an index goes before a hash.
AccountQueryOptions(index, hash) ==
  CASE index # Absent -> {chain[n] : n \in {m \in {index} : HasBlock(m)}}
    [] index = Absent /\ hash # Absent -> {b \in {chain[n] : n \in 0 .. height} : b.id = hash}
    [] index = Absent /\ hash = Absent -> FinalBlocks

-----------------------------------------------------------------------------
(* The client *)

\* /network/status: the node status arrives (a node that starts up has none to tell) ...
StatusArrives ==
  /\ statusPc = "idle"
  /\ \E r \in ReportableFinalNonces : HasLatestNonce(r) /\ latest' = LatestNonce(r)
  /\ statusPc' = "latest"
  /\ UNCHANGED <<vars, tip, synced>>

\* ... and then the block at the latest nonce, from whatever chain the observer has now.
LatestBlockArrives ==
  /\ statusPc = "latest"
  /\ HasBlock(latest)
  /\ tip' = chain[latest]
  /\ statusPc' = "idle" /\ latest' = 0
  /\ UNCHANGED <<vars, synced>>

\* One of its requests fails; the client asks again.
StatusFails ==
  /\ statusPc = "latest"
  /\ statusPc' = "idle" /\ latest' = 0
  /\ UNCHANGED <<vars, tip, synced>>

SyncGenesis ==
  /\ synced = <<>>
  /\ RouteOf(0, Absent) = "genesis"
  /\ synced' = << GenesisIdentifier >>
  /\ UNCHANGED <<vars, statusPc, latest, tip>>

\* The client asks for the block after its last one.
SyncNextBlock ==
  /\ tip # NoBlock /\ synced # <<>>
  /\ NextIndex <= tip.nonce
  /\ RouteOf(NextIndex, Absent) = "byNonce"
  /\ StartByNonce(Client)
  /\ nonce'[Client] = NextIndex
  /\ UNCHANGED clientVars

\* The block arrives: it is appended, or the client's last block turns out to be abandoned.
BlockArrives ==
  LET b == got[Client]["self"]
  IN  /\ Simplify(Client)
      /\ synced' = IF ParentIdentifier(b) = Last
                   THEN Append(synced, blockToIdentifier(b))
                   ELSE SubSeq(synced, 1, Len(synced) - 1)
      /\ UNCHANGED <<statusPc, latest, tip>>

\* The steps of the client's block call but for the last one.
ClientCallStep ==
  /\ \/ AcceptNonce(Client) \/ RejectNonce(Client)
     \/ CacheHit(Client) \/ CacheMiss(Client)
     \/ ObserverAnswers(Client) \/ CacheResponse(Client)
     \/ CallFails(Client)
  /\ UNCHANGED clientVars

-----------------------------------------------------------------------------
(* Other clients *)

IsReported(b) ==
  b # NoBlock /\ (b = tip \/ \E i \in 1 .. Len(synced) : synced[i] = blockToIdentifier(b))

Others == Handlers \ {Client}

ReadByHash(h) ==
  /\ \E n \in 1 .. height : IsReported(chain[n]) /\ RouteOf(Absent, chain[n].id) = "byHash"
  /\ StartByHash(h)
  /\ UNCHANGED clientVars

ReportedBlockIsAnswered(h) ==
  /\ AnswerByHash(h)
  /\ IsReported(got'[h]["self"])
  /\ UNCHANGED clientVars

OtherCallStep(h) ==
  \/ ReportedBlockIsAnswered(h)
  \/ /\ \/ CacheHit(h) \/ CacheMiss(h) \/ ObserverAnswers(h) \/ CacheResponse(h)
        \/ CallFails(h) \/ Simplify(h)
     /\ UNCHANGED clientVars

-----------------------------------------------------------------------------
\* The middleware restarts; the client keeps its chain.
MiddlewareRestarts ==
  /\ Restart
  /\ statusPc' = "idle" /\ latest' = 0
  /\ UNCHANGED <<tip, synced>>

SyncNext ==
  \/ ObserverStep /\ UNCHANGED clientVars
  \/ MiddlewareRestarts
  \/ StatusArrives \/ LatestBlockArrives \/ StatusFails
  \/ SyncGenesis \/ SyncNextBlock \/ BlockArrives \/ ClientCallStep
  \/ \E h \in Others : ReadByHash(h) \/ OtherCallStep(h)

SyncSpec == SyncInit /\ [][SyncNext]_allVars

\* As in NetworkProvider for calls; the client goes on whenever the tip allows it (a status that
\* lags may take the tip back: strong fairness).  To catch up it needs more: that the trouble
\* ends (restarts and failed requests), and that of the final nonces that the observer reports,
\* some are up to date.
StatusIsUpToDate == StatusArrives /\ latest' >= LatestNonce(settled)
Trouble == MiddlewareRestarts \/ StatusFails \/ \E h \in Handlers : CallFails(h)

SyncFairness ==
  /\ WF_allVars(SyncGenesis) /\ SF_allVars(SyncNextBlock)
  /\ WF_allVars(LatestBlockArrives)
  /\ WF_allVars(ClientCallStep \/ BlockArrives)
  /\ \A h \in Others : WF_allVars(OtherCallStep(h))

SyncFairSpec == SyncSpec /\ SyncFairness

TroubleEnds ==
  /\ <>[][~Trouble]_allVars
  /\ SF_allVars(StatusIsUpToDate)
  /\ SF_allVars(AcceptNonce(Client) /\ UNCHANGED clientVars)

-----------------------------------------------------------------------------
(* Properties *)

SyncTypeOK ==
  /\ TypeOK
  /\ statusPc \in {"idle", "latest"}
  /\ latest \in Nonces
  /\ tip \in Block \cup {NoBlock}
  /\ synced \in Seq(Identifier)

\* The client's chain is the settled chain of the shard, genesis replaced by the configured one:
\* what /network/status reports and /block links together is never abandoned.
ClientIsOnLedger ==
  \A i \in 2 .. Len(synced) :
    i - 1 <= settled /\ synced[i] = blockToIdentifier(chain[i - 1])

\* The client never drops a block: no block it gets has another parent than its last block,
\* block 1 and the genesis of the flag included.
ClientNeverReorganises == [][Len(synced') >= Len(synced)]_synced

\* A balance that is asked for at a block of the client's chain, by index, by hash or by both,
\* is answered, and on that very block, whatever the observer's chain went through since.
BalancesFitTheChain ==
  \A i \in 2 .. Len(synced) :
    \A index \in {synced[i].index, Absent}, hash \in {synced[i].hash, Absent} :
      index # Absent \/ hash # Absent =>
        {blockToIdentifier(b) : b \in AccountQueryOptions(index, hash)} = {synced[i]}

\* Once trouble ends, the client gets every block that is final with the margin that the
\* middleware keeps, though it asks again after each failure and others use the cache.
CatchesUp ==
  TroubleEnds => \A n \in 1 .. MaxNonce : settled >= n + nonceDelta ~> Len(synced) > n
=============================================================================
