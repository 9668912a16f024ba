----------------------------- MODULE NodeStatus -----------------------------
(***************************************************************************)
(* GetNodeStatus of server/provider/nodeStatus.go, which answers           *)
(* /network/status: the latest block that is served, and the oldest block  *)
(* with historical state.  The answer is put together from four requests   *)
(* to an observer whose chain moves, and rolls back, between them.         *)
(*                                                                         *)
(* It also depends on two flags of the middleware, firstHistoricalEpoch    *)
(* and numHistoricalEpochs, which the operator derives from what he leaves *)
(* in the observer's database (README.md, "Storage Pruning").  The         *)
(* operator's procedure is external, and so is the assignment of blocks to *)
(* epochs, simplified to epochs of EpochLength blocks.                     *)
(*                                                                         *)
(* The observer is assumed to report a failed block request as an error of *)
(* the call: getBlockSummaryByNonce does not look at the error field of a  *)
(* successful response.  A call reads no state that another call writes,   *)
(* so that one call at a time is enough.                                   *)
(***************************************************************************)
EXTENDS Observer, FinalityMargin

CONSTANTS
  EpochLength,          \* external: blocks per epoch
  MaxLag,               \* external: how far finality, and reported finality, trail the head, at most
  SnapshotMargin,       \* README.md: the constant s, epochs kept without being reported
  numHistoricalEpochs   \* the flag, N in README.md

ASSUME NodeStatusAssumption ==
  /\ EpochLength \in Nat \ {0}
  /\ MaxLag \in Nat
  /\ SnapshotMargin \in Nat
  /\ numHistoricalEpochs \in Nat

VARIABLES
  oldestInDatabase,       \* external: the oldest epoch in the observer's database
  firstHistoricalEpoch,   \* the flag, given at each start
  pc,                     \* where the call is
  latestNonce, oldestEpoch, oldestNonce,    \* its locals
  LatestBlock, OldestBlockWithHistoricalState

flagVars == <<oldestInDatabase, firstHistoricalEpoch>>
callVars == <<latestNonce, oldestEpoch, oldestNonce, LatestBlock, OldestBlockWithHistoricalState>>
vars == <<observerVars, flagVars, pc, callVars>>

EpochOf(n) == n \div EpochLength
EpochStart(e) == e * EpochLength

AtObserver == {"status", "latest", "epochStart", "oldest"}

TypeOK ==
  /\ ObserverTypeOK
  /\ oldestInDatabase \in Nat
  /\ firstHistoricalEpoch \in Nat
  /\ pc \in AtObserver \cup {"idle", "answered"}
  /\ latestNonce \in Nat
  /\ oldestEpoch \in Nat
  /\ oldestNonce \in Nat
  /\ LatestBlock \in Block \cup {NoBlock}
  /\ OldestBlockWithHistoricalState \in Block \cup {NoBlock}

NoCall ==
  /\ pc' = "idle"
  /\ latestNonce' = 0 /\ oldestEpoch' = 0 /\ oldestNonce' = 0
  /\ LatestBlock' = NoBlock /\ OldestBlockWithHistoricalState' = NoBlock

Init ==
  /\ ObserverInit
  /\ oldestInDatabase = 0 /\ firstHistoricalEpoch = 0
  /\ pc = "idle"
  /\ latestNonce = 0 /\ oldestEpoch = 0 /\ oldestNonce = 0
  /\ LatestBlock = NoBlock /\ OldestBlockWithHistoricalState = NoBlock

-----------------------------------------------------------------------------
\* Variation: the flag firstHistoricalEpoch is not looked at.
EligibleEpochWithoutFirst(currentEpoch) ==
  LET oldest == currentEpoch - numHistoricalEpochs
  IN  IF oldest < 0 THEN 0 ELSE oldest

\* Variation: subtracts without looking at the result.
EligibleEpochUnclamped(currentEpoch) == currentEpoch - numHistoricalEpochs

\* Variation: when there are too few epochs, the current one is reported.
EligibleEpochIsCurrent(currentEpoch) ==
  LET oldest == currentEpoch - numHistoricalEpochs
  IN  IF oldest < firstHistoricalEpoch THEN currentEpoch ELSE oldest

\* getOldestEligibleEpoch
OldestEligibleEpoch(currentEpoch) ==
  LET oldest == currentEpoch - numHistoricalEpochs
  IN  IF oldest < firstHistoricalEpoch THEN firstHistoricalEpoch ELSE oldest

\* GetNodeStatus is called: getPlainNodeStatus requests the status.
Start ==
  /\ pc = "idle"
  /\ pc' = "status"
  /\ UNCHANGED <<observerVars, flagVars, callVars>>

\* The status arrives.  The oldest eligible epoch is computed from it too, if only
\* after the next request.
StatusArrives ==
  /\ pc = "status"
  /\ \E highestFinalNonce \in ReportableFinalNonces :
       /\ highestFinalNonce >= height - MaxLag
       /\ HasLatestNonce(highestFinalNonce)
       /\ latestNonce' = LatestNonce(highestFinalNonce)
  /\ oldestEpoch' = OldestEligibleEpoch(EpochOf(height))
  /\ pc' = "latest"
  /\ UNCHANGED <<observerVars, flagVars, oldestNonce, LatestBlock,
                 OldestBlockWithHistoricalState>>

\* getBlockSummaryByNonce(latestNonce)
LatestBlockArrives ==
  /\ pc = "latest"
  /\ HasBlock(latestNonce)
  /\ LatestBlock' = chain[latestNonce]
  /\ pc' = "epochStart"
  /\ UNCHANGED <<observerVars, flagVars, latestNonce, oldestEpoch, oldestNonce,
                 OldestBlockWithHistoricalState>>

\* getEpochStartInfo(oldestEpoch)
EpochStartArrives ==
  /\ pc = "epochStart"
  /\ HasBlock(EpochStart(oldestEpoch))
  /\ oldestNonce' = EpochStart(oldestEpoch)
  /\ pc' = "oldest"
  /\ UNCHANGED <<observerVars, flagVars, latestNonce, oldestEpoch, LatestBlock,
                 OldestBlockWithHistoricalState>>

\* getBlockSummaryByNonce(oldestNonceWithHistoricalState)
OldestBlockArrives ==
  /\ pc = "oldest"
  /\ HasBlock(oldestNonce)
  /\ OldestBlockWithHistoricalState' = chain[oldestNonce]
  /\ pc' = "answered"
  /\ UNCHANGED <<observerVars, flagVars, latestNonce, oldestEpoch, oldestNonce, LatestBlock>>

\* One of the requests fails, or errCannotGetLatestBlockNonce: no answer at all.
CallFails ==
  /\ pc \in AtObserver
  /\ NoCall
  /\ UNCHANGED <<observerVars, flagVars>>

AnswerDelivered ==
  /\ pc = "answered"
  /\ NoCall
  /\ UNCHANGED <<observerVars, flagVars>>

-----------------------------------------------------------------------------
\* README.md: stop the observer and the middleware, remove the epochs up to
\* latest - N - s, start both with first-historical-epoch = oldest + s.
PruneAndRestart ==
  LET removed == EpochOf(height) - numHistoricalEpochs - SnapshotMargin
  IN  /\ removed >= oldestInDatabase
      /\ oldestInDatabase' = removed + 1
      /\ firstHistoricalEpoch' = oldestInDatabase' + SnapshotMargin
      /\ NoCall
      /\ UNCHANGED observerVars

ObserverStep ==
  /\ ObserverNext
  /\ height' <= settled' + MaxLag
  /\ UNCHANGED <<flagVars, pc, callVars>>

CallStep ==
  \/ StatusArrives
  \/ LatestBlockArrives
  \/ EpochStartArrives
  \/ OldestBlockArrives
  \/ CallFails
  \/ AnswerDelivered

Next == Start \/ CallStep \/ PruneAndRestart \/ ObserverStep

Spec == Init /\ [][Next]_vars

-----------------------------------------------------------------------------
(* Properties *)

Answered == pc = "answered"

\* Both blocks of an answer of GetNodeStatus are final, and are the observer's blocks
\* still when the answer is given: a client that starts from either of them is never on
\* a branch that the shard abandons, though the four requests saw different chains.
StatusBlocksAreFinal ==
  Answered => \A b \in {LatestBlock, OldestBlockWithHistoricalState} :
                b.nonce <= settled /\ chain[b.nonce] = b

\* The history a status offers (getOldestEligibleEpoch) exists: the block at its start is
\* not after the latest one, also when the status falls at the beginning of an epoch or
\* a rollback takes the head back into the previous epoch.
HistoryIsNotEmpty ==
  Answered => OldestBlockWithHistoricalState.nonce <= LatestBlock.nonce

\* Whatever the operator pruned, at whichever epoch, the state of the oldest block is in
\* the database, with the epochs that README.md wants before it.
HistoryIsInDatabase ==
  Answered =>
    oldestInDatabase = 0 \/ oldestInDatabase + SnapshotMargin <= EpochOf(OldestBlockWithHistoricalState.nonce)
=============================================================================
