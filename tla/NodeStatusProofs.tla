--------------------------- MODULE NodeStatusProofs ---------------------------
(***************************************************************************)
(* Proofs about NodeStatus, for any lengths of epochs, lags and margins.   *)
(*                                                                         *)
(* The settled part of the chain never changes and the oldest nonce of an  *)
(* answer is never above its latest one, which is settled (CallInv).  The  *)
(* former needs that the oldest epoch that a flag allows began long before *)
(* the settled nonce (FlagInv), whatever was rolled back since pruning.    *)
(***************************************************************************)
EXTENDS NodeStatus, TLAPS

\* The status never claims to be final what LatestNonce does not hold back, and the epochs
\* that are kept are longer than what finality, and what is reported of it, trail the head.
EpochsAreLongEnough ==
  /\ OverReport <= nonceDelta
  /\ (numHistoricalEpochs - 1) * EpochLength >= 2 * MaxLag + nonceDelta

-----------------------------------------------------------------------------
(* Epochs *)

LEMMA Division ==
  ASSUME NEW n \in Nat, NEW d \in Nat \ {0}
  PROVE  n \div d \in Nat /\ (n \div d) * d <= n
OBVIOUS

LEMMA DivisionOfMultiple ==
  ASSUME NEW e \in Nat, NEW d \in Nat \ {0}
  PROVE  (e * d) \div d = e
OBVIOUS

\* An epoch that began k epochs before that of block n began k epochs' length before it.
LEMMA EpochsBefore ==
  ASSUME NEW n \in Nat, NEW k \in Int
  PROVE  /\ EpochOf(n) \in Nat
         /\ EpochStart(EpochOf(n) - k) <= n - k * EpochLength
         /\ EpochStart(EpochOf(n) - k) \in Int
<1> DEFINE e == EpochOf(n)
<1>1. e \in Nat /\ e * EpochLength <= n /\ EpochLength \in Nat
  BY Division, NodeStatusAssumption DEF EpochOf
<1> HIDE DEF e
<1>2. (e - k) * EpochLength = e * EpochLength - k * EpochLength
  BY <1>1
<1>3. e * EpochLength \in Int /\ k * EpochLength \in Int
  BY <1>1
<1> QED
  BY <1>1, <1>2, <1>3 DEF EpochStart, e

\* What is kept, in blocks: an epoch more, or one less.
LEMMA Reserve ==
  ASSUME EpochsAreLongEnough
  PROVE  /\ numHistoricalEpochs * EpochLength \in Int
         /\ numHistoricalEpochs * EpochLength >= 2 * MaxLag + nonceDelta
         /\ (numHistoricalEpochs - 1) * EpochLength \in Int
         /\ (numHistoricalEpochs - 1) * EpochLength >= 2 * MaxLag + nonceDelta
<1> DEFINE N == numHistoricalEpochs
           L == EpochLength
<1>1. N \in Nat /\ L \in Nat /\ MaxLag \in Nat /\ nonceDelta = 2
  BY NodeStatusAssumption DEF nonceDelta
<1>2. (N - 1) * L >= 2 * MaxLag + nonceDelta
  BY DEF EpochsAreLongEnough
<1> HIDE DEF N, L
<1>3. N * L = (N - 1) * L + L /\ (N - 1) * L \in Int
  BY <1>1
<1> QED
  BY <1>1, <1>2, <1>3 DEF N, L

-----------------------------------------------------------------------------
(* The invariant *)

ChainInv ==
  /\ settled <= height /\ height <= settled + MaxLag
  /\ \A n \in Nonces : n <= height => chain[n] \in Block /\ chain[n].nonce = n

\* Since the flags were given, finality has left the first historical epoch behind.
FlagInv ==
  /\ firstHistoricalEpoch = 0 \/ EpochStart(firstHistoricalEpoch) + MaxLag + nonceDelta <= settled
  /\ oldestInDatabase = 0 \/ firstHistoricalEpoch = oldestInDatabase + SnapshotMargin

CallInv ==
  /\ pc \in {"latest", "epochStart", "oldest", "answered"} =>
       /\ latestNonce <= settled
       /\ firstHistoricalEpoch <= oldestEpoch
       /\ EpochStart(oldestEpoch) <= latestNonce
  /\ pc \in {"epochStart", "oldest", "answered"} => LatestBlock = chain[latestNonce]
  /\ pc \in {"oldest", "answered"} => oldestNonce = EpochStart(oldestEpoch)
  /\ pc = "answered" => OldestBlockWithHistoricalState = chain[oldestNonce]

IInv == TypeOK /\ ChainInv /\ FlagInv /\ CallInv

\* What the prover needs of the types.
LEMMA Numbers ==
  ASSUME TypeOK
  PROVE  /\ height \in Nat /\ settled \in Nat /\ latestNonce \in Nat /\ oldestNonce \in Nat
         /\ oldestEpoch \in Nat /\ firstHistoricalEpoch \in Nat /\ oldestInDatabase \in Nat
         /\ MaxNonce \in Nat /\ MaxLag \in Nat /\ SnapshotMargin \in Nat
         /\ numHistoricalEpochs \in Nat /\ OverReport \in Nat /\ nonceDelta = 2
         /\ height <= MaxNonce
         /\ \A e \in Nat : EpochStart(e) \in Nat
<1>1. \A e \in Nat : EpochStart(e) \in Nat
  BY NodeStatusAssumption DEF EpochStart
<1> QED
  BY <1>1, ObserverAssumption, NodeStatusAssumption DEF TypeOK, ObserverTypeOK, Nonces, nonceDelta

\* An answer's nonces are settled, and its blocks are the observer's.
LEMMA AnswerSettled ==
  ASSUME IInv, pc \in {"latest", "epochStart", "oldest", "answered"}
  PROVE  /\ latestNonce \in Nonces /\ latestNonce <= settled
         /\ chain[latestNonce] \in Block /\ chain[latestNonce].nonce = latestNonce
         /\ EpochStart(oldestEpoch) \in Nonces /\ EpochStart(oldestEpoch) <= latestNonce
         /\ chain[EpochStart(oldestEpoch)] \in Block
         /\ chain[EpochStart(oldestEpoch)].nonce = EpochStart(oldestEpoch)
<1>1. TypeOK
  BY DEF IInv
<1>2. latestNonce <= settled /\ EpochStart(oldestEpoch) <= latestNonce /\ settled <= height
  BY DEF IInv, CallInv, ChainInv
<1>3. EpochStart(oldestEpoch) \in Nat
  BY <1>1, Numbers
<1>4. /\ latestNonce \in Nonces /\ latestNonce <= height
      /\ EpochStart(oldestEpoch) \in Nonces /\ EpochStart(oldestEpoch) <= height
  BY <1>1, <1>2, <1>3, Numbers DEF Nonces
<1> QED
  BY <1>2, <1>4 DEF IInv, ChainInv

LEMMA InitIInv == Init => IInv
<1> SUFFICES ASSUME Init PROVE IInv
  OBVIOUS
<1> USE ObserverAssumption, NodeStatusAssumption DEF Init, ObserverInit
<1>1. Genesis \in Block /\ Genesis.nonce = 0 /\ 0 \in Nonces
  BY DEF Genesis, Block, Nonces
<1>2. TypeOK
  BY <1>1 DEF TypeOK, ObserverTypeOK, Nonces, AtObserver
<1>3. ChainInv
  BY <1>1 DEF ChainInv, Nonces
<1> QED
  BY <1>2, <1>3 DEF IInv, FlagInv, CallInv

-----------------------------------------------------------------------------
(* Steps *)

\* The observer's steps leave what is settled alone.
LEMMA ObserverSteps ==
  ASSUME TypeOK, ChainInv, ObserverStep
  PROVE  /\ ObserverTypeOK' /\ ChainInv'
         /\ settled <= settled'
         /\ \A n \in Nonces : n <= settled => chain'[n] = chain[n]
<1> USE ObserverAssumption, NodeStatusAssumption
<1> USE DEF TypeOK, ObserverTypeOK, ChainInv
<1>0. height' <= settled' + MaxLag
  BY DEF ObserverStep
<1>1. CASE ProduceBlock
  <2> DEFINE b == [nonce |-> height + 1, id |-> produced + 1, prev |-> chain[height].id]
  <2>1. chain[height] \in Block /\ height + 1 \in Nonces /\ produced + 1 \in 0 .. MaxBlocks
    BY <1>1 DEF ProduceBlock, Nonces
  <2>2. b \in Block /\ b.nonce = height + 1
    BY <2>1 DEF Block
  <2> HIDE DEF b
  <2>3. /\ height' = height + 1 /\ produced' = produced + 1 /\ settled' = settled
        /\ chain' = [chain EXCEPT ![height + 1] = b]
    BY <1>1 DEF ProduceBlock, b
  <2>4. ObserverTypeOK'
    BY <2>1, <2>2, <2>3
  <2>5. \A n \in Nonces : n <= height' => chain'[n] \in Block /\ chain'[n].nonce = n
    BY <2>1, <2>2, <2>3 DEF Nonces
  <2> QED
    BY <1>0, <2>1, <2>3, <2>4, <2>5 DEF Nonces
<1>2. CASE RollbackBlock
  BY <1>0, <1>2 DEF RollbackBlock, Nonces
<1>3. CASE SettleBlock
  BY <1>0, <1>3 DEF SettleBlock, Nonces
<1> QED
  BY <1>1, <1>2, <1>3 DEF ObserverStep, ObserverNext

\* The oldest epoch that a status leads to began before the latest block.
LEMMA EligibleEpoch ==
  ASSUME EpochsAreLongEnough, TypeOK, ChainInv, FlagInv,
         NEW hf \in Nat, hf >= height - MaxLag, HasLatestNonce(hf)
  PROVE  LET e == OldestEligibleEpoch(EpochOf(height))
         IN  e \in Nat /\ firstHistoricalEpoch <= e /\ EpochStart(e) <= LatestNonce(hf)
<1> DEFINE e == OldestEligibleEpoch(EpochOf(height))
           counted == EpochOf(height) - numHistoricalEpochs
<1>1. LatestNonce(hf) \in Nat /\ LatestNonce(hf) = hf - 2 /\ LatestNonce(hf) > 0
  BY DEF LatestNonce, HasLatestNonce, nonceDelta
<1>2. EpochOf(height) \in Nat /\ counted \in Int
      /\ EpochStart(counted) <= height - numHistoricalEpochs * EpochLength
      /\ EpochStart(counted) \in Int
  BY Numbers, EpochsBefore
<1> HIDE DEF counted
<1>3. CASE counted < firstHistoricalEpoch
  <2>1. e = firstHistoricalEpoch
    BY <1>3 DEF OldestEligibleEpoch, counted
  <2>2. CASE firstHistoricalEpoch = 0
    <3>1. EpochStart(0) = 0
      BY NodeStatusAssumption DEF EpochStart
    <3> QED
      BY <1>1, <2>1, <2>2, <3>1
  <2>3. CASE EpochStart(firstHistoricalEpoch) + MaxLag + nonceDelta <= settled
    <3>1. EpochStart(firstHistoricalEpoch) \in Nat
      BY Numbers
    <3> QED
      BY <1>1, <2>1, <2>3, <3>1, Numbers DEF ChainInv
  <2> QED
    BY <2>2, <2>3 DEF FlagInv
<1>4. CASE ~(counted < firstHistoricalEpoch)
  <2>1. e = counted
    BY <1>4 DEF OldestEligibleEpoch, counted
  <2>2. e \in Nat /\ firstHistoricalEpoch <= e
    BY <1>2, <1>4, <2>1, Numbers
  <2>3. EpochStart(counted) <= LatestNonce(hf)
    BY <1>1, <1>2, Reserve, Numbers
  <2> QED
    BY <2>1, <2>2, <2>3
<1> QED
  BY <1>3, <1>4

LEMMA PruningKeepsFlagInv ==
  ASSUME EpochsAreLongEnough, TypeOK, ChainInv, FlagInv, PruneAndRestart
  PROVE  FlagInv' /\ oldestInDatabase' \in Nat /\ firstHistoricalEpoch' \in Nat
<1> DEFINE removed == EpochOf(height) - numHistoricalEpochs - SnapshotMargin
<1>1. EpochOf(height) \in Nat
  BY Numbers, EpochsBefore
<1>2. /\ removed >= oldestInDatabase /\ oldestInDatabase' = removed + 1
      /\ firstHistoricalEpoch' = oldestInDatabase' + SnapshotMargin
      /\ settled' = settled
  BY DEF PruneAndRestart, observerVars
<1>3. firstHistoricalEpoch' = EpochOf(height) - (numHistoricalEpochs - 1)
      /\ oldestInDatabase' \in Nat /\ firstHistoricalEpoch' \in Nat
  BY <1>1, <1>2, Numbers
<1>4. EpochStart(firstHistoricalEpoch') <= height - (numHistoricalEpochs - 1) * EpochLength
      /\ EpochStart(firstHistoricalEpoch') \in Int
  BY <1>3, Numbers, EpochsBefore
<1>5. EpochStart(firstHistoricalEpoch') + MaxLag + nonceDelta <= settled'
  BY <1>2, <1>4, Reserve, Numbers DEF ChainInv
<1> QED
  BY <1>2, <1>3, <1>5 DEF FlagInv, EpochStart

LEMMA TypeStep ==
  ASSUME TypeOK, ChainInv, [Next]_vars
  PROVE  TypeOK' /\ ChainInv'
<1>1. CASE Start
  BY <1>1 DEF Start, TypeOK, ObserverTypeOK, ChainInv, AtObserver, observerVars, flagVars, callVars
<1>2. CASE StatusArrives
  <2> PICK hf \in ReportableFinalNonces : HasLatestNonce(hf) /\ latestNonce' = LatestNonce(hf)
    BY <1>2 DEF StatusArrives
  <2>1. latestNonce' \in Nat
    BY Numbers DEF ReportableFinalNonces, LatestNonce, HasLatestNonce
  <2>2. oldestEpoch' \in Nat
    <3>1. EpochOf(height) \in Nat
      BY Numbers, EpochsBefore
    <3> QED
      BY <1>2, <3>1, Numbers DEF StatusArrives, OldestEligibleEpoch
  <2> QED
    BY <1>2, <2>1, <2>2 DEF StatusArrives, TypeOK, ObserverTypeOK, ChainInv, AtObserver,
      observerVars, flagVars
<1>3. CASE LatestBlockArrives
  <2>1. chain[latestNonce] \in Block
    BY <1>3, Numbers DEF LatestBlockArrives, HasBlock, ChainInv, Nonces
  <2> QED
    BY <1>3, <2>1 DEF LatestBlockArrives, TypeOK, ObserverTypeOK, ChainInv, AtObserver,
      observerVars, flagVars
<1>4. CASE EpochStartArrives
  BY <1>4, Numbers DEF EpochStartArrives, TypeOK, ObserverTypeOK, ChainInv, AtObserver,
    observerVars, flagVars
<1>5. CASE OldestBlockArrives
  <2>1. chain[oldestNonce] \in Block
    BY <1>5, Numbers DEF OldestBlockArrives, HasBlock, ChainInv, Nonces
  <2> QED
    BY <1>5, <2>1 DEF OldestBlockArrives, TypeOK, ObserverTypeOK, ChainInv, AtObserver,
      observerVars, flagVars
<1>6. CASE CallFails \/ AnswerDelivered
  BY <1>6 DEF CallFails, AnswerDelivered, NoCall, TypeOK, ObserverTypeOK, ChainInv, AtObserver,
    observerVars, flagVars
<1>7. CASE PruneAndRestart
  <2>1. oldestInDatabase' \in Nat /\ firstHistoricalEpoch' \in Nat
    <3>1. EpochOf(height) \in Nat
      BY Numbers, EpochsBefore
    <3> QED
      BY <1>7, <3>1, Numbers DEF PruneAndRestart
  <2> QED
    BY <1>7, <2>1 DEF PruneAndRestart, NoCall, TypeOK, ObserverTypeOK, ChainInv, AtObserver,
      observerVars
<1>8. CASE ObserverStep
  BY <1>8, ObserverSteps DEF ObserverStep, TypeOK, flagVars, callVars
<1>9. CASE UNCHANGED vars
  BY <1>9 DEF vars, TypeOK, ObserverTypeOK, ChainInv, observerVars, flagVars, callVars
<1> QED
  BY <1>1, <1>2, <1>3, <1>4, <1>5, <1>6, <1>7, <1>8, <1>9 DEF Next, CallStep

LEMMA CallsStep ==
  ASSUME EpochsAreLongEnough, IInv, [Next]_vars
  PROVE  FlagInv' /\ CallInv'
<1>0. TypeOK /\ ChainInv /\ FlagInv /\ CallInv
  BY DEF IInv
<1>1. CASE Start
  BY <1>0, <1>1 DEF Start, FlagInv, CallInv, EpochStart, observerVars, flagVars, callVars
<1>2. CASE StatusArrives
  <2> PICK hf \in ReportableFinalNonces :
        /\ hf >= height - MaxLag /\ HasLatestNonce(hf) /\ latestNonce' = LatestNonce(hf)
    BY <1>2 DEF StatusArrives
  <2>1. hf \in Nat /\ hf <= settled + OverReport
    BY <1>0, Numbers DEF ReportableFinalNonces
  <2>2. LatestNonce(hf) <= settled
    BY <1>0, <2>1, Numbers DEF LatestNonce, EpochsAreLongEnough, nonceDelta
  <2>3. firstHistoricalEpoch <= oldestEpoch' /\ EpochStart(oldestEpoch') <= latestNonce'
    BY <1>0, <1>2, <2>1, EligibleEpoch DEF StatusArrives
  <2> QED
    BY <1>0, <1>2, <2>2, <2>3
    DEF StatusArrives, FlagInv, CallInv, EpochStart, observerVars, flagVars
<1>3. CASE LatestBlockArrives
  BY <1>0, <1>3 DEF LatestBlockArrives, FlagInv, CallInv, EpochStart, observerVars, flagVars
<1>4. CASE EpochStartArrives
  BY <1>0, <1>4 DEF EpochStartArrives, FlagInv, CallInv, EpochStart, observerVars, flagVars
<1>5. CASE OldestBlockArrives
  BY <1>0, <1>5 DEF OldestBlockArrives, FlagInv, CallInv, EpochStart, observerVars, flagVars
<1>6. CASE CallFails \/ AnswerDelivered
  BY <1>0, <1>6
  DEF CallFails, AnswerDelivered, NoCall, FlagInv, CallInv, EpochStart, observerVars, flagVars
<1>7. CASE PruneAndRestart
  BY <1>0, <1>7, PruningKeepsFlagInv DEF PruneAndRestart, NoCall, CallInv
<1>8. CASE ObserverStep
  <2>1. settled <= settled' /\ \A n \in Nonces : n <= settled => chain'[n] = chain[n]
    BY <1>0, <1>8, ObserverSteps
  <2>2. UNCHANGED <<oldestInDatabase, firstHistoricalEpoch, pc, latestNonce, oldestEpoch,
                    oldestNonce, LatestBlock, OldestBlockWithHistoricalState>>
    BY <1>8 DEF ObserverStep, flagVars, callVars
  <2>3. settled \in Nat /\ settled' \in Nat /\ EpochStart(firstHistoricalEpoch) \in Nat
    BY <1>0, <1>8, ObserverSteps, Numbers DEF ObserverTypeOK, Nonces
  <2>4. FlagInv'
    BY <1>0, <2>1, <2>2, <2>3, Numbers DEF FlagInv, EpochStart
  <2>5. CallInv'
    <3>1. CASE pc \in {"latest", "epochStart", "oldest", "answered"}
      <4>1. chain'[latestNonce] = chain[latestNonce]
            /\ chain'[EpochStart(oldestEpoch)] = chain[EpochStart(oldestEpoch)]
            /\ latestNonce <= settled'
        BY <1>0, <2>1, <2>3, <3>1, AnswerSettled, Numbers DEF Nonces
      <4> QED
        BY <1>0, <2>2, <3>1, <4>1 DEF CallInv, EpochStart
    <3>2. CASE pc \notin {"latest", "epochStart", "oldest", "answered"}
      BY <2>2, <3>2 DEF CallInv
    <3> QED
      BY <3>1, <3>2
  <2> QED
    BY <2>4, <2>5
<1>9. CASE UNCHANGED vars
  BY <1>0, <1>9 DEF vars, FlagInv, CallInv, EpochStart, observerVars, flagVars, callVars
<1> QED
  BY <1>1, <1>2, <1>3, <1>4, <1>5, <1>6, <1>7, <1>8, <1>9 DEF Next, CallStep

-----------------------------------------------------------------------------
(* Theorems *)

\* The variables of a status call keep their types, whatever the lags and the lengths of epochs:
\* no epoch or nonce becomes negative, and no block that is answered is missing.
THEOREM TypeCorrectness == Spec => []TypeOK
<1>1. Init => TypeOK /\ ChainInv
  BY InitIInv DEF IInv
<1>2. TypeOK /\ ChainInv /\ [Next]_vars => (TypeOK /\ ChainInv)'
  BY TypeStep
<1> QED
  BY <1>1, <1>2, PTL DEF Spec

\* With epochs that are long enough, the invariant holds in every reachable state.
THEOREM Invariant ==
  ASSUME EpochsAreLongEnough
  PROVE  Spec => []IInv
<1>1. IInv /\ [Next]_vars => IInv'
  BY TypeStep, CallsStep DEF IInv
<1> QED
  BY <1>1, InitIInv, PTL DEF Spec

\* Both blocks that GetNodeStatus answers are final, and the observer's still.
THEOREM StatusFinality ==
  ASSUME EpochsAreLongEnough
  PROVE  Spec => []StatusBlocksAreFinal
<1>1. IInv => StatusBlocksAreFinal
  <2> SUFFICES ASSUME IInv, pc = "answered"
               PROVE  \A b \in {LatestBlock, OldestBlockWithHistoricalState} :
                        b.nonce <= settled /\ chain[b.nonce] = b
    BY DEF StatusBlocksAreFinal, Answered
  <2>1. LatestBlock = chain[latestNonce]
        /\ OldestBlockWithHistoricalState = chain[EpochStart(oldestEpoch)]
    BY DEF IInv, CallInv
  <2>2. settled \in Nat
    BY Numbers DEF IInv
  <2> QED
    BY <2>1, <2>2, AnswerSettled DEF Nonces
<1> QED
  BY <1>1, Invariant, PTL

\* The history that is offered is not empty.
THEOREM HistoryBeforeLatest ==
  ASSUME EpochsAreLongEnough
  PROVE  Spec => []HistoryIsNotEmpty
<1>1. IInv => HistoryIsNotEmpty
  BY AnswerSettled DEF HistoryIsNotEmpty, Answered, IInv, CallInv
<1> QED
  BY <1>1, Invariant, PTL

\* The history that is offered was not pruned, with the margin of the procedure.
THEOREM HistoryIsKept ==
  ASSUME EpochsAreLongEnough
  PROVE  Spec => []HistoryIsInDatabase
<1>1. IInv => HistoryIsInDatabase
  <2> SUFFICES ASSUME IInv, pc = "answered", oldestInDatabase # 0
               PROVE  oldestInDatabase + SnapshotMargin
                        <= EpochOf(OldestBlockWithHistoricalState.nonce)
    BY DEF HistoryIsInDatabase, Answered
  <2>1. oldestInDatabase + SnapshotMargin = firstHistoricalEpoch
        /\ firstHistoricalEpoch <= oldestEpoch
    BY DEF IInv, FlagInv, CallInv
  <2>2. OldestBlockWithHistoricalState.nonce = EpochStart(oldestEpoch)
    BY AnswerSettled DEF IInv, CallInv
  <2>3. EpochOf(EpochStart(oldestEpoch)) = oldestEpoch
    BY Numbers, DivisionOfMultiple, NodeStatusAssumption DEF IInv, EpochOf, EpochStart
  <2> QED
    BY <2>1, <2>2, <2>3
<1> QED
  BY <1>1, Invariant, PTL
=============================================================================
