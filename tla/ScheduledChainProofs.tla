------------------------ MODULE ScheduledChainProofs ------------------------
(***************************************************************************)
(* Proofs about ScheduledMiniblocks over all chains of ScheduledChain: for *)
(* every pool of transactions and contract results, and any length of the  *)
(* chain, the middleware shows a transaction in the block that it was      *)
(* executed with, and in no other.                                         *)
(*                                                                         *)
(* Of the recursion in ContractResults only the defining equation is used. *)
(***************************************************************************)
EXTENDS ScheduledChain, TLAPS

\* findImmediatelyExecutingContractResultsOfTransaction, unfolded once.
DirectResultsIn(selfShard, tx, candidates) ==
  {r \in candidates : r.prev = tx.hash /\ r.src = selfShard}

RecursionUnfolds ==
  \A selfShard, tx, candidates :
    ResultsOfTransaction(selfShard, tx, candidates) =
      DirectResultsIn(selfShard, tx, candidates)
        \cup UNION {ResultsOfTransaction(selfShard, r, candidates) :
                      r \in DirectResultsIn(selfShard, tx, candidates)}

-----------------------------------------------------------------------------
(* The pool *)

\* Transactions that are not made in this shard by another transaction.
Tops == {t \in Pool : t.src # SelfShard \/ \A p \in Pool : t.prev # p.hash}

\* ResultsOf[t] is the least set of results of this shard that is closed under results.
LEMMA ResultsFacts ==
  ASSUME NEW t \in Pool
  PROVE  /\ ResultsOf[t] \subseteq Pool
         /\ ClosedUnderResults({t}, ResultsOf[t])
         /\ \A C \in SUBSET Pool : ClosedUnderResults({t}, C) => ResultsOf[t] \subseteq C
<1>1. ResultsOf[t] = {r \in Pool : \A C \in SUBSET Pool : ClosedUnderResults({t}, C) => r \in C}
  BY DEF ResultsOf
<1>2. ASSUME NEW C \in SUBSET Pool, ClosedUnderResults({t}, C)
      PROVE  ResultsOf[t] \subseteq C
  BY <1>1, <1>2
<1>3. ASSUME NEW r \in Pool, r.src = SelfShard,
             NEW p \in {t} \cup ResultsOf[t], r.prev = p.hash
      PROVE  r \in ResultsOf[t]
  <2>1. ASSUME NEW C \in SUBSET Pool, ClosedUnderResults({t}, C)
        PROVE  r \in C
    BY <1>2, <1>3, <2>1 DEF ClosedUnderResults
  <2> QED
    BY <1>1, <2>1
<1> QED
  BY <1>1, <1>2, <1>3 DEF ClosedUnderResults

\* A result was made in this shard, by t or by another result of t.
LEMMA ResultsHaveParents ==
  ASSUME NEW t \in Pool, NEW r \in ResultsOf[t]
  PROVE  r \in Pool /\ r.src = SelfShard /\ \E p \in {t} \cup ResultsOf[t] : r.prev = p.hash
<1> DEFINE C == {x \in ResultsOf[t] :
                   x.src = SelfShard /\ \E p \in {t} \cup ResultsOf[t] : x.prev = p.hash}
<1>1. C \in SUBSET Pool
  BY ResultsFacts
<1>2. ClosedUnderResults({t}, C)
  BY ResultsFacts DEF ClosedUnderResults
<1>3. ResultsOf[t] \subseteq C
  BY <1>1, <1>2, ResultsFacts
<1> QED
  BY <1>3, ResultsFacts

\* No transaction of Tops is a result of this shard.
LEMMA TopsAreNoResults ==
  ASSUME NEW t \in Pool, NEW x \in Tops
  PROVE  x \notin ResultsOf[t]
<1> SUFFICES ASSUME x \in ResultsOf[t] PROVE FALSE
  OBVIOUS
<1>1. PICK p \in {t} \cup ResultsOf[t] : x.src = SelfShard /\ x.prev = p.hash
  BY ResultsHaveParents
<1>2. p \in Pool
  BY ResultsFacts
<1> QED
  BY <1>1, <1>2 DEF Tops

\* Results belong to one transaction: a hash has one transaction, a result one cause.
LEMMA ResultsAreDisjoint ==
  ASSUME NEW x \in Tops, NEW y \in Tops, x # y
  PROVE  ResultsOf[x] \cap ResultsOf[y] = {}
<1> DEFINE C == ResultsOf[x] \ ResultsOf[y]
<1>0. x \in Pool /\ y \in Pool
  BY DEF Tops
<1>1. C \in SUBSET Pool
  BY <1>0, ResultsFacts
<1>2. ASSUME NEW r \in Pool, r.src = SelfShard, NEW p \in {x} \cup C, r.prev = p.hash
      PROVE  r \in C
  <2>1. r \in ResultsOf[x]
    BY <1>0, <1>2, ResultsFacts DEF ClosedUnderResults
  <2>2. r \notin ResultsOf[y]
    <3> SUFFICES ASSUME r \in ResultsOf[y] PROVE FALSE
      OBVIOUS
    <3>1. PICK q \in {y} \cup ResultsOf[y] : r.prev = q.hash
      BY <1>0, ResultsHaveParents
    <3>2. p \in Pool /\ q \in Pool
      BY <1>0, <1>1, ResultsFacts
    <3>3. p = q
      BY <1>2, <3>1, <3>2, PoolAssumption
    <3>4. x \notin ResultsOf[y] /\ y \notin ResultsOf[x]
      BY <1>0, TopsAreNoResults
    <3> QED
      BY <1>2, <3>1, <3>3, <3>4
  <2> QED
    BY <2>1, <2>2
<1>3. ClosedUnderResults({x}, C)
  BY <1>2 DEF ClosedUnderResults
<1>4. ResultsOf[x] \subseteq C
  BY <1>0, <1>1, <1>3, ResultsFacts
<1> QED
  BY <1>4

\* What a transaction's result makes, the transaction makes.
LEMMA ResultsOfResults ==
  ASSUME NEW t \in Pool, NEW r \in Pool, r.src = SelfShard, r.prev = t.hash
  PROVE  r \in ResultsOf[t] /\ ResultsOf[r] \subseteq ResultsOf[t]
<1>1. r \in ResultsOf[t]
  BY ResultsFacts DEF ClosedUnderResults
<1>2. ClosedUnderResults({r}, ResultsOf[t])
  BY <1>1, ResultsFacts DEF ClosedUnderResults
<1> QED
  BY <1>1, <1>2, ResultsFacts

-----------------------------------------------------------------------------
(* The recursion *)

\* The recursion reaches candidates only.  (Induction: take a transaction whose results are
\* a counterexample, while those of its own results are none.)
LEMMA ResultsAreCandidates ==
  ASSUME RecursionUnfolds, NEW C,
         \A c \in C : \E t \in Pool : c.hash = t.hash /\ c.prev = t.prev
  PROVE  \A t \in Pool : \A o : o.hash = t.hash =>
           ResultsOfTransaction(SelfShard, o, C) \subseteq C
<1> DEFINE Bad == {t \in Pool :
             ~ \A o : o.hash = t.hash => ResultsOfTransaction(SelfShard, o, C) \subseteq C}
<1> SUFFICES ASSUME Bad # {} PROVE FALSE
  OBVIOUS
<1>1. PICK t \in Bad : \A r \in Bad : r.prev # t.hash
  <2>1. Bad \in SUBSET Pool
    OBVIOUS
  <2> HIDE DEF Bad
  <2> QED
    BY <2>1, PoolAssumption
<1>2. ASSUME NEW o, o.hash = t.hash
      PROVE  ResultsOfTransaction(SelfShard, o, C) \subseteq C
  <2> DEFINE D == DirectResultsIn(SelfShard, o, C)
  <2>1. ASSUME NEW r \in D
        PROVE  r \in C /\ ResultsOfTransaction(SelfShard, r, C) \subseteq C
    <3>1. r \in C /\ r.prev = t.hash
      BY <1>2 DEF DirectResultsIn
    <3>2. PICK s \in Pool : r.hash = s.hash /\ r.prev = s.prev
      BY <3>1
    <3>3. s \notin Bad
      BY <1>1, <3>1, <3>2
    <3> QED
      BY <3>1, <3>2, <3>3
  <2>2. ResultsOfTransaction(SelfShard, o, C) =
          D \cup UNION {ResultsOfTransaction(SelfShard, r, C) : r \in D}
    BY DEF RecursionUnfolds
  <2> HIDE DEF D
  <2> QED
    BY <2>1, <2>2
<1> QED
  BY <1>1, <1>2

\* The recursion finds results of the transaction only ...
LEMMA RecursionIsSound ==
  ASSUME RecursionUnfolds, NEW C \in SUBSET Pool
  PROVE  \A t \in Pool : ResultsOfTransaction(SelfShard, t, C) \subseteq ResultsOf[t] \cap C
<1> DEFINE Bad == {t \in Pool :
                     ~(ResultsOfTransaction(SelfShard, t, C) \subseteq ResultsOf[t])}
<1>1. Bad = {}
  <2> SUFFICES ASSUME Bad # {} PROVE FALSE
    OBVIOUS
  <2>1. PICK t \in Bad : \A r \in Bad : r.prev # t.hash
    <3>1. Bad \in SUBSET Pool
      OBVIOUS
    <3> HIDE DEF Bad
    <3> QED
      BY <3>1, PoolAssumption
  <2> DEFINE D == DirectResultsIn(SelfShard, t, C)
  <2>2. ASSUME NEW r \in D
        PROVE  r \in ResultsOf[t] /\ ResultsOfTransaction(SelfShard, r, C) \subseteq ResultsOf[t]
    <3>1. r \in Pool /\ r.prev = t.hash /\ r.src = SelfShard
      BY DEF DirectResultsIn
    <3>2. r \notin Bad
      BY <2>1, <3>1
    <3> QED
      BY <3>1, <3>2, ResultsOfResults
  <2>3. ResultsOfTransaction(SelfShard, t, C) =
          D \cup UNION {ResultsOfTransaction(SelfShard, r, C) : r \in D}
    BY DEF RecursionUnfolds
  <2>4. ResultsOfTransaction(SelfShard, t, C) \subseteq ResultsOf[t]
    <3> HIDE DEF D
    <3> QED
      BY <2>2, <2>3
  <2> QED
    BY <2>4
<1>2. \A c \in C : \E t \in Pool : c.hash = t.hash /\ c.prev = t.prev
  OBVIOUS
<1> QED
  BY <1>1, <1>2, ResultsAreCandidates

\* ... and all of them, if they are all candidates.
LEMMA RecursionIsComplete ==
  ASSUME RecursionUnfolds, NEW C \in SUBSET Pool
  PROVE  \A t \in Pool : ResultsOf[t] \subseteq C =>
           ResultsOfTransaction(SelfShard, t, C) = ResultsOf[t]
<1> DEFINE R(t) == ResultsOfTransaction(SelfShard, t, C)
           Closed(t) == \A p \in R(t), r \in C : r.src = SelfShard /\ r.prev = p.hash => r \in R(t)
           Bad == {t \in Pool : ~Closed(t)}
<1>1. ASSUME NEW t \in Pool
      PROVE  R(t) = DirectResultsIn(SelfShard, t, C)
                      \cup UNION {R(r) : r \in DirectResultsIn(SelfShard, t, C)}
  BY DEF RecursionUnfolds
<1> HIDE DEF R
<1>2. Bad = {}
  <2> SUFFICES ASSUME Bad # {} PROVE FALSE
    OBVIOUS
  <2>1. PICK t \in Bad : \A r \in Bad : r.prev # t.hash
    <3>1. Bad \in SUBSET Pool
      OBVIOUS
    <3> HIDE DEF Bad
    <3> QED
      BY <3>1, PoolAssumption
  <2>2. ASSUME NEW p \in R(t), NEW r \in C, r.src = SelfShard, r.prev = p.hash
        PROVE  r \in R(t)
    <3> DEFINE D == DirectResultsIn(SelfShard, t, C)
    <3>1. R(t) = D \cup UNION {R(d) : d \in D}
      BY <1>1
    <3>2. CASE p \in D
      <4>1. p \in Pool /\ r \in DirectResultsIn(SelfShard, p, C)
        BY <2>2, <3>2 DEF DirectResultsIn
      <4>2. r \in R(p)
        BY <1>1, <4>1
      <4> HIDE DEF D
      <4> QED
        BY <3>1, <3>2, <4>2
    <3>3. ASSUME NEW d \in D, p \in R(d) PROVE r \in R(t)
      <4>1. d \in Pool /\ d.prev = t.hash
        BY DEF DirectResultsIn
      <4>2. Closed(d)
        BY <2>1, <4>1
      <4>3. r \in R(d)
        BY <2>2, <3>3, <4>2
      <4> HIDE DEF D
      <4> QED
        BY <3>1, <4>3
    <3> HIDE DEF D
    <3> QED
      BY <2>2, <3>1, <3>2, <3>3
  <2> QED
    BY <2>1, <2>2
<1>3. ASSUME NEW t \in Pool, ResultsOf[t] \subseteq C
      PROVE  R(t) = ResultsOf[t]
  <2>1. R(t) \subseteq ResultsOf[t]
    BY RecursionIsSound DEF R
  <2>2. R(t) \in SUBSET Pool
    BY <2>1, ResultsFacts
  <2>3. ClosedUnderResults({t}, R(t))
    <3> SUFFICES ASSUME NEW r \in Pool, r.src = SelfShard,
                        NEW p \in {t} \cup R(t), r.prev = p.hash
                 PROVE  r \in R(t)
      BY DEF ClosedUnderResults
    <3>1. r \in C
      BY <1>3, <2>1, ResultsFacts DEF ClosedUnderResults
    <3>2. CASE p = t
      <4>1. r \in DirectResultsIn(SelfShard, t, C)
        BY <3>1, <3>2 DEF DirectResultsIn
      <4> QED
        BY <1>1, <4>1
    <3>3. CASE p \in R(t)
      <4>1. Closed(t)
        BY <1>2
      <4> QED
        BY <3>1, <3>3, <4>1
    <3> QED
      BY <3>2, <3>3
  <2> QED
    BY <2>1, <2>2, <2>3, ResultsFacts
<1> QED
  BY <1>3 DEF R

-----------------------------------------------------------------------------
(* The chain *)

ScheduledNow == scheduled.valid \cup scheduled.invalid

\* Terms (a), (b) and (c) of gatherEffectiveTransactions.
OwnTransactions(previous, current) ==
  IF ScheduledTransactions(previous) = {} THEN AllTransactions(current)
  ELSE WithoutHashesOf(AllTransactions(current),
         AllTransactions(previous)
           \cup ImmediateResults(SelfShard, ScheduledTransactions(previous),
                                 AllTransactions(current)))

MiniblockType ==
  [type : {"TxBlock", "InvalidBlock", "SmartContractResultBlock"},
   processing : {"Scheduled", "Processed", "Normal"},
   txs : SUBSET Pool]

BlockType == [shard : {SelfShard}, miniblocks : SUBSET MiniblockType]

ChainType ==
  /\ blocks \in Seq(BlockType) /\ Len(blocks) >= 1
  /\ executed \in Seq(SUBSET Pool) /\ Len(executed) = Len(blocks)
  /\ scheduled \in [valid : SUBSET Pool, invalid : SUBSET Pool]

\* What was executed comes with the transaction that caused it in this shard.
DoneInv ==
  \A r \in Done : r \in Tops \/ \E t \in Done \cap Tops : r \in ResultsOf[t]

ShownInv ==
  \A i \in 1 .. Len(blocks) : AllTransactions(blocks[i]) \subseteq Done

\* What the last block schedules was executed with it, and its results are not yet shown.
ScheduledInv ==
  /\ scheduled.valid \cap scheduled.invalid = {}
  /\ ScheduledNow \subseteq Tops \cap Done
  /\ Results(scheduled.valid) \subseteq Done
  /\ ScheduledTransactions(blocks[Len(blocks)]) = ScheduledNow
  /\ Len(blocks) > 1 =>
       executed[Len(blocks)] =
         OwnTransactions(blocks[Len(blocks) - 1], blocks[Len(blocks)])
           \cup Results(scheduled.valid)

IInv ==
  /\ ChainType
  /\ DoneInv
  /\ ShownInv
  /\ ScheduledInv
  /\ EffectiveAreExecuted
  /\ ResultsAreComplete

\* Empty miniblocks make no difference.
LEMMA BlockFacts ==
  ASSUME NEW miniblocks
  PROVE  /\ AllTransactions(Block(miniblocks)) = UNION {m.txs : m \in miniblocks}
         /\ ScheduledTransactions(Block(miniblocks)) =
              UNION {m.txs : m \in {b \in miniblocks : b.processing = "Scheduled"}}
<1>1. Block(miniblocks).miniblocks = {m \in miniblocks : m.txs # {}}
  BY DEF Block
<1> QED
  BY <1>1 DEF AllTransactions, ScheduledTransactions

\* A block of miniblocks with transactions of the pool is well-typed.
LEMMA MiniblocksInBlock ==
  ASSUME NEW t1 \in SUBSET Pool, NEW t2 \in SUBSET Pool, NEW t3 \in SUBSET Pool,
         NEW t4 \in SUBSET Pool, NEW t5 \in SUBSET Pool
  PROVE  Block({Miniblock("TxBlock", "Scheduled", t1), Miniblock("InvalidBlock", "Normal", t2),
                Miniblock("TxBlock", "Processed", t3), Miniblock("TxBlock", "Normal", t4),
                Miniblock("SmartContractResultBlock", "Normal", t5)}) \in BlockType
<1>1. /\ Miniblock("TxBlock", "Scheduled", t1) \in MiniblockType
      /\ Miniblock("InvalidBlock", "Normal", t2) \in MiniblockType
      /\ Miniblock("TxBlock", "Processed", t3) \in MiniblockType
      /\ Miniblock("TxBlock", "Normal", t4) \in MiniblockType
      /\ Miniblock("SmartContractResultBlock", "Normal", t5) \in MiniblockType
  BY DEF Miniblock, MiniblockType
<1>2. ASSUME NEW M \in SUBSET MiniblockType PROVE Block(M) \in BlockType
  <2>1. {m \in M : m.txs # {}} \in SUBSET MiniblockType
    OBVIOUS
  <2> QED
    BY <2>1 DEF Block, BlockType
<1>3. {Miniblock("TxBlock", "Scheduled", t1), Miniblock("InvalidBlock", "Normal", t2),
       Miniblock("TxBlock", "Processed", t3), Miniblock("TxBlock", "Normal", t4),
       Miniblock("SmartContractResultBlock", "Normal", t5)} \in SUBSET MiniblockType
  BY <1>1
<1> QED
  BY <1>2, <1>3

\* A simplified block has the effective transactions.
LEMMA SimplifiedFacts ==
  ASSUME NEW previous, NEW current \in BlockType, NEW next
  PROVE  AllTransactions(Simplified(previous, current, next)) =
           EffectiveTransactions(SelfShard, previous, current, next)
<1> DEFINE txs == EffectiveTransactions(current.shard, previous, current, next)
           m == [type |-> "Artificial", processing |-> "", txs |-> txs]
<1>1. Simplified(previous, current, next).miniblocks = {m} /\ current.shard = SelfShard
  BY DEF Simplified, BlockType
<1>2. m.txs = txs
  OBVIOUS
<1>3. AllTransactions(Simplified(previous, current, next)) = txs
  <2> HIDE DEF m, txs
  <2> QED
    BY <1>1, <1>2 DEF AllTransactions
<1> QED
  BY <1>1, <1>3

\* What the next block shows, and what it schedules.
LEMMA ShowingFacts ==
  ASSUME NEW valid, NEW invalid, NEW now
  PROVE  LET b == BlockShowing(valid, invalid, now)
         IN  /\ AllTransactions(b) =
                  valid \cup invalid \cup ScheduledNow \cup now
                    \cup Results(now) \cup Results(scheduled.valid)
             /\ ScheduledTransactions(b) = valid \cup invalid
             /\ b.shard = SelfShard
<1> DEFINE m1 == Miniblock("TxBlock", "Scheduled", valid \cup invalid)
           m2 == Miniblock("InvalidBlock", "Normal", invalid \cup scheduled.invalid)
           m3 == Miniblock("TxBlock", "Processed", scheduled.valid)
           m4 == Miniblock("TxBlock", "Normal", now)
           m5 == Miniblock("SmartContractResultBlock", "Normal",
                           Results(now) \cup Results(scheduled.valid))
           b == BlockShowing(valid, invalid, now)
<1>1. /\ m1.txs = valid \cup invalid /\ m1.processing = "Scheduled"
      /\ m2.txs = invalid \cup scheduled.invalid /\ m2.processing = "Normal"
      /\ m3.txs = scheduled.valid /\ m3.processing = "Processed"
      /\ m4.txs = now /\ m4.processing = "Normal"
      /\ m5.txs = Results(now) \cup Results(scheduled.valid) /\ m5.processing = "Normal"
  BY DEF Miniblock
<1>2. b = Block({m1, m2, m3, m4, m5}) /\ b.shard = SelfShard
  BY DEF BlockShowing, Block
<1> HIDE DEF m1, m2, m3, m4, m5, b
<1>3. AllTransactions(b) = UNION {m.txs : m \in {m1, m2, m3, m4, m5}}
  BY <1>2, BlockFacts
<1>4. ScheduledTransactions(b) =
        UNION {m.txs : m \in {x \in {m1, m2, m3, m4, m5} : x.processing = "Scheduled"}}
  BY <1>2, BlockFacts
<1>5. {x \in {m1, m2, m3, m4, m5} : x.processing = "Scheduled"} = {m1}
  BY <1>1
<1>6. ScheduledTransactions(b) = valid \cup invalid
  BY <1>1, <1>4, <1>5
<1>7. AllTransactions(b) = m1.txs \cup m2.txs \cup m3.txs \cup m4.txs \cup m5.txs
  BY <1>3
<1>8. AllTransactions(b) =
        valid \cup invalid \cup ScheduledNow \cup now
          \cup Results(now) \cup Results(scheduled.valid)
  BY <1>1, <1>7 DEF ScheduledNow
<1> QED
  BY <1>2, <1>6, <1>8 DEF b

\* If all results are among the candidates, or none of them, the recursion finds just these.
LEMMA ResultsAmongCandidates ==
  ASSUME RecursionUnfolds, NEW C \in SUBSET Pool, NEW t \in Pool,
         ResultsOf[t] \subseteq C \/ ResultsOf[t] \cap C = {}
  PROVE  ResultsOfTransaction(SelfShard, t, C) = ResultsOf[t] \cap C
<1>1. CASE ResultsOf[t] \subseteq C
  <2>1. ResultsOfTransaction(SelfShard, t, C) = ResultsOf[t]
    BY <1>1, RecursionIsComplete
  <2> QED
    BY <1>1, <2>1
<1>2. CASE ResultsOf[t] \cap C = {}
  BY <1>2, RecursionIsSound
<1> QED
  BY <1>1, <1>2

\* The results found among the candidates are those of the valid scheduled transactions.
LEMMA ImmediateResultsFacts ==
  ASSUME RecursionUnfolds, NEW V \in SUBSET Pool, NEW I \in SUBSET Pool,
         NEW C \in SUBSET Pool, Results(V) \subseteq C, \A t \in I : ResultsOf[t] \cap C = {}
  PROVE  ImmediateResults(SelfShard, V \cup I, C) = Results(V)
<1>1. ASSUME NEW t \in V
      PROVE  ResultsOfTransaction(SelfShard, t, C) = ResultsOf[t]
  <2>1. ResultsOf[t] \subseteq C
    BY DEF Results
  <2> QED
    BY <2>1, RecursionIsComplete
<1>2. ASSUME NEW t \in I PROVE ResultsOfTransaction(SelfShard, t, C) = {}
  BY RecursionIsSound
<1> QED
  BY <1>1, <1>2 DEF ImmediateResults, Results

\* New transactions have results that nobody executed before.
LEMMA FreshResults ==
  ASSUME DoneInv, NEW x \in Tops, x \notin Done
  PROVE  ResultsOf[x] \cap Done = {}
<1> SUFFICES ASSUME NEW r \in Done, r \in ResultsOf[x] PROVE FALSE
  OBVIOUS
<1>1. x \in Pool
  BY DEF Tops
<1>2. r \notin Tops
  BY <1>1, TopsAreNoResults
<1>3. PICK t \in Done \cap Tops : r \in ResultsOf[t]
  BY <1>2 DEF DoneInv
<1> QED
  BY <1>3, ResultsAreDisjoint

\* The block that is produced next, with what it schedules and executes: what there is to
\* know about the transactions of the old and of the new block.
LEMMA ProduceFacts ==
  ASSUME RecursionUnfolds, IInv, ProduceBlock
  PROVE  \E valid, invalid, now \in SUBSET (Tops \ Done) :
           /\ valid \cap invalid = {}
           /\ executed' = Append(executed, ExecutedWith(valid, invalid, now))
           /\ blocks' = Append(blocks, BlockShowing(valid, invalid, now))
           /\ scheduled' = [valid |-> valid, invalid |-> invalid]
<1>1. PICK valid \in SUBSET (Sent \ Done) :
        \E invalid \in SUBSET (Sent \ (Done \cup valid)) :
        \E ordinary \in SUBSET (Sent \ (Done \cup valid \cup invalid)) :
        \E arriving \in SUBSET Arriving :
          /\ executed' = Append(executed, ExecutedWith(valid, invalid, ordinary \cup arriving))
          /\ blocks' = Append(blocks, BlockShowing(valid, invalid, ordinary \cup arriving))
          /\ scheduled' = [valid |-> valid, invalid |-> invalid]
  BY DEF ProduceBlock
<1>2. PICK invalid \in SUBSET (Sent \ (Done \cup valid)) :
        \E ordinary \in SUBSET (Sent \ (Done \cup valid \cup invalid)) :
        \E arriving \in SUBSET Arriving :
          /\ executed' = Append(executed, ExecutedWith(valid, invalid, ordinary \cup arriving))
          /\ blocks' = Append(blocks, BlockShowing(valid, invalid, ordinary \cup arriving))
          /\ scheduled' = [valid |-> valid, invalid |-> invalid]
  BY <1>1
<1>3. PICK ordinary \in SUBSET (Sent \ (Done \cup valid \cup invalid)),
           arriving \in SUBSET Arriving :
          /\ executed' = Append(executed, ExecutedWith(valid, invalid, ordinary \cup arriving))
          /\ blocks' = Append(blocks, BlockShowing(valid, invalid, ordinary \cup arriving))
          /\ scheduled' = [valid |-> valid, invalid |-> invalid]
  BY <1>2
<1>4. Sent \subseteq Tops /\ Arriving \subseteq Tops \ Done
  BY DEF Sent, Tops, Arriving
<1>5. /\ valid \in SUBSET (Tops \ Done) /\ invalid \in SUBSET (Tops \ Done)
      /\ ordinary \cup arriving \in SUBSET (Tops \ Done)
      /\ valid \cap invalid = {}
  BY <1>4
<1> QED
  BY <1>3, <1>5

\* A block that executes transactions never executed before keeps the invariant.
LEMMA ProduceStep ==
  ASSUME RecursionUnfolds, IInv,
         NEW valid \in SUBSET (Tops \ Done), NEW invalid \in SUBSET (Tops \ Done),
         NEW now \in SUBSET (Tops \ Done), valid \cap invalid = {},
         executed' = Append(executed, ExecutedWith(valid, invalid, now)),
         blocks' = Append(blocks, BlockShowing(valid, invalid, now)),
         scheduled' = [valid |-> valid, invalid |-> invalid]
  PROVE  IInv'
<1> DEFINE n == Len(blocks)
           b == BlockShowing(valid, invalid, now)
           new == ExecutedWith(valid, invalid, now)
           V == scheduled.valid
           I == scheduled.invalid
           C == AllTransactions(b)
<1>1. /\ ChainType /\ DoneInv /\ ShownInv /\ ScheduledInv
      /\ n \in Nat /\ n >= 1 /\ blocks \in Seq(BlockType)
      /\ executed \in Seq(SUBSET Pool) /\ Len(executed) = n
      /\ V \in SUBSET Pool /\ I \in SUBSET Pool
      /\ Tops \subseteq Pool
  BY DEF IInv, ChainType, Tops
<1>2. /\ C = valid \cup invalid \cup ScheduledNow \cup now \cup Results(now) \cup Results(V)
      /\ ScheduledTransactions(b) = valid \cup invalid
  BY ShowingFacts
<1>3. \A T \in SUBSET Pool : Results(T) \subseteq Pool
  BY ResultsFacts DEF Results
<1>4. b \in BlockType
  <2>1. /\ valid \cup invalid \in SUBSET Pool /\ invalid \cup I \in SUBSET Pool
        /\ now \in SUBSET Pool /\ Results(now) \cup Results(V) \in SUBSET Pool
    BY <1>1, <1>3
  <2>2. scheduled.valid \in SUBSET Pool
    BY <1>1
  <2> QED
    BY <2>1, <2>2, MiniblocksInBlock DEF BlockShowing
<1>5. new \in SUBSET Pool /\ C \in SUBSET Pool
  BY <1>1, <1>2, <1>3 DEF ExecutedWith, ScheduledNow
<1>6. /\ Len(blocks') = n + 1 /\ Len(executed') = n + 1
      /\ blocks' \in Seq(BlockType) /\ executed' \in Seq(SUBSET Pool)
      /\ blocks'[n + 1] = b /\ executed'[n + 1] = new
      /\ \A i \in 1 .. n : blocks'[i] = blocks[i] /\ executed'[i] = executed[i]
  <2> HIDE DEF b, new
  <2> QED
    BY <1>1, <1>4, <1>5 DEF b, new
<1>7. Done' = Done \cup new
  <2> HIDE DEF n, new
  <2>1. DOMAIN executed = 1 .. n /\ DOMAIN executed' = 1 .. n + 1
    BY <1>1, <1>6
  <2>2. 1 .. n + 1 = (1 .. n) \cup {n + 1}
    BY <1>1
  <2> QED
    BY <1>6, <2>1, <2>2 DEF Done
<1> HIDE DEF n, b, new
<1>8. /\ V \cap I = {} /\ ScheduledNow = V \cup I
      /\ V \subseteq Tops \cap Done /\ I \subseteq Tops \cap Done
      /\ Results(V) \subseteq Done
      /\ ScheduledTransactions(blocks[n]) = V \cup I
      /\ AllTransactions(blocks[n]) \subseteq Done
  BY <1>1 DEF ScheduledInv, ShownInv, ScheduledNow, n
<1>9. Results(now) \cap Done = {} /\ Results(now) \cap Tops = {} /\ Results(V) \cap Tops = {}
  BY <1>1, <1>8, FreshResults, TopsAreNoResults DEF Results
<1>10. \A t \in I : ResultsOf[t] \cap C = {}
  <2> SUFFICES ASSUME NEW t \in I, NEW r \in C, r \in ResultsOf[t] PROVE FALSE
    OBVIOUS
  <2>1. r \notin Tops
    BY <1>1, TopsAreNoResults
  <2>2. r \in Results(now) \cup Results(V)
    BY <1>2, <1>8, <2>1
  <2>3. PICK x \in now \cup V : r \in ResultsOf[x]
    BY <2>2 DEF Results
  <2>4. x # t /\ x \in Tops /\ t \in Tops
    BY <1>8
  <2> QED
    BY <2>3, <2>4, ResultsAreDisjoint
<1>11. ImmediateResults(SelfShard, V \cup I, C) = Results(V)
  <2>1. Results(V) \subseteq C
    BY <1>2
  <2>2. V \in SUBSET Pool /\ I \in SUBSET Pool /\ C \in SUBSET Pool
    BY <1>1, <1>5
  <2> HIDE DEF C, V, I
  <2> QED
    BY <1>10, <2>1, <2>2, ImmediateResultsFacts, Zenon
<1>12. ASSUME NEW t \in V \cup I
      PROVE  ResultsOfTransaction(SelfShard, t, C) = ResultsOf[t] \cap C
  <2>1. t \in Pool
    BY <1>1
  <2>2. CASE t \in V
    <3>1. ResultsOf[t] \subseteq C
      BY <1>2, <2>2 DEF Results
    <3> HIDE DEF C
    <3> QED
      BY <1>5, <2>1, <3>1, ResultsAmongCandidates
  <2>3. CASE t \in I
    <3>1. ResultsOf[t] \cap C = {}
      BY <1>10, <2>3
    <3> HIDE DEF C
    <3> QED
      BY <1>5, <2>1, <3>1, ResultsAmongCandidates
  <2> QED
    BY <2>2, <2>3
<1>13. ChainType' /\ ShownInv' /\ DoneInv'
  <2>1. ChainType'
    BY <1>1, <1>6 DEF ChainType
  <2>2. ShownInv'
    <3>1. C \subseteq Done'
      BY <1>2, <1>7, <1>8 DEF new, ExecutedWith
    <3> HIDE DEF C
    <3>2. AllTransactions(b) \subseteq Done'
      BY <3>1 DEF C
    <3>3. ASSUME NEW i \in 1 .. n PROVE AllTransactions(blocks'[i]) \subseteq Done'
      BY <1>1, <1>6, <1>7 DEF ShownInv, n
    <3>4. \A i \in 1 .. n + 1 : i \in 1 .. n \/ i = n + 1
      BY <1>1
    <3> QED
      BY <1>6, <3>2, <3>3, <3>4 DEF ShownInv
  <2>3. DoneInv'
    <3>1. ASSUME NEW r \in Done PROVE r \in Tops \/ \E t \in Done' \cap Tops : r \in ResultsOf[t]
      BY <1>1, <1>7 DEF DoneInv
    <3>2. ASSUME NEW r \in new PROVE r \in Tops \/ \E t \in Done' \cap Tops : r \in ResultsOf[t]
      <4>1. CASE r \in Results(valid) \cup Results(now)
        <5>1. PICK t \in valid \cup now : r \in ResultsOf[t]
          BY <4>1 DEF Results
        <5>2. t \in Tops /\ t \in Done'
          BY <1>7, <5>1 DEF new, ExecutedWith
        <5> QED
          BY <5>1, <5>2
      <4>2. CASE r \in valid \cup invalid \cup now
        BY <4>2
      <4> QED
        BY <3>2, <4>1, <4>2 DEF new, ExecutedWith
    <3> QED
      BY <1>7, <3>1, <3>2 DEF DoneInv, Tops
  <2> QED
    BY <2>1, <2>2, <2>3
<1>14. WithoutHashesOf(C, AllTransactions(blocks[n]) \cup Results(V)) =
         C \ (AllTransactions(blocks[n]) \cup Results(V))
  <2>1. AllTransactions(blocks[n]) \subseteq Pool
    <3>1. Done \subseteq Pool
      BY <1>1 DEF Done
    <3> QED
      BY <1>8, <3>1
  <2>2. AllTransactions(blocks[n]) \cup Results(V) \in SUBSET Pool
    BY <1>1, <1>3, <2>1
  <2> HIDE DEF C
  <2> QED
    BY <1>5, <2>2, PoolAssumption DEF WithoutHashesOf
<1>15. new = OwnTransactions(blocks[n], b) \cup Results(valid)
  <2> DEFINE own == valid \cup invalid \cup now \cup Results(now)
  <2>1. CASE V \cup I = {}
    <3>1. Results(V) = {}
      BY <2>1 DEF Results
    <3>2. OwnTransactions(blocks[n], b) = C
      BY <1>8, <2>1 DEF OwnTransactions
    <3> QED
      BY <1>2, <1>8, <2>1, <3>1, <3>2 DEF new, ExecutedWith
  <2>2. CASE V \cup I # {}
    <3>1. OwnTransactions(blocks[n], b) = C \ (AllTransactions(blocks[n]) \cup Results(V))
      BY <1>8, <1>11, <1>14, <2>2 DEF OwnTransactions
    <3>2. V \cup I \subseteq AllTransactions(blocks[n])
      <4>1. ScheduledTransactions(blocks[n]) \subseteq AllTransactions(blocks[n])
        BY DEF ScheduledTransactions, AllTransactions
      <4> QED
        BY <1>8, <4>1
    <3>3. own \cap (AllTransactions(blocks[n]) \cup Results(V)) = {}
      BY <1>8, <1>9
    <3>4. C = own \cup (V \cup I) \cup Results(V)
      BY <1>2, <1>8
    <3>5. OwnTransactions(blocks[n], b) = own
      <4> HIDE DEF C, V, I, own
      <4> QED
        BY <3>1, <3>2, <3>3, <3>4
    <3> QED
      BY <3>5 DEF new, ExecutedWith
  <2> QED
    BY <2>1, <2>2
<1>16. ScheduledInv'
  <2>1. /\ scheduled'.valid = valid /\ scheduled'.invalid = invalid
        /\ ScheduledNow' = valid \cup invalid
    BY DEF ScheduledNow
  <2>2. /\ valid \cup invalid \subseteq Tops \cap Done' /\ Results(valid) \subseteq Done'
    BY <1>7 DEF new, ExecutedWith
  <2>3. Tops' = Tops /\ Results(valid)' = Results(valid)
    BY DEF Tops, Results, ResultsOf
  <2>4. ScheduledTransactions(blocks'[n + 1]) = valid \cup invalid
    BY <1>2, <1>6
  <2>5. executed'[n + 1] = OwnTransactions(blocks'[n], blocks'[n + 1]) \cup Results(valid)
    <3>1. blocks'[n] = blocks[n]
      BY <1>1, <1>6
    <3> QED
      BY <1>6, <1>15, <3>1
  <2>6. (n + 1) - 1 = n
    BY <1>1
  <2> QED
    BY <1>6, <2>1, <2>2, <2>4, <2>5, <2>6 DEF ScheduledInv
<1>17. EffectiveAreExecuted'
  <2>1. ASSUME n > 1
        PROVE  EffectiveTransactions(SelfShard, blocks[n - 1], blocks[n], b) = executed[n]
    <3> DEFINE own == OwnTransactions(blocks[n - 1], blocks[n])
    <3>1. executed[n] = own \cup Results(V)
      BY <1>1, <2>1 DEF ScheduledInv, n
    <3>2. EffectiveTransactions(SelfShard, blocks[n - 1], blocks[n], b) =
            Overwrite(own, Results(V))
      BY <1>8, <1>11 DEF EffectiveTransactions, OwnTransactions
    <3>3. own \subseteq Pool /\ Results(V) \subseteq Pool
      <4>1. executed[n] \subseteq Pool
        BY <1>1
      <4> QED
        BY <3>1, <4>1
    <3> HIDE DEF own
    <3> QED
      BY <3>1, <3>2, <3>3, PoolAssumption DEF Overwrite, WithoutHashesOf
  <2>2. ASSUME NEW i \in 2 .. n
        PROVE  AllTransactions(Simplified(blocks'[i - 1], blocks'[i], blocks'[i + 1])) = executed'[i]
    <3>0. /\ i \in 1 .. n /\ i - 1 \in 1 .. n /\ blocks'[i - 1] = blocks[i - 1]
          /\ blocks'[i] = blocks[i] /\ executed'[i] = executed[i]
      BY <1>1, <1>6
    <3>1. CASE i = n
      <4>1. blocks[n] \in BlockType
        BY <1>1 DEF n
      <4>2. AllTransactions(Simplified(blocks[n - 1], blocks[n], b)) =
              EffectiveTransactions(SelfShard, blocks[n - 1], blocks[n], b)
        BY <4>1, SimplifiedFacts
      <4> QED
        BY <1>1, <1>6, <2>1, <3>0, <3>1, <4>2
    <3>2. CASE i # n
      <4>1. /\ i \in DOMAIN blocks /\ 1 < i /\ i < Len(blocks) /\ i + 1 \in 1 .. n
        BY <1>1, <3>2 DEF n
      <4>2. blocks'[i + 1] = blocks[i + 1]
        BY <1>6, <4>1
      <4>3. AllTransactions(ServedBlock(i)) = executed[i]
        BY <4>1 DEF IInv, EffectiveAreExecuted, Served
      <4> QED
        BY <3>0, <4>2, <4>3 DEF ServedBlock
    <3> QED
      BY <3>1, <3>2
  <2>3. \A i \in Served' : i \in 2 .. n
    BY <1>1, <1>6 DEF Served
  <2> QED
    BY <2>2, <2>3 DEF EffectiveAreExecuted, ServedBlock
<1>18. ResultsAreComplete'
  <2>1. ASSUME NEW i \in 1 .. n, NEW t \in ScheduledTransactions(blocks'[i])
        PROVE  LET candidates == AllTransactions(blocks'[i + 1])
               IN  ResultsOfTransaction(SelfShard, t, candidates) = ResultsOf[t] \cap candidates
    <3>0. blocks'[i] = blocks[i]
      BY <1>6
    <3>1. CASE i = n
      <4>1. blocks'[i + 1] = b /\ t \in V \cup I
        BY <1>6, <1>8, <2>1, <3>0, <3>1
      <4> QED
        BY <1>12, <4>1
    <3>2. CASE i # n
      <4>1. i \in 1 .. Len(blocks) - 1 /\ i + 1 \in 1 .. n
        BY <1>1, <3>2 DEF n
      <4>2. blocks'[i + 1] = blocks[i + 1]
        BY <1>6, <4>1
      <4>3. t \in ScheduledTransactions(blocks[i])
        BY <2>1, <3>0
      <4>4. ResultsAreComplete
        BY DEF IInv
      <4>5. ResultsOfTransaction(SelfShard, t, AllTransactions(blocks[i + 1])) =
              ResultsOf[t] \cap AllTransactions(blocks[i + 1])
        BY <4>1, <4>3, <4>4 DEF ResultsAreComplete
      <4> QED
        BY <4>2, <4>5
    <3> QED
      BY <3>1, <3>2
  <2>2. 1 .. Len(blocks') - 1 = 1 .. n
    BY <1>1, <1>6
  <2> QED
    BY <2>1, <2>2 DEF ResultsAreComplete, ResultsOf
<1> QED
  BY <1>13, <1>16, <1>17, <1>18 DEF IInv

LEMMA InitInvariant == Init => IInv
<1> SUFFICES ASSUME Init PROVE IInv
  OBVIOUS
<1>1. /\ Len(blocks) = 1 /\ blocks[1] = Block({}) /\ Len(executed) = 1 /\ executed[1] = {}
      /\ executed \in Seq(SUBSET Pool) /\ Done = {}
      /\ scheduled.valid = {} /\ scheduled.invalid = {}
  BY DEF Init, Done
<1>2. AllTransactions(blocks[1]) = {} /\ ScheduledTransactions(blocks[1]) = {}
  <2>1. AllTransactions(Block({})) = {} /\ ScheduledTransactions(Block({})) = {}
    BY BlockFacts
  <2> QED
    BY <1>1, <2>1
<1>3. ChainType
  <2>1. Block({}) \in BlockType
    BY DEF Block, BlockType
  <2>2. blocks \in Seq(BlockType)
    BY <2>1 DEF Init
  <2> QED
    BY <1>1, <2>2 DEF Init, ChainType
<1>4. DoneInv /\ ShownInv
  BY <1>1, <1>2 DEF DoneInv, ShownInv
<1>5. ScheduledInv
  <2>1. Results({}) = {}
    BY DEF Results
  <2> QED
    BY <1>1, <1>2, <2>1 DEF ScheduledInv, ScheduledNow
<1>6. EffectiveAreExecuted /\ ResultsAreComplete
  BY <1>1 DEF EffectiveAreExecuted, Served, ResultsAreComplete
<1> QED
  BY <1>3, <1>4, <1>5, <1>6 DEF IInv

LEMMA Invariant ==
  ASSUME RecursionUnfolds
  PROVE  Spec => []IInv
<1>1. IInv /\ [Next]_vars => IInv'
  <2> SUFFICES ASSUME IInv, [Next]_vars PROVE IInv'
    OBVIOUS
  <2>1. CASE ProduceBlock
    <3>1. PICK valid, invalid, now \in SUBSET (Tops \ Done) :
            /\ valid \cap invalid = {}
            /\ executed' = Append(executed, ExecutedWith(valid, invalid, now))
            /\ blocks' = Append(blocks, BlockShowing(valid, invalid, now))
            /\ scheduled' = [valid |-> valid, invalid |-> invalid]
      BY <2>1, ProduceFacts
    <3> QED
      BY <3>1, ProduceStep
  <2>2. CASE UNCHANGED vars
    <3>1. blocks' = blocks /\ executed' = executed /\ scheduled' = scheduled
      BY <2>2 DEF vars
    <3>2. Done' = Done /\ ScheduledNow' = ScheduledNow
      BY <3>1 DEF Done, ScheduledNow
    <3>3. ChainType' /\ DoneInv' /\ ShownInv'
      BY <3>1, <3>2 DEF IInv, ChainType, DoneInv, ShownInv
    <3>4. ScheduledInv'
      BY <3>1, <3>2 DEF IInv, ScheduledInv
    <3>5. EffectiveAreExecuted' /\ ResultsAreComplete'
      BY <3>1 DEF IInv, EffectiveAreExecuted, Served, ServedBlock, ResultsAreComplete
    <3> QED
      BY <3>3, <3>4, <3>5 DEF IInv
  <2> QED
    BY <2>1, <2>2 DEF Next, Stop
<1> QED
  BY <1>1, InitInvariant, PTL DEF Spec

-----------------------------------------------------------------------------
(* The objects that are served *)

\* A copy has one object, owned by its block, for each transaction.
LEMMA CopyFacts ==
  ASSUME ChainType, NEW i \in 1 .. Len(blocks)
  PROVE  /\ BlockCopy(i).shard = SelfShard
         /\ \A o \in AllTransactions(BlockCopy(i)) :
              o.owner = i /\ \E t \in Pool : o.hash = t.hash /\ o.prev = t.prev
         /\ ScheduledTransactions(BlockCopy(i)) \subseteq AllTransactions(BlockCopy(i))
<1> DEFINE Copies(m) == {[hash |-> t.hash, prev |-> t.prev, src |-> t.src, owner |-> i] :
                           t \in m.txs}
           Copied == {[m EXCEPT !.txs = Copies(m)] : m \in blocks[i].miniblocks}
<1>1. blocks[i] \in BlockType
  BY DEF ChainType
<1>2. BlockCopy(i).shard = SelfShard /\ BlockCopy(i).miniblocks = Copied
  BY <1>1 DEF BlockCopy, BlockType
<1>3. ASSUME NEW c \in Copied, NEW o \in c.txs
      PROVE  o.owner = i /\ \E t \in Pool : o.hash = t.hash /\ o.prev = t.prev
  <2>1. PICK m \in blocks[i].miniblocks : c = [m EXCEPT !.txs = Copies(m)]
    BY <1>3
  <2>2. m \in MiniblockType
    BY <1>1 DEF BlockType
  <2>3. c.txs = Copies(m) /\ m.txs \in SUBSET Pool
    BY <2>1, <2>2 DEF MiniblockType
  <2>4. PICK t \in m.txs : o = [hash |-> t.hash, prev |-> t.prev, src |-> t.src, owner |-> i]
    BY <1>3, <2>3
  <2> QED
    BY <2>3, <2>4
<1> HIDE DEF Copied
<1> QED
  BY <1>2, <1>3 DEF AllTransactions, ScheduledTransactions

\* Block i is served with objects of block i, and with some of block i + 1 that are results
\* of what block i schedules.
LEMMA StampedFacts ==
  ASSUME RecursionUnfolds, ChainType, NEW i \in Served
  PROVE  LET results == ImmediateResults(SelfShard, ScheduledTransactions(BlockCopy(i)),
                                         AllTransactions(BlockCopy(i + 1)))
             own == OwnTransactions(BlockCopy(i - 1), BlockCopy(i))
         IN  /\ StampedObjects(i) \subseteq own \cup results
             /\ \A o \in own : o.owner = i
             /\ \A o \in results : o.owner = i + 1
<1> DEFINE S == ScheduledTransactions(BlockCopy(i))
           C == AllTransactions(BlockCopy(i + 1))
           results == ImmediateResults(SelfShard, S, C)
           own == OwnTransactions(BlockCopy(i - 1), BlockCopy(i))
<1>1. i \in 1 .. Len(blocks) /\ i + 1 \in 1 .. Len(blocks) /\ blocks[i] \in BlockType
  BY DEF Served, ChainType
<1>2. /\ BlockCopy(i).shard = SelfShard
      /\ \A o \in AllTransactions(BlockCopy(i)) : o.owner = i
      /\ \A o \in S : \E t \in Pool : o.hash = t.hash
  BY <1>1, CopyFacts
<1>3. /\ \A o \in C : o.owner = i + 1
      /\ \A c \in C : \E t \in Pool : c.hash = t.hash /\ c.prev = t.prev
  BY <1>1, CopyFacts
<1>4. StampedObjects(i) = Overwrite(own, results)
  <2> DEFINE m == [type |-> "Artificial", processing |-> "",
                     txs |-> EffectiveTransactions(BlockCopy(i).shard, BlockCopy(i - 1),
                                                   BlockCopy(i), BlockCopy(i + 1))]
  <2>2. Simplified(BlockCopy(i - 1), BlockCopy(i), BlockCopy(i + 1)).miniblocks = {m}
    BY <1>1 DEF Simplified, BlockCopy, BlockType
  <2>3. m.txs = EffectiveTransactions(SelfShard, BlockCopy(i - 1), BlockCopy(i), BlockCopy(i + 1))
    BY <1>2
  <2>4. StampedObjects(i) = m.txs
    <3> HIDE DEF m
    <3> QED
      BY <2>2 DEF StampedObjects, AllTransactions
  <2> QED
    BY <2>3, <2>4 DEF EffectiveTransactions, OwnTransactions
<1>5. own \subseteq AllTransactions(BlockCopy(i))
  BY DEF OwnTransactions, WithoutHashesOf
<1>6. results \subseteq C
  <2>1. ASSUME NEW o \in S PROVE ResultsOfTransaction(SelfShard, o, C) \subseteq C
    <3> HIDE DEF C, S
    <3>1. \A t \in Pool : \A x : x.hash = t.hash =>
            ResultsOfTransaction(SelfShard, x, C) \subseteq C
      BY <1>3, ResultsAreCandidates
    <3> QED
      BY <1>2, <2>1, <3>1
  <2> HIDE DEF C, S
  <2> QED
    BY <2>1 DEF ImmediateResults
<1> QED
  BY <1>2, <1>3, <1>4, <1>5, <1>6 DEF Overwrite, WithoutHashesOf

-----------------------------------------------------------------------------
(* The theorems *)

\* gatherEffectiveTransactions serves, in each block, exactly the transactions that took
\* effect with it, whatever is scheduled, invalid, ordinary or arrives from other shards.
THEOREM ServedAreExecuted ==
  ASSUME RecursionUnfolds
  PROVE  Spec => []EffectiveAreExecuted
<1>1. IInv => EffectiveAreExecuted
  BY DEF IInv
<1> QED
  BY <1>1, Invariant, PTL

\* findImmediatelyExecutingContractResultsOfTransaction finds all results that a scheduled
\* transaction made in this shard, directly or not, and no other.
THEOREM RecursionFindsTheResults ==
  ASSUME RecursionUnfolds
  PROVE  Spec => []ResultsAreComplete
<1>1. IInv => ResultsAreComplete
  BY DEF IInv
<1> QED
  BY <1>1, Invariant, PTL

\* A cached transaction object is only ever stamped with the nonce of one block: handlers of
\* neighbouring blocks do not overwrite each other's block number, though they share objects.
THEOREM ObjectsHaveOneBlock ==
  ASSUME RecursionUnfolds
  PROVE  Spec => []ObjectsAreStampedForOneBlock
<1>1. ASSUME ChainType, NEW i \in Served, NEW j \in Served, i < j
      PROVE  StampedObjects(i) \cap StampedObjects(j) = {}
  <2> SUFFICES ASSUME NEW o \in StampedObjects(i), o \in StampedObjects(j) PROVE FALSE
    OBVIOUS
  <2> DEFINE Results1(k) == ImmediateResults(SelfShard, ScheduledTransactions(BlockCopy(k)),
                                            AllTransactions(BlockCopy(k + 1)))
             Own(k) == OwnTransactions(BlockCopy(k - 1), BlockCopy(k))
  <2>0. i \in Nat /\ j \in Nat
    BY <1>1 DEF Served, ChainType
  <2>1. /\ o \in Own(i) \cup Results1(i) /\ o \in Own(j) \cup Results1(j)
        /\ o \in Own(i) => o.owner = i
        /\ o \in Results1(i) => o.owner = i + 1
        /\ o \in Own(j) => o.owner = j
        /\ o \in Results1(j) => o.owner = j + 1
    BY <1>1, StampedFacts
  <2>2. j = i + 1 /\ o \in Results1(i) /\ o \in Own(j)
    <3> HIDE DEF Own, Results1
    <3> QED
      BY <1>1, <2>0, <2>1
  <2>3. j - 1 = i /\ i + 1 = j
    BY <2>0, <2>2
  <2>4. o \in ImmediateResults(SelfShard, ScheduledTransactions(BlockCopy(i)),
                               AllTransactions(BlockCopy(j)))
    BY <2>2, <2>3
  <2>5. o \in OwnTransactions(BlockCopy(i), BlockCopy(j))
    BY <2>2, <2>3
  <2>6. ScheduledTransactions(BlockCopy(i)) # {}
    BY <2>4 DEF ImmediateResults
  <2> QED
    BY <2>4, <2>5, <2>6 DEF OwnTransactions, WithoutHashesOf
<1>2. ASSUME ChainType PROVE ObjectsAreStampedForOneBlock
  <2>1. ASSUME NEW i \in Served, NEW j \in Served, i # j
        PROVE  StampedObjects(i) \cap StampedObjects(j) = {}
    <3>1. i < j \/ j < i
      BY <1>2, <2>1 DEF Served, ChainType
    <3> QED
      BY <1>1, <1>2, <3>1
  <2> QED
    BY <2>1 DEF ObjectsAreStampedForOneBlock
<1>3. IInv => ObjectsAreStampedForOneBlock
  BY <1>2 DEF IInv
<1> QED
  BY <1>3, Invariant, PTL
=============================================================================
