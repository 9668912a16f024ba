--------------------------- MODULE ScheduledChain ---------------------------
(***************************************************************************)
(* EXTERNAL environment of ScheduledMiniblocks: the blocks the MultiversX  *)
(* protocol produces around scheduled transactions, as the comments and    *)
(* the tests of server/provider/scheduledMiniblocks*.go describe them,     *)
(* together with the transactions that were really executed with each of   *)
(* them.                                                                   *)
(*                                                                         *)
(*  - A transaction scheduled in block N is executed with block N.  Block  *)
(*    N+1 shows it again, in a "Processed" miniblock, with the contract    *)
(*    results it produced in its shard.                                    *)
(*  - When it turns out invalid it has no results, and it is shown in an   *)
(*    "Invalid" miniblock both of block N and of block N+1.                *)
(*  - Any other transaction is shown, with its results, in the one block   *)
(*    it is executed with.  A result that comes from another shard is      *)
(*    executed when it arrives, in any later block, with its own results.  *)
(***************************************************************************)
EXTENDS ScheduledMiniblocks, Sequences

CONSTANTS
  Pool,          \* all transactions and contract results there are
  SelfShard,     \* the observed shard
  MaxLength      \* bound: how many blocks are produced after genesis

ASSUME PoolAssumption ==
  /\ \A s, t \in Pool : s.hash = t.hash => s = t
  \* No transaction is, directly or not, its own result; chains of results are finite.
  /\ \A T \in SUBSET Pool : T # {} => \E t \in T : \A r \in T : r.prev # t.hash
  /\ MaxLength \in Nat

VARIABLES
  blocks,      \* the chain; blocks[1] is genesis
  executed,    \* executed[i]: the transactions that took effect with blocks[i]
  scheduled    \* those scheduled in the last block: [valid, invalid]

vars == <<blocks, executed, scheduled>>

\* Transactions a user sent; results are in the pool because a transaction makes them.
Sent == {t \in Pool : \A p \in Pool : t.prev # p.hash}

\* The set C contains every result made in this shard by transactions of T.
ClosedUnderResults(T, C) ==
  \A r \in Pool : r.src = SelfShard /\ (\E p \in T \cup C : r.prev = p.hash) => r \in C

\* The results that executing t makes in this shard: the least closed set.
ResultsOf == [t \in Pool |->
  {r \in Pool : \A C \in SUBSET Pool : ClosedUnderResults({t}, C) => r \in C}]

Results(T) == UNION {ResultsOf[t] : t \in T}
Done == UNION {executed[i] : i \in DOMAIN executed}

\* Results of other shards that may arrive: their cause was executed before.
Arriving == {r \in Pool \ Done : r.src # SelfShard /\ \E p \in Done : r.prev = p.hash}

Miniblock(type, processing, txs) ==
  [type |-> type, processing |-> processing, txs |-> txs]

Block(miniblocks) ==
  [shard |-> SelfShard, miniblocks |-> {m \in miniblocks : m.txs # {}}]

Init ==
  /\ blocks = <<Block({})>>
  /\ executed = <<{}>>
  /\ scheduled = [valid |-> {}, invalid |-> {}]

\* What a block shows that schedules some transactions and executes others now ...
BlockShowing(valid, invalid, now) ==
  Block({
    Miniblock("TxBlock", "Scheduled", valid \cup invalid),
    Miniblock("InvalidBlock", "Normal", invalid \cup scheduled.invalid),
    Miniblock("TxBlock", "Processed", scheduled.valid),
    Miniblock("TxBlock", "Normal", now),
    Miniblock("SmartContractResultBlock", "Normal", Results(now) \cup Results(scheduled.valid))})

\* ... and what is really executed with it.
ExecutedWith(valid, invalid, now) ==
  valid \cup invalid \cup Results(valid) \cup now \cup Results(now)

ProduceBlock ==
  /\ Len(blocks) <= MaxLength
  /\ \E valid \in SUBSET (Sent \ Done) :
     \E invalid \in SUBSET (Sent \ (Done \cup valid)) :
     \E ordinary \in SUBSET (Sent \ (Done \cup valid \cup invalid)) :
     \E arriving \in SUBSET Arriving :
       LET now == ordinary \cup arriving
       IN  /\ executed' = Append(executed, ExecutedWith(valid, invalid, now))
           /\ blocks' = Append(blocks, BlockShowing(valid, invalid, now))
           /\ scheduled' = [valid |-> valid, invalid |-> invalid]

\* The bounded chain is complete.
Stop == Len(blocks) > MaxLength /\ UNCHANGED vars

Next == ProduceBlock \/ Stop

Spec == Init /\ [][Next]_vars

-----------------------------------------------------------------------------
(* What src/ does with the chain *)

\* The copy that doGetBlockByNonce returns of the cached block i.  createBlockCopy copies
\* the lists of transactions but not the transactions, which are pointers: `owner' tells
\* from which cached block such an object is.
BlockCopy(i) ==
  [blocks[i] EXCEPT !.miniblocks =
     {[m EXCEPT !.txs = {[hash |-> t.hash, prev |-> t.prev, src |-> t.src, owner |-> i] :
                           t \in m.txs}] : m \in blocks[i].miniblocks}]

\* The transaction objects that transformBlockTxs gets for block i, and into each of which
\* it writes the nonce of block i, without a lock.
StampedObjects(i) ==
  AllTransactions(Simplified(BlockCopy(i - 1), BlockCopy(i), BlockCopy(i + 1)))

-----------------------------------------------------------------------------
(* Properties *)

\* The blocks that can be served: both neighbours exist.
Served == {i \in DOMAIN blocks : 1 < i /\ i < Len(blocks)}

ServedBlock(i) == Simplified(blocks[i - 1], blocks[i], blocks[i + 1])

\* The transactions of a served block (gatherEffectiveTransactions) are exactly those
\* that were executed with it, for any mix of scheduled, invalid, ordinary and
\* cross-shard transactions in three consecutive blocks.
EffectiveAreExecuted ==
  \A i \in Served : AllTransactions(ServedBlock(i)) = executed[i]

\* The recursion of findImmediatelyExecutingContractResultsOfTransaction finds, in the
\* block where they are shown, all results a scheduled transaction made in this shard
\* and no result that another shard made.
ResultsAreComplete ==
  \A i \in 1 .. Len(blocks) - 1 :
    LET candidates == AllTransactions(blocks[i + 1])
    IN  \A t \in ScheduledTransactions(blocks[i]) :
          ResultsOfTransaction(SelfShard, t, candidates) = ResultsOf[t] \cap candidates

\* A cached transaction object is stamped with the nonce of one block only, though a block
\* is served with objects of the next one, too: handlers of neighbouring blocks never
\* overwrite each other's nonce (transactionsTransformer.go:39).  "We don't mutate the
\* transactions themselves", says networkProvider.go:277; transformBlockTxs does, and this
\* is why it does no harm.
ObjectsAreStampedForOneBlock ==
  \A i, j \in Served : i # j => StampedObjects(i) \cap StampedObjects(j) = {}
=============================================================================
