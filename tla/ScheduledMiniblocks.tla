------------------------- MODULE ScheduledMiniblocks -------------------------
(***************************************************************************)
(* server/provider/scheduledMiniblocks.go: which transactions take effect  *)
(* in a block, computed from the block and its two neighbours.             *)
(*                                                                         *)
(* A transaction is a record [hash, prev, src]: its hash, the hash of the  *)
(* transaction it is a contract result of, and its source shard.  A        *)
(* miniblock is a record [type, processing, txs], a block                  *)
(* [shard, miniblocks]; lists are sets, since the order is not used and    *)
(* the gathered transactions are keyed by hash.  Receipts are left out:    *)
(* the code gathers those of the current block and passes them on.         *)
(***************************************************************************)
EXTENDS Integers, FiniteSets

CONSTANT
  \* findImmediatelyExecutingContractResultsOfTransaction, which is in ContractResults: a
  \* parameter here, since it is recursive and theorems are proved about this module.
  ResultsOfTransaction(_, _, _)

\* gatherAllTransactions
AllTransactions(block) == UNION {m.txs : m \in block.miniblocks}

\* gatherScheduledTransactions
ScheduledTransactions(block) ==
  UNION {m.txs : m \in {b \in block.miniblocks : b.processing = "Scheduled"}}

\* findImmediatelyExecutingContractResults
ImmediateResults(selfShard, txs, candidates) ==
  UNION {ResultsOfTransaction(selfShard, tx, candidates) : tx \in txs}

\* Removal from, and addition to, a map keyed by hash.
WithoutHashesOf(txs, removed) ==
  {tx \in txs : \A r \in removed : tx.hash # r.hash}

Overwrite(txs, added) == WithoutHashesOf(txs, added) \cup added

\* Variation: forgets that results shown here may have been executed one block ago.
KeepsPreviousResults(selfShard, previous, current, next) ==
  LET scheduledBefore == ScheduledTransactions(previous)
      scheduledNow == ScheduledTransactions(current)
      own == IF scheduledBefore = {}
             THEN AllTransactions(current)
             ELSE WithoutHashesOf(AllTransactions(current), AllTransactions(previous))
  IN  Overwrite(own, ImmediateResults(selfShard, scheduledNow, AllTransactions(next)))

\* gatherEffectiveTransactions: what the current block shows, minus what was
\* already executed with the previous block, plus what its own scheduled
\* transactions produced, which only the next block shows.  Lists of transactions are sets here.
\* Where nothing is scheduled the code returns the list as it is, else the values of a map by
\* hash, in which of several transactions with one hash the last one stays.
EffectiveTransactions(selfShard, previous, current, next) ==
  LET scheduledBefore == ScheduledTransactions(previous)
      scheduledNow == ScheduledTransactions(current)
      own == IF scheduledBefore = {}
             THEN AllTransactions(current)
             ELSE WithoutHashesOf(
                    AllTransactions(current),
                    AllTransactions(previous)
                      \cup ImmediateResults(selfShard, scheduledBefore,
                                            AllTransactions(current)))
  IN  Overwrite(own, ImmediateResults(selfShard, scheduledNow, AllTransactions(next)))

\* doSimplifyBlockWithScheduledTransactions: the effective transactions replace the
\* block's miniblocks, in one artificial miniblock.
Simplified(previous, current, next) ==
  [current EXCEPT !.miniblocks =
     {[type |-> "Artificial", processing |-> "",
       txs |-> EffectiveTransactions(current.shard, previous, current, next)]}]
=============================================================================
