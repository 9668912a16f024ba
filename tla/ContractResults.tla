--------------------------- MODULE ContractResults ---------------------------
(***************************************************************************)
(* The recursion of server/provider/scheduledMiniblocks.go: the contract   *)
(* results that a scheduled transaction made in its own shard.             *)
(***************************************************************************)

\* directContractResultsByHash, for one transaction, without the results of other shards.
DirectResults(selfShard, tx, candidates) ==
  {r \in candidates : r.prev = tx.hash /\ r.src = selfShard}

\* Variation: only the direct results of a transaction.
WithoutDescendants(selfShard, tx, candidates) == DirectResults(selfShard, tx, candidates)

\* findImmediatelyExecutingContractResultsOfTransaction: the results of tx that
\* do not come from another shard and, recursively, their own results.
RECURSIVE ImmediatelyExecutingResults(_, _, _)
ImmediatelyExecutingResults(selfShard, tx, candidates) ==
  LET direct == DirectResults(selfShard, tx, candidates)
  IN  direct \cup UNION {ImmediatelyExecutingResults(selfShard, r, candidates) : r \in direct}
=============================================================================
