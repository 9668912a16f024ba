------------------------------ MODULE Observer ------------------------------
(***************************************************************************)
(* EXTERNAL.  The MultiversX observer that the middleware queries through  *)
(* observerFacade: the node's own chain of one shard, as its REST API      *)
(* shows it.  The node is not in src/; this module says what src/ relies   *)
(* on (server/provider/networkProvider.go, server/provider/nodeStatus.go): *)
(* blocks by nonce or by hash, and a "highest final nonce" in the status.  *)
(*                                                                         *)
(* The chain grows at its head and may lose head blocks (rollback) as long *)
(* as they are not settled.  A settled block never changes.  The status    *)
(* may lag behind (a restarted or syncing node) and may also claim final   *)
(* up to OverReport blocks that a syncing node still rolls back: the       *)
(* "rollback-related edge cases" of nodeStatus.go.                         *)
(***************************************************************************)
EXTENDS Integers

CONSTANTS
  MaxNonce,     \* bound: the highest nonce the chain reaches
  MaxBlocks,    \* bound: how many blocks are ever produced
  OverReport,   \* how far the reported highest final nonce may exceed the settled one
  NoBlock       \* "no such block"

Nonces == 0 .. MaxNonce

\* `id' stands for the block's hash, `prev' for PrevBlockHash.
Block == [nonce : Nonces, id : 0 .. MaxBlocks, prev : 0 .. MaxBlocks]

ASSUME ObserverAssumption ==
  /\ MaxNonce \in Nat
  /\ MaxBlocks \in Nat
  /\ OverReport \in Nat
  /\ NoBlock \notin Block

Genesis == [nonce |-> 0, id |-> 0, prev |-> 0]

VARIABLES
  chain,      \* the node's current chain, by nonce
  height,     \* nonce of its head
  produced,   \* blocks produced so far; the next block's id is produced + 1
  settled     \* highest nonce that is never rolled back

observerVars == <<chain, height, produced, settled>>

ObserverTypeOK ==
  /\ chain \in [Nonces -> Block \cup {NoBlock}]
  /\ height \in Nonces
  /\ produced \in 0 .. MaxBlocks
  /\ settled \in Nonces

ObserverInit ==
  /\ chain = [n \in Nonces |-> IF n = 0 THEN Genesis ELSE NoBlock]
  /\ height = 0
  /\ produced = 0
  /\ settled = 0

-----------------------------------------------------------------------------
\* A block is appended at the head.
ProduceBlock ==
  /\ height < MaxNonce
  /\ produced < MaxBlocks
  /\ height' = height + 1
  /\ produced' = produced + 1
  /\ chain' = [chain EXCEPT ![height + 1] =
                 [nonce |-> height + 1, id |-> produced + 1, prev |-> chain[height].id]]
  /\ UNCHANGED settled

\* The head is rolled back: another block may later take its nonce.
RollbackBlock ==
  /\ height > settled
  /\ chain' = [chain EXCEPT ![height] = NoBlock]
  /\ height' = height - 1
  /\ UNCHANGED <<produced, settled>>

\* One more block becomes irreversible.
SettleBlock ==
  /\ settled < height
  /\ settled' = settled + 1
  /\ UNCHANGED <<chain, height, produced>>

ObserverNext == ProduceBlock \/ RollbackBlock \/ SettleBlock

-----------------------------------------------------------------------------
\* The HighestFinalNonce values a status response may carry.
ReportableFinalNonces == 0 .. settled + OverReport

\* Whether a block request for nonce n can be answered.
HasBlock(n) == n <= height
=============================================================================
