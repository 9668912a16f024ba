--------------------------- MODULE FinalityMargin ---------------------------
(***************************************************************************)
(* server/provider/nodeStatus.go: the latest nonce the middleware reports  *)
(* and serves, given the highest final nonce in the observer's status.     *)
(***************************************************************************)
EXTENDS Integers

\* getLatestNonceGivenHighestFinalNonce: "account for rollback-related edge
\* cases while node is syncing (in conjunction with scheduled miniblocks)".
nonceDelta == 2
HasLatestNonce(highestFinalNonce) == highestFinalNonce > nonceDelta

\* Variation: leaves out the margin for the N+1 block.
LatestNonceWithoutMargin(highestFinalNonce) == highestFinalNonce - 1

\* Variation: no margin at all.
FinalNonceItself(highestFinalNonce) == highestFinalNonce

LatestNonce(highestFinalNonce) == highestFinalNonce - nonceDelta
=============================================================================
