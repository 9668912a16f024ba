-------------------------- MODULE MCScheduledChain --------------------------
(***************************************************************************)
(* Instance of ScheduledChain: a contract call with a chain of two results *)
(* and an answer that comes back from another shard with a result of its   *)
(* own, another call with two results, and a plain transfer.               *)
(***************************************************************************)
EXTENDS ScheduledChain, ContractResults

Tx(hash, prev, src) == [hash |-> hash, prev |-> prev, src |-> src]

MCSelfShard == 1

MCPool == {
  Tx("call", "", 1), Tx("result", "call", 1), Tx("resultOfResult", "result", 1),
  Tx("callback", "call", 0), Tx("resultOfCallback", "callback", 1),
  Tx("otherCall", "", 1), Tx("otherResult", "otherCall", 1), Tx("refund", "otherCall", 1),
  Tx("transfer", "", 1)}
=============================================================================
