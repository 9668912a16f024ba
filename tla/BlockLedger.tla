---------------------------- MODULE BlockLedger ----------------------------
(***************************************************************************)
(* What the block endpoint promises to somebody who syncs from it, without *)
(* any of its machinery: there is ONE append-only ledger of linked blocks, *)
(* and each answer for block n is computed from block n of that ledger and *)
(* from its two neighbours in that ledger (the neighbours decide which     *)
(* scheduled transactions take effect in block n).                         *)
(***************************************************************************)
EXTENDS Integers, Sequences

CONSTANTS
  Block,     \* records with fields nonce, id (hash) and prev (parent's hash)
  Genesis    \* the first block of the ledger

VARIABLES
  ledger,    \* the sequence of final blocks, genesis first
  served     \* the answers given so far: [self, prev, next]

ledgerVars == <<ledger, served>>

Init ==
  /\ ledger = <<Genesis>>
  /\ served = {}

\* The network finalises one more block on top of the last one.
Extend ==
  \E b \in Block :
    /\ b.prev = ledger[Len(ledger)].id
    /\ ledger' = Append(ledger, b)
    /\ UNCHANGED served

\* A block whose both neighbours are in the ledger is served.
Serve ==
  \E i \in 2 .. Len(ledger) - 1 :
    /\ served' = served \cup {[self |-> ledger[i],
                               prev |-> ledger[i - 1],
                               next |-> ledger[i + 1]]}
    /\ UNCHANGED ledger

Next == Extend \/ Serve

Spec == Init /\ [][Next]_ledgerVars
=============================================================================
