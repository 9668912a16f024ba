------------------------- MODULE GenesisBlockProofs -------------------------
(***************************************************************************)
(* Proofs about GenesisBlock, for any number of callers.  The inductive    *)
(* invariant says who may be where given the mutex (LockInv), and what is  *)
(* known of genesisBlock at each place under the write lock (FetchInv).    *)
(***************************************************************************)
EXTENDS GenesisBlock, TLAPS

Exclusive == {"check", "fetch", "store", "unlock"}

LockInv ==
  /\ \A c \in Callers : writer = c <=> pc[c] \in Exclusive \cup {"drain"}
  /\ \A c \in Callers : c \in readers <=> pc[c] \in {"read", "runlock"}
  /\ \A c \in Callers : pc[c] \in Exclusive => readers = {}

FetchInv ==
  /\ fetches \in {0, 1}
  /\ genesisBlock \in {nil, 1} /\ genesisBlock <= fetches
  /\ genesisBlock # fetches => \E c \in Callers : pc[c] = "store"
  /\ \A c \in Callers : pc[c] = "fetch" => fetches = 0 /\ block[c] = nil
  /\ \A c \in Callers : pc[c] = "store" => genesisBlock = nil /\ fetches = 1 /\ block[c] = 1
  /\ \A c \in Callers : pc[c] \in {"runlock", "unlock"} => block[c] \in {nil, genesisBlock}
  /\ \A b \in returned : b = genesisBlock

IInv == TypeOK /\ LockInv /\ FetchInv

\* Initially nobody is under the lock and nothing was fetched.
LEMMA InitIInv == Init => IInv
BY CallersAssumption
DEF Init, IInv, TypeOK, LockInv, FetchInv, Locations, Exclusive, nil

\* The calls and the steps under the read lock preserve the invariant.
LEMMA ReadSteps ==
  ASSUME IInv, NEW c \in Callers, Call(c) \/ RLock(c) \/ Read(c) \/ RUnlock(c)
  PROVE  IInv'
<1> USE CallersAssumption
<1> USE DEF IInv, TypeOK, LockInv, FetchInv, Locations, Exclusive, nil, mutexVars, Goto
<1>1. CASE Call(c)
  BY <1>1 DEF Call
<1>2. CASE RLock(c)
  <2>1. CASE writer = NoOne
    BY <1>2, <2>1 DEF RLock
  <2>2. CASE writer # NoOne
    BY <1>2, <2>2 DEF RLock
  <2> QED
    BY <2>1, <2>2
<1>3. CASE Read(c)
  BY <1>3 DEF Read
<1>4. CASE RUnlock(c)
  <2>1. CASE block[c] # nil
    <3>1. /\ pc' = [pc EXCEPT ![c] = "idle"] /\ readers' = readers \ {c}
          /\ returned' = returned \cup {block[c]} /\ block[c] \in Nat \ {nil}
          /\ UNCHANGED <<block, writer, genesisBlock, fetches>>
      BY <1>4, <2>1 DEF RUnlock
    <3>2. TypeOK'
      BY <3>1
    <3>3. LockInv'
      BY <1>4, <3>1 DEF RUnlock
    <3>4. FetchInv'
      BY <1>4, <3>1 DEF RUnlock
    <3> QED
      BY <3>2, <3>3, <3>4
  <2>2. CASE block[c] = nil
    <3>1. /\ pc' = [pc EXCEPT ![c] = "lock"] /\ readers' = readers \ {c}
          /\ UNCHANGED <<block, writer, genesisBlock, fetches, returned>>
      BY <1>4, <2>2 DEF RUnlock
    <3>2. TypeOK'
      BY <3>1
    <3>3. LockInv' /\ FetchInv'
      BY <1>4, <2>2 DEF RUnlock
    <3> QED
      BY <3>2, <3>3
  <2> QED
    BY <2>1, <2>2
<1> QED
  BY <1>1, <1>2, <1>3, <1>4

\* The steps around the write lock preserve the invariant.
LEMMA WriteSteps ==
  ASSUME IInv, NEW c \in Callers,
         Announce(c) \/ Acquire(c) \/ Check(c) \/ FetchSucceeds(c) \/ FetchFails(c)
         \/ Store(c) \/ Unlock(c)
  PROVE  IInv'
<1> USE CallersAssumption
<1> USE DEF IInv, TypeOK, LockInv, FetchInv, Locations, Exclusive, nil, mutexVars, Goto
<1>1. CASE Announce(c)
  BY <1>1 DEF Announce
<1>2. CASE Acquire(c)
  BY <1>2 DEF Acquire
<1>3. CASE Check(c)
  <2>1. CASE genesisBlock # nil
    BY <1>3, <2>1 DEF Check
  <2>2. CASE genesisBlock = nil
    BY <1>3, <2>2 DEF Check
  <2> QED
    BY <2>1, <2>2
<1>4. CASE FetchSucceeds(c)
  BY <1>4 DEF FetchSucceeds
<1>5. CASE FetchFails(c)
  BY <1>5 DEF FetchFails
<1>6. CASE Store(c)
  BY <1>6 DEF Store
<1>7. CASE Unlock(c)
  BY <1>7 DEF Unlock
<1> QED
  BY <1>1, <1>2, <1>3, <1>4, <1>5, <1>6, <1>7

\* The invariant holds in every reachable state.
LEMMA Invariance == Spec => []IInv
<1>1. IInv /\ [Next]_vars => IInv'
  <2> SUFFICES ASSUME IInv, [Next]_vars PROVE IInv'
    OBVIOUS
  <2>1. CASE UNCHANGED vars
    BY <2>1 DEF vars, mutexVars, IInv, TypeOK, LockInv, FetchInv
  <2> QED
    BY <2>1, ReadSteps, WriteSteps DEF Next, Step
<1> QED
  BY <1>1, InitIInv, PTL DEF Spec
\* Every variable of getGenesisBlock and of its lock keeps its type.
THEOREM TypeCorrectness == Spec => []TypeOK
<1>1. IInv => TypeOK
  BY DEF IInv
<1> QED
  BY <1>1, Invariance, PTL

\* service.genesisBlock is never accessed while somebody else writes it.
THEOREM RaceFreedom == Spec => []NoDataRace
<1>1. IInv => NoDataRace
  BY DEF IInv, NoDataRace, LockInv, Exclusive
<1> QED
  BY <1>1, Invariance, PTL

\* At most one fetch of the genesis block succeeds, for any number of callers.
THEOREM SingleFetch == Spec => []FetchedAtMostOnce
<1>1. IInv => FetchedAtMostOnce
  BY DEF IInv, FetchInv, FetchedAtMostOnce
<1> QED
  BY <1>1, Invariance, PTL

\* All clients get the same genesis block.
THEOREM GenesisAgreement == Spec => []OneGenesisBlock
<1>1. IInv => OneGenesisBlock
  BY DEF IInv, FetchInv, OneGenesisBlock
<1> QED
  BY <1>1, Invariance, PTL
=============================================================================
