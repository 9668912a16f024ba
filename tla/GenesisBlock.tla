---------------------------- MODULE GenesisBlock ----------------------------
(***************************************************************************)
(* blockService.getGenesisBlock (server/services/blockService.go): the     *)
(* genesis block is fetched lazily, by whichever /block handler needs it   *)
(* first, and kept for the life of the process ("double-checked locking"). *)
(*                                                                         *)
(* The lock is Go's sync.RWMutex.  What the code relies on is modelled: a  *)
(* writer announces itself, which stops new readers, then waits for the    *)
(* readers inside; on Unlock the readers that were stopped get in before   *)
(* the next writer.                                                        *)
(***************************************************************************)
EXTENDS Integers, FiniteSets

CONSTANTS
  Callers,    \* the goroutines that may call getGenesisBlock
  NoOne       \* not a caller: the mutex has no writer

ASSUME CallersAssumption == NoOne \notin Callers

VARIABLES
  pc,             \* where each caller is
  block,          \* its local variable: "block", then "fetchedBlock"
  readers,        \* callers that hold the read lock
  writer,         \* the caller that holds, or waits for, the write lock
  genesisBlock,   \* the cached block: 0 is nil, k the object built by the k-th fetch
  fetches,        \* history: how many fetches succeeded
  returned        \* history: the objects returned to clients

mutexVars == <<readers, writer>>
vars == <<pc, block, readers, writer, genesisBlock, fetches, returned>>

nil == 0

Locations == {"idle", "rlock", "rwait", "read", "runlock", "lock", "drain",
              "check", "fetch", "store", "unlock"}

TypeOK ==
  /\ pc \in [Callers -> Locations]
  /\ block \in [Callers -> Nat]
  /\ readers \subseteq Callers
  /\ writer \in Callers \cup {NoOne}
  /\ genesisBlock \in Nat
  /\ fetches \in Nat
  /\ returned \subseteq Nat \ {nil}     \* no client gets nil for a block

Init ==
  /\ pc = [c \in Callers |-> "idle"]
  /\ block = [c \in Callers |-> nil]
  /\ readers = {}
  /\ writer = NoOne
  /\ genesisBlock = nil
  /\ fetches = 0
  /\ returned = {}

Goto(c, l) == pc' = [pc EXCEPT ![c] = l]

-----------------------------------------------------------------------------
\* getGenesisBlock is called.
Call(c) ==
  /\ pc[c] = "idle"
  /\ Goto(c, "rlock")
  /\ UNCHANGED <<block, mutexVars, genesisBlock, fetches, returned>>

\* RLock: an announced writer stops the reader.
RLock(c) ==
  /\ pc[c] = "rlock"
  /\ IF writer = NoOne
     THEN Goto(c, "read") /\ readers' = readers \cup {c}
     ELSE Goto(c, "rwait") /\ UNCHANGED readers
  /\ UNCHANGED <<block, writer, genesisBlock, fetches, returned>>

\* block := service.genesisBlock
Read(c) ==
  /\ pc[c] = "read"
  /\ block' = [block EXCEPT ![c] = genesisBlock]
  /\ Goto(c, "runlock")
  /\ UNCHANGED <<mutexVars, genesisBlock, fetches, returned>>

\* Variation: what was read is returned without the first check.
RUnlockAndReturn(c) ==
  /\ pc[c] = "runlock"
  /\ readers' = readers \ {c}
  /\ returned' = returned \cup {block[c]}
  /\ Goto(c, "idle")
  /\ UNCHANGED <<block, writer, genesisBlock, fetches>>

\* RUnlock, then the first check.
RUnlock(c) ==
  /\ pc[c] = "runlock"
  /\ readers' = readers \ {c}
  /\ IF block[c] # nil
     THEN Goto(c, "idle") /\ returned' = returned \cup {block[c]}
     ELSE Goto(c, "lock") /\ UNCHANGED returned
  /\ UNCHANGED <<block, writer, genesisBlock, fetches>>

\* Lock, first half: one writer at a time announces itself.
Announce(c) ==
  /\ pc[c] = "lock"
  /\ writer = NoOne
  /\ writer' = c
  /\ Goto(c, "drain")
  /\ UNCHANGED <<block, readers, genesisBlock, fetches, returned>>

\* Variation: Lock does not wait for the readers inside.
AcquireAtOnce(c) ==
  /\ pc[c] = "drain"
  /\ Goto(c, "check")
  /\ UNCHANGED <<block, mutexVars, genesisBlock, fetches, returned>>

\* Lock, second half: the readers inside have left.
Acquire(c) ==
  /\ pc[c] = "drain"
  /\ readers = {}
  /\ Goto(c, "check")
  /\ UNCHANGED <<block, mutexVars, genesisBlock, fetches, returned>>

\* Variation: no second check.
FetchAlways(c) ==
  /\ pc[c] = "check"
  /\ Goto(c, "fetch")
  /\ UNCHANGED <<block, mutexVars, genesisBlock, fetches, returned>>

\* The second check, under the write lock.
Check(c) ==
  /\ pc[c] = "check"
  /\ block' = [block EXCEPT ![c] = genesisBlock]
  /\ Goto(c, IF genesisBlock # nil THEN "unlock" ELSE "fetch")
  /\ UNCHANGED <<mutexVars, genesisBlock, fetches, returned>>

\* doGetGenesisBlock builds a response from the observer's genesis balances.
FetchSucceeds(c) ==
  /\ pc[c] = "fetch"
  /\ fetches' = fetches + 1
  /\ block' = [block EXCEPT ![c] = fetches + 1]
  /\ Goto(c, "store")
  /\ UNCHANGED <<mutexVars, genesisBlock, returned>>

\* Variation: an error returns without releasing the lock.
FetchFailsWithoutUnlock(c) ==
  /\ pc[c] = "fetch"
  /\ Goto(c, "idle")
  /\ UNCHANGED <<block, mutexVars, genesisBlock, fetches, returned>>

\* doGetGenesisBlock fails (ErrUnableToGetGenesisBlock); genesisBlock stays nil.
FetchFails(c) ==
  /\ pc[c] = "fetch"
  /\ Goto(c, "unlock")
  /\ UNCHANGED <<block, mutexVars, genesisBlock, fetches, returned>>

\* Variation: the fetched block is returned but not kept.
StoreNothing(c) ==
  /\ pc[c] = "store"
  /\ Goto(c, "unlock")
  /\ UNCHANGED <<block, mutexVars, genesisBlock, fetches, returned>>

\* service.genesisBlock = fetchedBlock
Store(c) ==
  /\ pc[c] = "store"
  /\ genesisBlock' = block[c]
  /\ Goto(c, "unlock")
  /\ UNCHANGED <<block, mutexVars, fetches, returned>>

\* The deferred Unlock lets the stopped readers in; the call returns its block,
\* or its error when it has none.
Unlock(c) ==
  /\ pc[c] = "unlock"
  /\ writer' = NoOne
  /\ readers' = readers \cup {d \in Callers : pc[d] = "rwait"}
  /\ pc' = [d \in Callers |-> IF d = c THEN "idle"
                              ELSE IF pc[d] = "rwait" THEN "read" ELSE pc[d]]
  /\ returned' = IF block[c] # nil THEN returned \cup {block[c]} ELSE returned
  /\ UNCHANGED <<block, genesisBlock, fetches>>

\* The steps of a call once it started, but for the competition for the lock.
Step(c) ==
  \/ RLock(c) \/ Read(c) \/ RUnlock(c)
  \/ Acquire(c) \/ Check(c)
  \/ FetchSucceeds(c) \/ FetchFails(c) \/ Store(c) \/ Unlock(c)

Next == \E c \in Callers : Call(c) \/ Announce(c) \/ Step(c)

Spec == Init /\ [][Next]_vars

\* Ready goroutines run, the observer's answer or a timeout ends a fetch, and
\* sync.Mutex (the writers' part of sync.RWMutex) starves nobody: a goroutine
\* that waits for more than 1 ms gets the mutex next.
Fairness == \A c \in Callers : WF_vars(Step(c)) /\ SF_vars(Announce(c))

FairSpec == Spec /\ Fairness

-----------------------------------------------------------------------------
(* Properties *)

\* service.genesisBlock is never read or written while another caller writes it:
\* the read under RLock, the second check and the assignment never overlap.
NoDataRace ==
  \A c, d \in Callers :
    c # d /\ pc[c] = "store" => pc[d] \notin {"read", "check", "store"}

\* getGenesisBlock asks the observer successfully at most once in the life of the
\* process, however many handlers miss at the same time.
FetchedAtMostOnce == fetches <= 1

\* All clients get one and the same genesis block: a block that was returned is,
\* from then on, the cached one.
OneGenesisBlock == \A b \in returned : b = genesisBlock

\* Every call of getGenesisBlock returns, also while fetches keep failing.
CallsReturn == \A c \in Callers : pc[c] # "idle" ~> pc[c] = "idle"
=============================================================================
