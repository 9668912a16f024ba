--------------------------- MODULE RosettaServer ---------------------------
(***************************************************************************)
(* The process: cmd/rosetta/main.go turns flags into a network provider,   *)
(* server/factory/controllers.go gives each endpoint a service, online or  *)
(* offline, and the services answer requests, with the errors of           *)
(* server/services/errors.go.  What an endpoint computes is left to other  *)
(* modules; here it either asks the observer or does not.                  *)
(*                                                                         *)
(* Clients are external: they send requests, and repeat one that failed    *)
(* with a retriable error.  What becomes of a request depends on its kind: *)
(*   "served"     the observer can serve it                                *)
(*   "malformed"  the service itself finds the fault                       *)
(*   "underpaid"  its gas limit or gas price is too low                    *)
(*   "hopeless"   it will never be served, and only the client can know:   *)
(*                the block or account does not exist, an identifier is    *)
(*                none, the transaction was executed or is dead            *)
(***************************************************************************)
EXTENDS Integers

CONSTANTS
  Clients,             \* connections, with one request at a time each
  GenesisTimestamps    \* values of the flag genesis-timestamp

ASSUME ServerAssumption == GenesisTimestamps \subseteq Nat \ {0}

VARIABLES
  phase,      \* "down", "up", "deaf" or "stopping"
  flags,      \* what the operator started the process with
  provider,   \* networkProvider's configuration
  pc,         \* pc[c]: "idle", "routed", "asking" or "answered"
  endpoint,   \* endpoint[c]: where the request of c goes
  kind,       \* kind[c]: what can become of it
  answer      \* answer[c]: "ok", an error code, or why there is none

vars == <<phase, flags, provider, pc, endpoint, kind, answer>>

-----------------------------------------------------------------------------
(* Routing and errors *)

\* Endpoints that have an online and an offline service.
AccountEndpoints == {"account/balance", "account/coins"}
BlockEndpoints == {"block", "block:genesis", "block/transaction"}
MempoolEndpoints == {"mempool", "mempool/transaction"}

\* Endpoints served in both modes by the same service.
NetworkEndpoints == {"network/list", "network/status", "network/options"}
LocalConstructionEndpoints ==
  {"construction/derive", "construction/preprocess", "construction/payloads",
   "construction/parse", "construction/combine", "construction/hash"}
ConstructionEndpoints ==
  LocalConstructionEndpoints \cup {"construction/metadata", "construction/submit"}

Endpoints == AccountEndpoints \cup BlockEndpoints \cup MempoolEndpoints
               \cup NetworkEndpoints \cup ConstructionEndpoints

NotImplemented == {"account/coins", "block/transaction", "mempool"}

\* Those that need the observer, and what they answer when it does not deliver.
ObserverError ==
  [e \in {"account/balance", "block", "block:genesis", "mempool/transaction",
          "network/status", "network/options", "construction/metadata",
          "construction/submit"} |->
     CASE e \in {"account/balance", "construction/metadata"} -> "ErrUnableToGetAccount"
       [] e = "block" -> "ErrUnableToGetBlock"
       [] e = "block:genesis" -> "ErrUnableToGetGenesisBlock"
       [] e = "mempool/transaction" -> "ErrCannotParsePoolTransaction"
       [] e \in {"network/status", "network/options"} -> "ErrUnableToGetNodeStatus"
       [] e = "construction/submit" -> "ErrUnableToSubmitTransaction"]

\* The kinds of request that an endpoint may get.
Kinds(e) ==
  {"served"}
    \cup (IF e \in {"account/balance", "block", "construction/metadata", "construction/submit"}
                      \cup LocalConstructionEndpoints
          THEN {"malformed"} ELSE {})
    \cup (IF e = "construction/metadata" THEN {"underpaid"} ELSE {})
    \cup (IF e \in {"account/balance", "block", "mempool/transaction",
                    "construction/metadata", "construction/submit"}
          THEN {"hopeless"} ELSE {})

\* Variation: an error that will not go away is declared with the retriable ones.
RetriableWithNotImplemented ==
  {"ErrUnableToGetAccount", "ErrUnableToGetBlock", "ErrUnableToGetGenesisBlock",
   "ErrUnableToGetNodeStatus", "ErrUnableToSubmitTransaction", "ErrTransactionIsNotInPool",
   "ErrNotImplemented"}

\* createErrPrototypes: the errors that a client may retry, and what else is answered.
Retriable ==
  {"ErrUnableToGetAccount", "ErrUnableToGetBlock", "ErrUnableToGetGenesisBlock",
   "ErrUnableToGetNodeStatus", "ErrUnableToSubmitTransaction", "ErrTransactionIsNotInPool"}
Final ==
  {"ErrCannotParsePoolTransaction", "ErrNotImplemented", "ErrOfflineMode", "ErrRequest"}
NoAnswer == {"none", "panic", "cut"}

\* CreateControllers
ServiceOf(e) ==
  IF provider.isOffline /\ e \in AccountEndpoints \cup BlockEndpoints \cup MempoolEndpoints
  THEN "offline" ELSE "online"

\* Variation: metadata leaves offline mode to the provider.
ServiceChecksWithoutMetadata == {"network/status", "network/options", "construction/submit"}

\* Endpoints whose service looks at IsOffline before it calls the provider ...
ServiceChecks ==
  {"network/status", "network/options", "construction/metadata", "construction/submit"}

\* ... those for which a function of networkProvider looks at isOffline by itself ...
ProviderChecks ==
  {"block", "block:genesis", "mempool/transaction", "network/status", "network/options",
   "construction/submit"}

\* ... and those whose first call is a GET request, where getResource does.
ResourceChecks ==
  {"account/balance", "block:genesis", "network/status", "network/options",
   "construction/metadata"}

\* The check that a request meets first decides what it is answered with: a service knows of
\* offline mode, but takes errIsOffline of the provider for a failure of the observer.
StoppedOffline(e) ==
  provider.isOffline /\ e \in ServiceChecks \cup ProviderChecks \cup ResourceChecks

OfflineAnswer(e) ==
  IF e \notin ServiceChecks THEN ObserverError[e]
  ELSE IF e = "network/options" THEN "ok"      \* with the version "N / A" of the node
  ELSE "ErrOfflineMode"

TypeOK ==
  /\ phase \in {"down", "up", "deaf", "stopping"}
  /\ flags \in [offline : BOOLEAN, genesisTimestamp : GenesisTimestamps]
  /\ provider \in [isOffline : BOOLEAN, genesisTimestamp : GenesisTimestamps \cup {0}]
  /\ pc \in [Clients -> {"idle", "routed", "asking", "answered"}]
  /\ endpoint \in [Clients -> Endpoints]
  /\ kind \in [Clients -> {"served", "malformed", "underpaid", "hopeless"}]
  /\ answer \in [Clients -> {"ok"} \cup Retriable \cup Final \cup NoAnswer]

-----------------------------------------------------------------------------
(* The process *)

\* Variation: converts the timestamp at the wrong place.
ProviderInMilliseconds(f) ==
  [isOffline |-> f.offline, genesisTimestamp |-> f.genesisTimestamp * 1000]

\* Variation: forgets the flag offline on its way to the provider.
ProviderIsOnline(f) == [isOffline |-> FALSE, genesisTimestamp |-> 0]

\* startRosetta leaves the genesis timestamp out of ArgsCreateNetworkProvider.
CreateNetworkProvider(f) == [isOffline |-> f.offline, genesisTimestamp |-> 0]

Flags == [offline : BOOLEAN, genesisTimestamp : GenesisTimestamps]

Init ==
  /\ phase = "down"
  /\ flags \in Flags
  /\ provider = CreateNetworkProvider(flags)
  /\ pc = [c \in Clients |-> "idle"]
  /\ endpoint = [c \in Clients |-> "network/list"]
  /\ kind = [c \in Clients |-> "served"]
  /\ answer = [c \in Clients |-> "none"]

\* ListenAndServe runs; or it fails at once (the port is taken), which is only logged: the
\* process waits for an interrupt all the same and serves nothing.
StartRosetta ==
  /\ phase = "down"
  /\ phase' \in {"up", "deaf"}
  /\ flags' \in Flags
  /\ provider' = CreateNetworkProvider(flags')
  /\ UNCHANGED <<pc, endpoint, kind, answer>>

\* An interrupt: httpServer.Shutdown refuses new requests and waits for the others.
Interrupt ==
  /\ phase \in {"up", "deaf"}
  /\ phase' = "stopping"
  /\ UNCHANGED <<flags, provider, pc, endpoint, kind, answer>>

\* After at most a second httpServer.Close cuts what is left, and the process ends.
Exit ==
  /\ phase = "stopping"
  /\ phase' = "down"
  /\ pc' = [c \in Clients |-> IF pc[c] = "idle" THEN "idle" ELSE "answered"]
  /\ answer' = [c \in Clients |-> IF pc[c] \in {"routed", "asking"} THEN "cut" ELSE answer[c]]
  /\ UNCHANGED <<flags, provider, endpoint, kind>>

Reply(c, a) ==
  /\ pc' = [pc EXCEPT ![c] = "answered"]
  /\ answer' = [answer EXCEPT ![c] = a]
  /\ UNCHANGED <<phase, flags, provider, endpoint, kind>>

-----------------------------------------------------------------------------
(* A request *)

Request(c) ==
  /\ phase = "up"
  /\ pc[c] = "idle"
  /\ \E e \in Endpoints :
       /\ endpoint' = [endpoint EXCEPT ![c] = e]
       /\ \E k \in Kinds(e) : kind' = [kind EXCEPT ![c] = k]
  /\ pc' = [pc EXCEPT ![c] = "routed"]
  /\ UNCHANGED <<phase, flags, provider, answer>>

\* NewOfflineService leaves errFactory nil; newErr reads prototypesMap through it, and
\* the nil dereference ends the request without an answer.
OfflineServiceAnswers(c) ==
  /\ pc[c] = "routed"
  /\ ServiceOf(endpoint[c]) = "offline"
  /\ Reply(c, "panic")

\* An endpoint that needs no observer.
AnswerLocally(c) ==
  LET e == endpoint[c]
  IN  /\ pc[c] = "routed"
      /\ ServiceOf(e) = "online"
      /\ e \notin DOMAIN ObserverError
      /\ Reply(c, IF e \in NotImplemented THEN "ErrNotImplemented"
                  ELSE IF kind[c] = "malformed" THEN "ErrRequest" ELSE "ok")

\* The request has reached the online service of an endpoint that needs the observer.
AtService(c) ==
  /\ pc[c] = "routed"
  /\ ServiceOf(endpoint[c]) = "online"
  /\ endpoint[c] \in DOMAIN ObserverError

AnswerOffline(c) ==
  /\ AtService(c)
  /\ StoppedOffline(endpoint[c])
  /\ Reply(c, OfflineAnswer(endpoint[c]))

RejectRequest(c) ==
  /\ AtService(c)
  /\ ~StoppedOffline(endpoint[c])
  /\ kind[c] = "malformed"
  /\ Reply(c, "ErrRequest")

\* A hash, or the identifier of a token, that cannot be parsed never reaches the observer, and
\* is answered as if that had failed.
RejectIdentifier(c) ==
  /\ AtService(c)
  /\ ~StoppedOffline(endpoint[c])
  /\ endpoint[c] = "account/balance"
  /\ kind[c] = "hopeless"
  /\ Reply(c, "ErrUnableToGetAccount")

\* The genesis block is fetched once only (GenesisBlock); that later answers come from
\* memory makes no difference here.
AskObserver(c) ==
  /\ AtService(c)
  /\ ~StoppedOffline(endpoint[c])
  /\ kind[c] # "malformed"
  /\ pc' = [pc EXCEPT ![c] = "asking"]
  /\ UNCHANGED <<phase, flags, provider, endpoint, kind, answer>>

\* The fee is computed, and rejected by computeFeeComponents, once the nonce is known.
ObserverDelivers(c) ==
  /\ pc[c] = "asking"
  /\ kind[c] # "hopeless"
  /\ Reply(c, IF kind[c] = "underpaid" THEN "ErrRequest" ELSE "ok")

ObserverFails(c) == pc[c] = "asking" /\ Reply(c, ObserverError[endpoint[c]])

\* GetMempoolTransactionByHash: the transaction is known, but not pending.
NotInPool(c) ==
  /\ pc[c] = "asking"
  /\ endpoint[c] = "mempool/transaction"
  /\ Reply(c, "ErrTransactionIsNotInPool")

\* The transaction that a client looks for, or submits, is executed before its next attempt.
Lapse(c) ==
  /\ pc[c] # "idle"
  /\ endpoint[c] \in {"mempool/transaction", "construction/submit"}
  /\ kind[c] = "served"
  /\ kind' = [kind EXCEPT ![c] = "hopeless"]
  /\ UNCHANGED <<phase, flags, provider, pc, endpoint, answer>>

\* The client repeats the request, or is through with it.
Retry(c) ==
  /\ pc[c] = "answered"
  /\ answer[c] \in Retriable
  /\ phase = "up"
  /\ pc' = [pc EXCEPT ![c] = "routed"]
  /\ answer' = [answer EXCEPT ![c] = "none"]
  /\ UNCHANGED <<phase, flags, provider, endpoint, kind>>

Finish(c) ==
  /\ pc[c] = "answered"
  /\ answer[c] \notin Retriable \/ phase # "up"
  /\ pc' = [pc EXCEPT ![c] = "idle"]
  /\ answer' = [answer EXCEPT ![c] = "none"]
  /\ UNCHANGED <<phase, flags, provider, endpoint, kind>>

RequestStep(c) ==
  \/ OfflineServiceAnswers(c)
  \/ AnswerLocally(c)
  \/ AnswerOffline(c)
  \/ RejectRequest(c)
  \/ RejectIdentifier(c)
  \/ AskObserver(c)
  \/ ObserverDelivers(c)
  \/ ObserverFails(c)
  \/ NotInPool(c)
  \/ Retry(c)
  \/ Finish(c)

Next ==
  \/ StartRosetta
  \/ Interrupt
  \/ Exit
  \/ \E c \in Clients : Request(c) \/ RequestStep(c) \/ Lapse(c)

Spec == Init /\ [][Next]_vars

\* Goroutines run, requests to the observer end (requestTimeoutInSeconds), and the observer
\* does not fail each attempt at a request that it can serve.
Fairness ==
  \A c \in Clients : WF_vars(RequestStep(c)) /\ SF_vars(ObserverDelivers(c))

FairSpec == Spec /\ Fairness

-----------------------------------------------------------------------------
(* Properties *)

\* A client that repeats what is retriable is through with each request some time, whatever
\* mode the process is restarted in, or else the request is a hopeless one, for which the
\* middleware has nothing but retriable errors: whatever is not implemented, malformed, paid too
\* little or not available offline must get another one (errors.go and its callers).
RequestsSettle ==
  \A c \in Clients : pc[c] # "idle" ~> pc[c] = "idle" \/ kind[c] = "hopeless"

\* A process that was started offline never answers that a request should be repeated, hopeless
\* ones included.  The flag is copied through three structures, and four layers look at it
\* (controllers, services, functions of the provider, getResource): each stops requests,
\* but only those above the provider do so without passing for a failure of the observer.
OfflineAnswersAreFinal ==
  [][\A c \in Clients :
       flags.offline /\ answer'[c] # answer[c] => answer'[c] \notin Retriable]_vars

\* offline_services.go answers every request with ErrOfflineMode, "rosetta server is in
\* offline mode" (errors.go:141): no request is left without an answer.
OfflineRequestsAreAnswered ==
  \A c \in Clients : pc[c] = "answered" => answer[c] # "panic"

\* The genesis block served has the timestamp of the flag: "Specifies the timestamp of
\* the genesis block" (cli.go:101).
GenesisHasItsTimestamp ==
  \A c \in Clients :
    pc[c] = "answered" /\ answer[c] = "ok" /\ endpoint[c] = "block:genesis"
      => provider.genesisTimestamp = flags.genesisTimestamp
=============================================================================
