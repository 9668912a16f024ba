------------------------- MODULE RosettaServerProofs -------------------------
(***************************************************************************)
(* Proofs about RosettaServer, for any number of clients, any flags, and   *)
(* any number of interrupts and starts of the process.                     *)
(***************************************************************************)
EXTENDS RosettaServer, TLAPS

\* The provider is the one of the flags; only a running process that is not offline asks.
Inv ==
  /\ TypeOK
  /\ provider = CreateNetworkProvider(flags)
  /\ \A c \in Clients : pc[c] \in {"routed", "asking"} => phase # "down"
  /\ \A c \in Clients : pc[c] = "asking" => ~provider.isOffline /\ endpoint[c] \in DOMAIN ObserverError

Answers == {"ok"} \cup Retriable \cup Final \cup NoAnswer

\* What the observer's failures and offline mode are answered with are answers.
LEMMA ErrorsAreAnswers ==
  ASSUME NEW e \in DOMAIN ObserverError
  PROVE  ObserverError[e] \in Answers /\ OfflineAnswer(e) \in Answers
  BY DEF ObserverError, OfflineAnswer, Answers, Retriable, Final

\* Every way from an online service to the observer is stopped by some check of offline mode.
LEMMA StoppedSomewhere ==
  ASSUME NEW e \in DOMAIN ObserverError, ~StoppedOffline(e)
  PROVE  ~provider.isOffline
  BY DEF ObserverError, StoppedOffline, ServiceChecks, ProviderChecks, ResourceChecks

\* What is still asked of an online service in offline mode is stopped by that service.
LEMMA OfflineAnswerIsFinal ==
  ASSUME NEW e \in DOMAIN ObserverError, provider.isOffline, ServiceOf(e) = "online"
  PROVE  OfflineAnswer(e) \notin Retriable
  BY DEF ObserverError, OfflineAnswer, ServiceOf, ServiceChecks, AccountEndpoints, BlockEndpoints,
         MempoolEndpoints, Retriable

LEMMA ProviderType ==
  ASSUME NEW f \in Flags
  PROVE  CreateNetworkProvider(f) \in
           [isOffline : BOOLEAN, genesisTimestamp : GenesisTimestamps \cup {0}]
  BY DEF Flags, CreateNetworkProvider

LEMMA InitInv == Init => Inv
<1> SUFFICES ASSUME Init PROVE Inv
  OBVIOUS
<1>1. TypeOK
  BY ProviderType DEF Init, TypeOK, Flags, Endpoints, NetworkEndpoints, NoAnswer
<1> QED
  BY <1>1 DEF Init, Inv

\* An answer to a request keeps the invariant.
LEMMA ReplyStep ==
  ASSUME Inv, NEW c \in Clients, NEW a \in Answers, Reply(c, a)
  PROVE  Inv'
<1>1. /\ pc' = [pc EXCEPT ![c] = "answered"] /\ answer' = [answer EXCEPT ![c] = a]
      /\ UNCHANGED <<phase, flags, provider, endpoint, kind>>
  BY DEF Reply
<1>2. TypeOK'
  BY <1>1 DEF Inv, TypeOK, Answers
<1> QED
  BY <1>1, <1>2 DEF Inv, TypeOK

\* A request that is neither answered nor sent on to the observer.
LEMMA MoveStep ==
  ASSUME Inv, NEW c \in Clients, NEW p \in {"idle", "routed"}, p = "routed" => phase = "up",
         pc' = [pc EXCEPT ![c] = p],
         answer' = answer \/ answer' = [answer EXCEPT ![c] = "none"],
         \/ endpoint' = endpoint /\ kind' = kind
         \/ \E e \in Endpoints, k \in {"served", "malformed", "underpaid", "hopeless"} :
              endpoint' = [endpoint EXCEPT ![c] = e] /\ kind' = [kind EXCEPT ![c] = k],
         UNCHANGED <<phase, flags, provider>>
  PROVE  Inv'
<1>1. /\ answer' \in [Clients -> Answers] /\ endpoint' \in [Clients -> Endpoints]
      /\ kind' \in [Clients -> {"served", "malformed", "underpaid", "hopeless"}]
  BY DEF Inv, TypeOK, Answers, NoAnswer
<1>2. TypeOK'
  BY <1>1 DEF Inv, TypeOK, Answers
<1>3. \A d \in Clients \ {c} : pc'[d] = pc[d] /\ endpoint'[d] = endpoint[d]
  BY DEF Inv, TypeOK
<1>4. pc'[c] = p
  BY DEF Inv, TypeOK
<1> QED
  BY <1>2, <1>3, <1>4 DEF Inv

LEMMA RequestStepInv ==
  ASSUME Inv, NEW c \in Clients, RequestStep(c)
  PROVE  Inv'
<1>1. CASE OfflineServiceAnswers(c)
  BY <1>1, ReplyStep DEF OfflineServiceAnswers, Answers, NoAnswer
<1>2. CASE AnswerLocally(c)
  <2>1. PICK a \in {"ok", "ErrNotImplemented", "ErrRequest"} : Reply(c, a)
    BY <1>2 DEF AnswerLocally
  <2> QED
    BY <2>1, ReplyStep DEF Answers, Final
<1>3. CASE RejectRequest(c) \/ RejectIdentifier(c)
  BY <1>3, ReplyStep DEF RejectRequest, RejectIdentifier, Answers, Final, Retriable
<1>4. CASE AnswerOffline(c)
  BY <1>4, ReplyStep, ErrorsAreAnswers DEF AnswerOffline, AtService
<1>5. CASE AskObserver(c)
  <2>1. /\ pc[c] = "routed" /\ endpoint[c] \in DOMAIN ObserverError /\ ~StoppedOffline(endpoint[c])
        /\ pc' = [pc EXCEPT ![c] = "asking"]
        /\ UNCHANGED <<phase, flags, provider, endpoint, kind, answer>>
    BY <1>5 DEF AskObserver, AtService
  <2>2. ~provider.isOffline
    BY <2>1, StoppedSomewhere
  <2> QED
    BY <2>1, <2>2 DEF Inv, TypeOK
<1>6. CASE ObserverDelivers(c)
  BY <1>6, ReplyStep DEF ObserverDelivers, Answers, Final
<1>7. CASE ObserverFails(c)
  <2>1. pc[c] = "asking" /\ Reply(c, ObserverError[endpoint[c]])
    BY <1>7 DEF ObserverFails
  <2>2. endpoint[c] \in DOMAIN ObserverError
    BY <2>1 DEF Inv
  <2>3. ObserverError[endpoint[c]] \in Answers
    BY <2>2, ErrorsAreAnswers
  <2> QED
    BY <2>1, <2>3, ReplyStep
<1>8. CASE NotInPool(c)
  BY <1>8, ReplyStep DEF NotInPool, Answers, Retriable
<1>9. CASE Retry(c)
  BY <1>9, MoveStep DEF Retry
<1>10. CASE Finish(c)
  BY <1>10, MoveStep DEF Finish
<1> QED
  BY <1>1, <1>2, <1>3, <1>4, <1>5, <1>6, <1>7, <1>8, <1>9, <1>10 DEF RequestStep

LEMMA Invariant == Spec => []Inv
<1>1. Inv /\ [Next]_vars => Inv'
  <2> SUFFICES ASSUME Inv, [Next]_vars PROVE Inv'
    OBVIOUS
  <2>1. CASE StartRosetta
    <3>1. flags' \in Flags /\ provider' = CreateNetworkProvider(flags')
      BY <2>1 DEF StartRosetta
    <3>2. TypeOK'
      BY <2>1, <3>1, ProviderType DEF StartRosetta, Inv, TypeOK, Flags
    <3>3. \A c \in Clients : pc'[c] \notin {"routed", "asking"}
      BY <2>1 DEF StartRosetta, Inv
    <3> QED
      BY <3>1, <3>2, <3>3 DEF Inv, CreateNetworkProvider
  <2>2. CASE Interrupt
    BY <2>2 DEF Interrupt, Inv, TypeOK
  <2>3. CASE Exit
    <3>1. \A c \in Clients : pc'[c] \in {"idle", "answered"}
      BY <2>3 DEF Exit
    <3>2. TypeOK'
      BY <2>3 DEF Exit, Inv, TypeOK, NoAnswer
    <3> QED
      BY <2>3, <3>1, <3>2 DEF Exit, Inv
  <2>4. ASSUME NEW c \in Clients, Request(c) PROVE Inv'
    <3>1. \A e \in Endpoints : Kinds(e) \subseteq {"served", "malformed", "underpaid", "hopeless"}
      BY DEF Kinds
    <3> QED
      BY <2>4, <3>1, MoveStep DEF Request
  <2>5. ASSUME NEW c \in Clients, RequestStep(c) PROVE Inv'
    BY <2>5, RequestStepInv
  <2>6. ASSUME NEW c \in Clients, Lapse(c) PROVE Inv'
    BY <2>6 DEF Lapse, Inv, TypeOK
  <2>7. CASE UNCHANGED vars
    BY <2>7 DEF vars, Inv, TypeOK
  <2> QED
    BY <2>1, <2>2, <2>3, <2>4, <2>5, <2>6, <2>7 DEF Next
<1> QED
  BY <1>1, InitInv, PTL DEF Spec

\* Flags, provider, requests and answers keep their types through starts and interrupts; in
\* particular each endpoint's failure has an error that is declared (createErrPrototypes).
THEOREM TypeCorrectness == Spec => []TypeOK
<1>1. Inv => TypeOK
  BY DEF Inv
<1> QED
  BY <1>1, Invariant, PTL

\* An answer to one request leaves those to the others alone.
LEMMA OneAnswer ==
  ASSUME Inv, NEW c \in Clients, NEW a, Reply(c, a), a \notin Retriable,
         NEW d \in Clients, answer'[d] # answer[d]
  PROVE  answer'[d] \notin Retriable
  BY DEF Reply, Inv, TypeOK

\* A process that was started with --offline never tells a client to repeat a request, through
\* any number of starts with other flags, and whatever is asked.
THEOREM OfflineFinality == Spec => OfflineAnswersAreFinal
<1>1. ASSUME Inv, [Next]_vars, NEW d \in Clients, flags.offline, answer'[d] # answer[d]
      PROVE  answer'[d] \notin Retriable
  <2>1. provider.isOffline
    BY <1>1 DEF Inv, CreateNetworkProvider
  <2>2. \A e \in Clients : pc[e] # "asking"
    BY <1>1, <2>1 DEF Inv
  <2>3. "none" \notin Retriable /\ "cut" \notin Retriable /\ "panic" \notin Retriable
    BY DEF Retriable
  <2>4. CASE StartRosetta \/ Interrupt \/ UNCHANGED vars
    BY <1>1, <2>4 DEF StartRosetta, Interrupt, vars
  <2>5. CASE Exit
    BY <1>1, <2>3, <2>5 DEF Exit
  <2>6. ASSUME NEW c \in Clients, Request(c) \/ Lapse(c) PROVE answer'[d] \notin Retriable
    BY <1>1, <2>6 DEF Request, Lapse
  <2>7. ASSUME NEW c \in Clients, RequestStep(c) PROVE answer'[d] \notin Retriable
    <3>1. CASE OfflineServiceAnswers(c)
      BY <1>1, <2>3, <3>1, OneAnswer DEF OfflineServiceAnswers
    <3>2. CASE AnswerLocally(c)
      <4>1. PICK a \in {"ok", "ErrNotImplemented", "ErrRequest"} : Reply(c, a)
        BY <3>2 DEF AnswerLocally
      <4>2. a \notin Retriable
        BY DEF Retriable
      <4> QED
        BY <1>1, <4>1, <4>2, OneAnswer
    <3>3. CASE AnswerOffline(c)
      <4>1. Reply(c, OfflineAnswer(endpoint[c])) /\ OfflineAnswer(endpoint[c]) \notin Retriable
        BY <2>1, <3>3, OfflineAnswerIsFinal DEF AnswerOffline, AtService
      <4> QED
        BY <1>1, <4>1, OneAnswer
    <3>4. CASE RejectRequest(c) \/ RejectIdentifier(c) \/ AskObserver(c)
      BY <2>1, <3>4, StoppedSomewhere DEF RejectRequest, RejectIdentifier, AskObserver, AtService
    <3>5. CASE ObserverDelivers(c) \/ ObserverFails(c) \/ NotInPool(c)
      BY <2>2, <3>5 DEF ObserverDelivers, ObserverFails, NotInPool
    <3>6. CASE Retry(c) \/ Finish(c)
      BY <1>1, <2>3, <3>6 DEF Retry, Finish, Inv, TypeOK
    <3> QED
      BY <2>7, <3>1, <3>2, <3>3, <3>4, <3>5, <3>6 DEF RequestStep
  <2> QED
    BY <1>1, <2>4, <2>5, <2>6, <2>7 DEF Next
<1>2. Inv /\ [Next]_vars =>
        [\A c \in Clients :
           flags.offline /\ answer'[c] # answer[c] => answer'[c] \notin Retriable]_vars
  BY <1>1
<1> QED
  BY <1>2, Invariant, PTL DEF Spec, OfflineAnswersAreFinal
=============================================================================
