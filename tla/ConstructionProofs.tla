-------------------------- MODULE ConstructionProofs --------------------------
(***************************************************************************)
(* Proofs about Construction and PaymentShown, for any sessions, payments  *)
(* and networks.                                                           *)
(*                                                                         *)
(* The node's chain numbers the transactions of each account without gaps  *)
(* (ChainInv).  From this follows that a transaction whose nonce has been  *)
(* used by another one, for good, is dead; and of all the transactions     *)
(* that a session has signed, at most the current one is not (SignedInv).  *)
(*                                                                         *)
(* That a payment is shown as it was parsed follows from what the client   *)
(* wants of /construction/parse (IntendedFields) and from what becomes of  *)
(* three operations, a movement and a fee, on their way to /block.         *)
(***************************************************************************)
EXTENDS PaymentShown, FiniteSetTheorems, SequenceTheorems, TLAPS

\* NonceAfter, of any chain.
NonceIn(c, account, n) == Cardinality({i \in 1 .. n : c[i].sender = account})

-----------------------------------------------------------------------------
(* Nonces *)

LEMMA SendersFinite ==
  ASSUME NEW c, NEW account, NEW n \in Nat
  PROVE  /\ IsFiniteSet({i \in 1 .. n : c[i].sender = account})
         /\ NonceIn(c, account, n) \in Nat
         /\ NonceIn(c, account, n) <= n
<1> DEFINE S == {i \in 1 .. n : c[i].sender = account}
<1>1. IsFiniteSet(1 .. n) /\ Cardinality(1 .. n) = n
  BY FS_Interval
<1>2. S \in SUBSET (1 .. n)
  OBVIOUS
<1> HIDE DEF S
<1>3. IsFiniteSet(S) /\ Cardinality(S) <= Cardinality(1 .. n)
  BY <1>1, <1>2, FS_Subset
<1>4. Cardinality(S) \in Nat
  BY <1>3, FS_CardinalityType
<1> QED
  BY <1>1, <1>3, <1>4 DEF NonceIn, S

\* An account's nonce never decreases along a chain.
LEMMA NonceMonotone ==
  ASSUME NEW c, NEW account, NEW m \in Nat, NEW n \in Nat, m <= n
  PROVE  NonceIn(c, account, m) <= NonceIn(c, account, n)
<1> DEFINE S == {i \in 1 .. m : c[i].sender = account}
<1> DEFINE T == {i \in 1 .. n : c[i].sender = account}
<1>1. S \in SUBSET T
  OBVIOUS
<1>2. IsFiniteSet(T)
  BY SendersFinite
<1> HIDE DEF S, T
<1>3. Cardinality(S) <= Cardinality(T)
  BY <1>1, <1>2, FS_Subset
<1> QED
  BY <1>3 DEF NonceIn, S, T

\* A transaction uses one nonce.
LEMMA NonceStep ==
  ASSUME NEW c, NEW n \in Nat
  PROVE  NonceIn(c, c[n + 1].sender, n + 1) = NonceIn(c, c[n + 1].sender, n) + 1
<1> DEFINE S == {i \in 1 .. n : c[i].sender = c[n + 1].sender}
<1> DEFINE T == {i \in 1 .. n + 1 : c[i].sender = c[n + 1].sender}
<1>1. T = S \cup {n + 1} /\ n + 1 \notin S
  OBVIOUS
<1>2. IsFiniteSet(S)
  BY SendersFinite
<1> HIDE DEF S, T
<1>3. Cardinality(T) = Cardinality(S) + 1
  BY <1>1, <1>2, FS_AddElement
<1> QED
  BY <1>3 DEF NonceIn, S, T

\* Blocks above n do not matter.
LEMMA NonceSame ==
  ASSUME NEW c, NEW d, NEW account, NEW n \in Nat, \A i \in 1 .. n : c[i] = d[i]
  PROVE  NonceIn(c, account, n) = NonceIn(d, account, n)
<1>1. {i \in 1 .. n : c[i].sender = account} = {i \in 1 .. n : d[i].sender = account}
  OBVIOUS
<1> QED
  BY <1>1 DEF NonceIn

-----------------------------------------------------------------------------
(* The node *)

ChainInv ==
  /\ \E S : chain \in Seq(S)
  /\ settled \in 0 .. Len(chain)
  /\ \A i \in 1 .. Len(chain) : chain[i].nonce = NonceIn(chain, chain[i].sender, i - 1)

\* The settled blocks of c are those of d, too.
Extends(c, d) == settled <= settled' /\ \A i \in 1 .. settled : c[i] = d[i]

LEMMA ChainStep ==
  ASSUME ChainInv, [Next]_vars
  PROVE  /\ ChainInv'
         /\ Extends(chain, chain')
<1> PICK S : chain \in Seq(S)
  BY DEF ChainInv
<1>1. CASE UNCHANGED <<chain, settled>>
  BY <1>1 DEF ChainInv, Extends, NonceIn
<1>2. CASE Execute
  <2> PICK t \in pool : /\ t.nonce = NonceAfter(t.sender, Len(chain))
                        /\ chain' = Append(chain, t)
                        /\ settled' = settled
    BY <1>2 DEF Execute
  <2>1. chain' \in Seq(S \cup {t}) /\ Len(chain') = Len(chain) + 1
    <3>1. chain \in Seq(S \cup {t})
      OBVIOUS
    <3> QED
      BY <3>1
  <2>2. \A i \in 1 .. Len(chain) : chain'[i] = chain[i]
    OBVIOUS
  <2>3. chain'[Len(chain) + 1] = t
    OBVIOUS
  <2>4. Len(chain) \in Nat
    OBVIOUS
  <2>5. ASSUME NEW i \in 1 .. Len(chain')
        PROVE  chain'[i].nonce = NonceIn(chain', chain'[i].sender, i - 1)
    <3>1. NonceIn(chain, chain'[i].sender, i - 1) = NonceIn(chain', chain'[i].sender, i - 1)
      <4>1. i - 1 \in Nat /\ i - 1 <= Len(chain)
        BY <2>1, <2>4
      <4>2. \A j \in 1 .. i - 1 : chain[j] = chain'[j]
        BY <4>1, <2>2, <2>4
      <4> QED
        BY <4>1, <4>2, NonceSame
    <3>2. CASE i <= Len(chain)
      <4>1. chain'[i] = chain[i] /\ chain[i].nonce = NonceIn(chain, chain[i].sender, i - 1)
        BY <3>2, <2>2, <2>4 DEF ChainInv
      <4> QED
        BY <4>1, <3>1
    <3>3. CASE i = Len(chain) + 1
      <4>1. t.nonce = NonceIn(chain, t.sender, Len(chain))
        BY DEF NonceAfter, NonceIn
      <4>2. i - 1 = Len(chain)
        BY <3>3, <2>4
      <4> QED
        BY <3>1, <3>3, <4>1, <4>2, <2>3
    <3> QED
      BY <3>2, <3>3, <2>1, <2>4
  <2>6. settled' \in 0 .. Len(chain')
    BY <2>1, <2>4 DEF ChainInv
  <2>7. Extends(chain, chain')
    BY <2>2, <2>4 DEF Extends, ChainInv
  <2> QED
    BY <2>1, <2>5, <2>6, <2>7 DEF ChainInv
<1>3. CASE Rollback
  <2> DEFINE n == Len(chain) - 1
  <2>1. chain' = SubSeq(chain, 1, n) /\ settled' = settled /\ settled < Len(chain)
    BY <1>3 DEF Rollback
  <2>2. n \in Nat /\ Len(chain) \in Nat /\ settled \in Nat /\ settled <= n
    BY <2>1 DEF ChainInv
  <2>3. chain' \in Seq(S) /\ Len(chain') = n /\ \A i \in 1 .. n : chain'[i] = chain[i]
    <3>1. n \in Int /\ \A i \in 1 .. n : chain[i] \in S
      BY <2>2
    <3>2. /\ SubSeq(chain, 1, n) \in Seq(S)
          /\ Len(SubSeq(chain, 1, n)) = IF 1 <= n THEN n - 1 + 1 ELSE 0
          /\ \A i \in 1 .. n - 1 + 1 : SubSeq(chain, 1, n)[i] = chain[1 + i - 1]
      BY <3>1, SubSeqProperties
    <3>3. n - 1 + 1 = n /\ \A i \in 1 .. n : 1 + i - 1 = i
      BY <2>2
    <3> QED
      BY <2>1, <2>2, <3>2, <3>3
  <2>4. ASSUME NEW i \in 1 .. Len(chain')
        PROVE  chain'[i].nonce = NonceIn(chain', chain'[i].sender, i - 1)
    <3>1. i - 1 \in Nat /\ i - 1 <= n /\ i \in 1 .. Len(chain) /\ i \in 1 .. n
      BY <2>2, <2>3
    <3>2. \A j \in 1 .. i - 1 : chain[j] = chain'[j]
      BY <3>1, <2>2, <2>3
    <3>3. NonceIn(chain, chain[i].sender, i - 1) = NonceIn(chain', chain[i].sender, i - 1)
      BY <3>1, <3>2, NonceSame
    <3> QED
      BY <3>1, <3>3, <2>3 DEF ChainInv
  <2>5. settled' \in 0 .. Len(chain')
    BY <2>1, <2>2, <2>3
  <2>6. Extends(chain, chain')
    BY <2>1, <2>2, <2>3 DEF Extends
  <2> QED
    BY <2>3, <2>4, <2>5, <2>6 DEF ChainInv
<1>4. CASE Settle
  <2>1. chain' = chain /\ settled' = settled + 1 /\ settled < Len(chain)
    BY <1>4 DEF Settle
  <2>2. settled' \in 0 .. Len(chain')
    BY <2>1 DEF ChainInv
  <2>3. settled <= settled'
    BY <2>1 DEF ChainInv
  <2> QED
    BY <2>1, <2>2, <2>3 DEF ChainInv, Extends, NonceIn
<1>5. ASSUME NEW s \in Sessions, Begin(s) \/ SessionStep(s) \/ Abandon(s)
      PROVE  UNCHANGED <<chain, settled>>
  BY <1>5 DEF Begin, SessionStep, Abandon, ConstructionPreprocess, RefuseRequest,
    ConstructionMetadata, RefuseFee, MetadataFails, ConstructionPayloads, ConstructionParse,
    RefuseToSign, ConstructionCombine, ConstructionParseSigned, ConstructionSubmit, SubmitFails,
    HandleError, SubmitAgain, Confirm, StartOver, networkVars
<1>6. CASE PoolForgets
  BY <1>1, <1>6 DEF PoolForgets
<1>7. CASE UNCHANGED vars
  BY <1>1, <1>7 DEF vars, networkVars
<1> QED
  BY <1>1, <1>2, <1>3, <1>4, <1>5, <1>6, <1>7 DEF Next

\* The nonce of an account on the final block never decreases.
LEMMA FinalNonce ==
  ASSUME ChainInv, [Next]_vars, NEW account
  PROVE  /\ settled \in Nat /\ settled' \in Nat /\ settled <= settled'
         /\ Len(chain') \in Nat /\ settled' <= Len(chain')
         /\ NonceAfter(account, settled) = NonceIn(chain', account, settled)
         /\ NonceIn(chain', account, settled) \in Nat
         /\ NonceAfter(account, settled)' \in Nat
         /\ NonceAfter(account, settled) <= NonceAfter(account, settled)'
<1>1. ChainInv' /\ Extends(chain, chain')
  BY ChainStep
<1>2. settled \in Nat /\ settled' \in Nat /\ settled <= settled'
      /\ settled' <= Len(chain') /\ Len(chain') \in Nat
  <2> PICK S : chain' \in Seq(S)
    BY <1>1 DEF ChainInv
  <2>1. Len(chain') \in Nat
    OBVIOUS
  <2> QED
    BY <1>1, <2>1 DEF ChainInv, Extends
<1>3. NonceIn(chain, account, settled) = NonceIn(chain', account, settled)
  BY <1>1, <1>2, NonceSame DEF Extends
<1>4. NonceIn(chain', account, settled) <= NonceIn(chain', account, settled')
  BY <1>2, NonceMonotone
<1>5. NonceIn(chain', account, settled) \in Nat /\ NonceIn(chain', account, settled') \in Nat
  BY <1>2, SendersFinite
<1> QED
  BY <1>2, <1>3, <1>4, <1>5 DEF NonceAfter, NonceIn

-----------------------------------------------------------------------------
(* What a session prepares and signs *)

OptionsFor(s) == OptionsOf(RequestOf(payment[s]))

\* The request passed the checks of preprocess and metadata.
IsAccepted(s) == PreprocessSucceeds(RequestOf(payment[s])) /\ FeeIsAccepted(OptionsFor(s))

\* A nonce that the sender's account had on a final block.
HadNonce(s, n) == n \in Nat /\ n <= NonceAfter(OptionsFor(s).sender, settled)

Prepared(s, t) ==
  /\ IsAccepted(s)
  /\ \E n : HadNonce(s, n) /\ t = TransactionOf(MetadataOf(OptionsFor(s), n))

ShownToClient(s, t) == Prepared(s, t) /\ IsAsIntended(t, payment[s].intent)

SessionInv(s) ==
  /\ pc[s] = "idle" => signed[s] = {}
  /\ pc[s] # "idle" => payment[s] \in PaymentsOf[s]
  /\ pc[s] = "failed" => error[s] \in DOMAIN CallOf
  /\ pc[s] = "metadata" \/ (pc[s] = "failed" /\ error[s] = "ErrUnableToGetAccount")
       => options[s] = OptionsFor(s) /\ PreprocessSucceeds(RequestOf(payment[s]))
  /\ pc[s] = "payloads"
       => IsAccepted(s) /\ \E n : HadNonce(s, n) /\ metadata[s] = MetadataOf(OptionsFor(s), n)
  /\ pc[s] = "parse" => Prepared(s, tx[s])
  /\ pc[s] = "combine" => ShownToClient(s, tx[s])
  /\ \A t \in signed[s] : \E u : ShownToClient(s, u) /\ t = CombinedWith(u, payment[s].intent.sender)

Domains ==
  /\ DOMAIN pc = Sessions /\ DOMAIN payment = Sessions /\ DOMAIN options = Sessions
  /\ DOMAIN metadata = Sessions /\ DOMAIN suggested = Sessions /\ DOMAIN tx = Sessions
  /\ DOMAIN error = Sessions /\ DOMAIN signed = Sessions

SessionsInv == Domains /\ \A s \in Sessions : SessionInv(s)

LEMMA PreparedStays ==
  ASSUME ChainInv, [Next]_vars, NEW s \in Sessions, payment'[s] = payment[s]
  PROVE  /\ IsAccepted(s)' <=> IsAccepted(s)
         /\ OptionsFor(s)' = OptionsFor(s)
         /\ \A n : HadNonce(s, n) => HadNonce(s, n)'
         /\ \A t : Prepared(s, t) => Prepared(s, t)'
         /\ \A t : ShownToClient(s, t) => ShownToClient(s, t)'
<1>1. OptionsFor(s)' = OptionsFor(s)
  BY DEF OptionsFor
<1>2. IsAccepted(s)' <=> IsAccepted(s)
  BY <1>1 DEF IsAccepted
<1>3. ASSUME NEW n, HadNonce(s, n)
      PROVE  HadNonce(s, n)'
  <2> DEFINE account == OptionsFor(s).sender
  <2> HIDE DEF account
  <2>1. n \in Nat /\ n <= NonceAfter(account, settled)
    BY <1>3 DEF HadNonce, account
  <2>2. NonceAfter(account, settled) <= NonceIn(chain', account, settled')
    BY FinalNonce DEF NonceAfter, NonceIn
  <2>3. NonceAfter(account, settled) \in Nat /\ NonceIn(chain', account, settled') \in Nat
    <3>1. settled \in Nat /\ settled' \in Nat
      BY FinalNonce
    <3> QED
      BY <3>1, SendersFinite DEF NonceAfter, NonceIn
  <2>4. n <= NonceIn(chain', account, settled')
    BY <2>1, <2>2, <2>3
  <2> QED
    BY <1>1, <2>1, <2>4 DEF HadNonce, account, NonceAfter, NonceIn
<1>4. \A t : Prepared(s, t) => Prepared(s, t)'
  BY <1>1, <1>2, <1>3 DEF Prepared
<1> QED
  BY <1>1, <1>2, <1>3, <1>4 DEF ShownToClient

\* A session that takes no step.
LEMMA SessionStays ==
  ASSUME ChainInv, [Next]_vars, NEW s \in Sessions, SessionInv(s),
         pc'[s] = pc[s], payment'[s] = payment[s], options'[s] = options[s],
         metadata'[s] = metadata[s], tx'[s] = tx[s], error'[s] = error[s], signed'[s] = signed[s]
  PROVE  SessionInv(s)'
<1>1. /\ IsAccepted(s)' <=> IsAccepted(s)
      /\ OptionsFor(s)' = OptionsFor(s)
      /\ \A n : HadNonce(s, n) => HadNonce(s, n)'
  BY PreparedStays
<1> QED
  BY <1>1 DEF SessionInv, Prepared, ShownToClient

\* The session that takes a step.
LEMMA SessionSteps ==
  ASSUME ChainInv, SessionsInv, [Next]_vars,
         NEW s \in Sessions, Begin(s) \/ SessionStep(s) \/ Abandon(s)
  PROVE  SessionInv(s)'
<1> USE DEF SessionsInv, Domains, SessionInv, Goto, CallOf
<1>0. ASSUME payment'[s] = payment[s]
      PROVE  /\ IsAccepted(s)' <=> IsAccepted(s)
             /\ OptionsFor(s)' = OptionsFor(s)
             /\ \A n : HadNonce(s, n) => HadNonce(s, n)'
  BY <1>0, PreparedStays
<1>1. CASE Begin(s)
  BY <1>1 DEF Begin
<1>2. CASE ConstructionPreprocess(s)
  BY <1>2, <1>0 DEF ConstructionPreprocess, OptionsFor, ShownToClient, Prepared
<1>3. CASE RefuseRequest(s) \/ RefuseFee(s) \/ RefuseToSign(s)
  BY <1>3, <1>0 DEF RefuseRequest, RefuseFee, RefuseToSign, ShownToClient, Prepared
<1>4. CASE ConstructionMetadata(s)
  <2>1. metadata'[s] = MetadataOf(OptionsFor(s), AccountNonce(OptionsFor(s).sender))
        /\ FeeIsAccepted(OptionsFor(s)) /\ PreprocessSucceeds(RequestOf(payment[s]))
    BY <1>4 DEF ConstructionMetadata
  <2>2. HadNonce(s, AccountNonce(OptionsFor(s).sender))
    <3>1. settled \in Nat
      BY FinalNonce
    <3>2. ASSUME NEW account
          PROVE  AccountNonce(account) = NonceAfter(account, settled) /\ AccountNonce(account) \in Nat
      <4>1. NonceIn(chain, account, settled) \in Nat
        BY <3>1, SendersFinite
      <4> QED
        BY <4>1 DEF AccountNonce, NonceAfter, NonceIn
    <3> QED
      BY <3>2 DEF HadNonce
  <2>3. IsAccepted(s)
    BY <2>1 DEF IsAccepted
  <2>4. /\ pc'[s] = "payloads" /\ payment'[s] = payment[s] /\ signed'[s] = signed[s]
        /\ payment[s] \in PaymentsOf[s]
    BY <1>4 DEF ConstructionMetadata
  <2>5. (\A t \in signed[s] : \E u : ShownToClient(s, u) /\ t = CombinedWith(u, payment[s].intent.sender))'
    BY <2>4, <1>0 DEF ShownToClient, Prepared
  <2>6. (\E n : HadNonce(s, n) /\ metadata[s] = MetadataOf(OptionsFor(s), n))'
    BY <2>1, <2>2, <2>4, <1>0
  <2> QED
    BY <2>3, <2>4, <2>5, <2>6, <1>0
<1>5. CASE MetadataFails(s)
  BY <1>5, <1>0 DEF MetadataFails, ShownToClient, Prepared
<1>6. CASE ConstructionPayloads(s)
  BY <1>6, <1>0 DEF ConstructionPayloads, ShownToClient, Prepared
<1>7. CASE ConstructionParse(s)
  BY <1>7, <1>0 DEF ConstructionParse, ShownToClient, Prepared
<1>8. CASE ConstructionCombine(s)
  <2>1. /\ pc'[s] = "parseSigned" /\ payment'[s] = payment[s]
        /\ payment[s] \in PaymentsOf[s]
        /\ ShownToClient(s, tx[s])
        /\ signed'[s] = signed[s] \cup {CombinedWith(tx[s], payment[s].intent.sender)}
    BY <1>8 DEF ConstructionCombine
  <2>2. ASSUME NEW t \in signed'[s]
        PROVE  \E u : ShownToClient(s, u) /\ t = CombinedWith(u, payment[s].intent.sender)
    BY <2>1, <2>2
  <2>3. \A u : ShownToClient(s, u) => ShownToClient(s, u)'
    BY <2>1, PreparedStays
  <2>4. (\A t \in signed[s] : \E u : ShownToClient(s, u) /\ t = CombinedWith(u, payment[s].intent.sender))'
    BY <2>1, <2>2, <2>3
  <2> QED
    BY <2>1, <2>4
<1>9. CASE ConstructionParseSigned(s)
  BY <1>9, <1>0 DEF ConstructionParseSigned, ShownToClient, Prepared
<1>10. CASE ConstructionSubmit(s) \/ SubmitFails(s)
  BY <1>10, <1>0 DEF ConstructionSubmit, SubmitFails, ShownToClient, Prepared
<1>11. CASE HandleError(s)
  BY <1>11, <1>0 DEF HandleError, Retriable, ShownToClient, Prepared
<1>12. CASE SubmitAgain(s) \/ Confirm(s) \/ Abandon(s)
  BY <1>12, <1>0 DEF SubmitAgain, Confirm, Abandon, Over, ShownToClient, Prepared
<1>13. CASE StartOver(s)
  BY <1>13, <1>0 DEF StartOver, ShownToClient, Prepared
<1> QED
  BY <1>1, <1>2, <1>3, <1>4, <1>5, <1>6, <1>7, <1>8, <1>9, <1>10, <1>11, <1>12, <1>13
  DEF SessionStep

\* A step of one session leaves the others alone.
LEMMA OtherSessions ==
  ASSUME SessionsInv, NEW s \in Sessions, Begin(s) \/ SessionStep(s) \/ Abandon(s)
  PROVE  /\ Domains'
         /\ \A r \in Sessions \ {s} :
              /\ pc'[r] = pc[r] /\ payment'[r] = payment[r] /\ options'[r] = options[r]
              /\ metadata'[r] = metadata[r] /\ tx'[r] = tx[r] /\ error'[r] = error[r]
              /\ suggested'[r] = suggested[r] /\ signed'[r] = signed[r]
BY DEF SessionsInv, Domains, Goto, Begin, SessionStep, Abandon, ConstructionPreprocess,
  RefuseRequest, ConstructionMetadata, RefuseFee, MetadataFails, ConstructionPayloads,
  ConstructionParse, RefuseToSign, ConstructionCombine, ConstructionParseSigned,
  ConstructionSubmit, SubmitFails, HandleError, SubmitAgain, Confirm, StartOver

LEMMA NetworkSteps ==
  ASSUME Execute \/ Rollback \/ Settle \/ PoolForgets \/ UNCHANGED vars
  PROVE  UNCHANGED sessionVars
BY DEF Execute, Rollback, Settle, PoolForgets, vars

LEMMA SessionsStep ==
  ASSUME ChainInv, SessionsInv, [Next]_vars
  PROVE  SessionsInv'
<1>1. ASSUME NEW s \in Sessions, Begin(s) \/ SessionStep(s) \/ Abandon(s)
      PROVE  SessionsInv'
  <2>1. SessionInv(s)'
    BY <1>1, SessionSteps
  <2>2. ASSUME NEW r \in Sessions \ {s}
        PROVE  SessionInv(r)'
    BY <1>1, OtherSessions, SessionStays DEF SessionsInv
  <2> QED
    BY <1>1, <2>1, <2>2, OtherSessions DEF SessionsInv
<1>2. CASE Execute \/ Rollback \/ Settle \/ PoolForgets \/ UNCHANGED vars
  <2>1. UNCHANGED sessionVars
    BY <1>2, NetworkSteps
  <2>2. ASSUME NEW r \in Sessions
        PROVE  SessionInv(r)'
    BY <2>1, SessionStays DEF SessionsInv, sessionVars
  <2> QED
    BY <2>1, <2>2 DEF SessionsInv, Domains, sessionVars
<1> QED
  BY <1>1, <1>2 DEF Next

LEMMA JsonNumberType ==
  ASSUME NEW n \in Nat
  PROVE  /\ JsonNumber(n) \in Nat
         /\ n <= MaxExact => JsonNumber(n) = n
BY ConstructionServiceAssumption DEF JsonNumber

\* What a prepared transaction keeps when it is signed.
LEMMA SignedFields ==
  ASSUME NEW o, NEW n, NEW who
  PROVE  LET u == TransactionOf(MetadataOf(o, n))
             t == CombinedWith(u, who)
         IN  /\ u.sender = o.sender /\ u.nonce = JsonNumber(n)
             /\ t.sender = u.sender /\ t.receiver = u.receiver /\ t.nonce = u.nonce
             /\ t.value = u.value /\ t.data = u.data
             /\ t.gasLimit = u.gasLimit /\ t.gasPrice = u.gasPrice
BY DEF TransactionOf, MetadataOf, CombinedWith

LEMMA SignedNonce ==
  ASSUME SessionsInv, NEW s \in Sessions, NEW t \in signed[s]
  PROVE  \E n \in Nat : /\ HadNonce(s, n) /\ t.nonce = JsonNumber(n) /\ t.nonce \in Nat
                        /\ t.sender = OptionsFor(s).sender
<1> PICK u : ShownToClient(s, u) /\ t = CombinedWith(u, payment[s].intent.sender)
  BY DEF SessionsInv, SessionInv
<1> PICK n : HadNonce(s, n) /\ u = TransactionOf(MetadataOf(OptionsFor(s), n))
  BY DEF ShownToClient, Prepared
<1>1. n \in Nat
  BY DEF HadNonce
<1> QED
  BY <1>1, SignedFields, JsonNumberType

-----------------------------------------------------------------------------
(* At most one transaction of a session is alive *)

\* Never executed, as another transaction has its nonce for good.
Dead(t) ==
  /\ t.nonce < NonceAfter(t.sender, settled)
  /\ \A i \in 1 .. settled : chain[i] # t

\* The session has not signed since it started (over).
IsUnsigned(s) ==
  \/ pc[s] \in {"idle", "preprocess", "metadata", "payloads", "parse", "combine"}
  \/ pc[s] = "failed" /\ error[s] = "ErrUnableToGetAccount"

SignedInv ==
  \A s \in Sessions : \A t \in signed[s] :
    /\ t = tx[s] \/ Dead(t)
    /\ IsUnsigned(s) => Dead(t)

\* What is dead stays dead.
LEMMA DeadForever ==
  ASSUME ChainInv, [Next]_vars, NEW t, t.nonce \in Int, Dead(t)
  PROVE  Dead(t)'
<1>1. ChainInv' /\ Extends(chain, chain')
  BY ChainStep
<1>2. /\ settled \in Nat /\ settled' \in Nat /\ settled <= settled'
      /\ settled' <= Len(chain') /\ Len(chain') \in Nat
  BY FinalNonce
<1>3. t.nonce < NonceIn(chain', t.sender, settled)
  BY FinalNonce DEF Dead
<1>4. ASSUME NEW i \in 1 .. settled', chain'[i] = t
      PROVE  FALSE
  <2>1. CASE i <= settled
    BY <1>1, <1>2, <1>4, <2>1 DEF Extends, Dead
  <2>2. CASE i > settled
    <3>1. t.nonce = NonceIn(chain', t.sender, i - 1)
      <4>1. i \in 1 .. Len(chain')
        BY <1>2
      <4>2. chain'[i].nonce = NonceIn(chain', chain'[i].sender, i - 1)
        BY <1>1, <4>1 DEF ChainInv
      <4> QED
        BY <1>4, <4>2
    <3>2. i - 1 \in Nat /\ settled <= i - 1
      BY <1>2, <2>2
    <3>3. NonceIn(chain', t.sender, settled) <= NonceIn(chain', t.sender, i - 1)
      BY <1>2, <3>2, NonceMonotone
    <3>4. NonceIn(chain', t.sender, settled) \in Nat /\ NonceIn(chain', t.sender, i - 1) \in Nat
      BY <1>2, <3>2, SendersFinite
    <3> QED
      BY <1>3, <3>1, <3>3, <3>4
  <2> QED
    BY <2>1, <2>2, <1>2
<1>5. t.nonce < NonceIn(chain', t.sender, settled')
  <2> DEFINE early == NonceIn(chain', t.sender, settled)
             late == NonceIn(chain', t.sender, settled')
  <2>1. early <= late
    BY <1>2, NonceMonotone
  <2>2. early \in Nat /\ late \in Nat
    BY <1>2, SendersFinite
  <2> HIDE DEF early, late
  <2>3. t.nonce < early
    BY <1>3 DEF early
  <2>4. t.nonce < late
    BY <2>1, <2>2, <2>3
  <2> QED
    BY <2>4 DEF late
<1> QED
  BY <1>4, <1>5 DEF Dead, NonceAfter, NonceIn

LEMMA SignedStep ==
  ASSUME ChainInv, SessionsInv, SignedInv, [Next]_vars
  PROVE  SignedInv'
<1>1. \A s \in Sessions : \A t \in signed[s] : Dead(t) => Dead(t)'
  <2> SUFFICES ASSUME NEW s \in Sessions, NEW t \in signed[s], Dead(t)
               PROVE  Dead(t)'
    OBVIOUS
  <2>1. t.nonce \in Int
    BY SignedNonce
  <2> QED
    BY <2>1, DeadForever
<1>2. ASSUME NEW s \in Sessions, Begin(s) \/ SessionStep(s) \/ Abandon(s)
      PROVE  SignedInv'
  <2>1. ASSUME NEW r \in Sessions \ {s}, NEW t \in signed'[r]
        PROVE  (t = tx'[r] \/ Dead(t)') /\ (IsUnsigned(r)' => Dead(t)')
    <3>1. /\ pc'[r] = pc[r] /\ tx'[r] = tx[r] /\ error'[r] = error[r] /\ signed'[r] = signed[r]
      BY <1>2, OtherSessions
    <3> QED
      BY <3>1, <1>1 DEF SignedInv, IsUnsigned
  <2>2. ASSUME NEW t \in signed'[s]
        PROVE  (t = tx'[s] \/ Dead(t)') /\ (IsUnsigned(s)' => Dead(t)')
    <3> USE DEF SessionsInv, Domains, SignedInv, IsUnsigned, Goto
    <3>1. CASE Begin(s)
      BY <3>1, <1>1 DEF Begin
    <3>2. CASE ConstructionPreprocess(s) \/ RefuseRequest(s) \/ RefuseFee(s) \/ RefuseToSign(s)
      BY <3>2, <1>1 DEF ConstructionPreprocess, RefuseRequest, RefuseFee, RefuseToSign
    <3>3. CASE ConstructionMetadata(s) \/ MetadataFails(s)
      BY <3>3, <1>1 DEF ConstructionMetadata, MetadataFails
    <3>4. CASE ConstructionPayloads(s) \/ ConstructionParse(s)
      BY <3>4, <1>1 DEF ConstructionPayloads, ConstructionParse
    <3>5. CASE ConstructionCombine(s)
      <4>1. signed'[s] = signed[s] \cup {tx'[s]} /\ pc[s] = "combine" /\ pc'[s] = "parseSigned"
        BY <3>5 DEF ConstructionCombine
      <4> QED
        BY <4>1, <1>1
    <3>6. CASE ConstructionParseSigned(s) \/ SubmitAgain(s) \/ Confirm(s) \/ Abandon(s)
      BY <3>6, <1>1 DEF ConstructionParseSigned, SubmitAgain, Confirm, Abandon
    <3>7. CASE ConstructionSubmit(s) \/ SubmitFails(s)
      BY <3>7, <1>1 DEF ConstructionSubmit, SubmitFails
    <3>8. CASE HandleError(s)
      BY <3>8, <1>1 DEF HandleError, SessionInv, CallOf, Retriable
    <3>9. CASE StartOver(s)
      <4>1. Dead(tx[s])
        BY <3>9 DEF StartOver, Dead, Executed
      <4>2. t \in signed[s] /\ Dead(t)
        BY <3>9, <4>1 DEF StartOver
      <4> QED
        BY <4>2, <1>1
    <3> QED
      BY <1>2, <3>1, <3>2, <3>3, <3>4, <3>5, <3>6, <3>7, <3>8, <3>9 DEF SessionStep
  <2> QED
    BY <2>1, <2>2 DEF SignedInv
<1>3. CASE Execute \/ Rollback \/ Settle \/ PoolForgets \/ UNCHANGED vars
  <2>1. UNCHANGED sessionVars
    BY <1>3, NetworkSteps
  <2> QED
    BY <2>1, <1>1 DEF SignedInv, IsUnsigned, sessionVars
<1> QED
  BY <1>2, <1>3 DEF Next

-----------------------------------------------------------------------------
(* What a client is shown is what it gets *)

Payments == UNION {PaymentsOf[s] : s \in Sessions}

\* Data that a client states itself does not transfer a token named like the native currency
\* (identifiers of tokens have a suffix).
DataNamesTokens ==
  \A p \in Payments : p.data.kind = "transfer" => p.data.token # nativeCurrency.symbol

\* What the client is shown determines what it signs.
LEMMA IntendedFields ==
  ASSUME NEW t, NEW intent, intent.amount \in Nat \ {0}, IsAsIntended(t, intent)
  PROVE  /\ t.sender = intent.sender /\ t.receiver = intent.receiver
         /\ t.data.kind # "malformed"
         /\ t.data.kind = "transfer" => /\ t.data.amount = intent.amount
                                        /\ t.data.token = intent.currency.symbol
         /\ t.data.kind # "transfer" => /\ t.value = intent.amount
                                        /\ intent.currency = nativeCurrency
<1> DEFINE first == ParsedOperations(t)[1]
           second == ParsedOperations(t)[2]
<1>1. {first, second} = {Debit(intent), Credit(intent)} /\ t.data.kind # "malformed"
  <2>1. {ParsedOperations(t)[i] : i \in 1 .. 2} = {first, second}
    OBVIOUS
  <2> QED
    BY <2>1 DEF IsAsIntended, ParseSucceeds
<1>2. Debit(intent).value = -intent.amount /\ Credit(intent).value = intent.amount
  BY DEF Debit, Credit
<1>3. \E amount, currency :
        /\ first.account = t.sender /\ second.account = t.receiver
        /\ first.value = Negated(amount) /\ second.value = amount
        /\ second.currency = currency
        /\ second.type = IF t.data.kind = "transfer" THEN "CustomTransfer" ELSE "Transfer"
        /\ t.data.kind = "transfer" => amount = t.data.amount
                                       /\ currency = CustomCurrency(t.data.token)
        /\ t.data.kind # "transfer" => amount = t.value /\ currency = nativeCurrency
  <2>1. CASE t.data.kind = "transfer"
    BY <2>1 DEF ParsedOperations, ParsedMovement
  <2>2. CASE t.data.kind # "transfer"
    BY <2>2 DEF ParsedOperations, ParsedMovement
  <2> QED
    BY <2>1, <2>2
<1> PICK amount, currency :
        /\ first.account = t.sender /\ second.account = t.receiver
        /\ first.value = Negated(amount) /\ second.value = amount
        /\ second.currency = currency
        /\ second.type = IF t.data.kind = "transfer" THEN "CustomTransfer" ELSE "Transfer"
        /\ t.data.kind = "transfer" => amount = t.data.amount
                                       /\ currency = CustomCurrency(t.data.token)
        /\ t.data.kind # "transfer" => amount = t.value /\ currency = nativeCurrency
  BY <1>3
<1> HIDE DEF first, second
<1>4. second = Credit(intent)
  <2> SUFFICES ASSUME second = Debit(intent)
               PROVE  FALSE
    BY <1>1
  <2>1. amount = -intent.amount /\ amount \notin Nat
    BY <1>2
  <2>2. first.value = NotANumber
    BY <2>1 DEF Negated
  <2>3. first.value \in Int
    BY <1>1, <1>2
  <2> QED
    BY <2>2, <2>3, ConstructionServiceAssumption
<1>5. first = Debit(intent)
  <2>1. amount = intent.amount /\ first.value = -intent.amount
    BY <1>2, <1>4 DEF Negated
  <2>2. first # Credit(intent)
    BY <1>2, <2>1
  <2> QED
    BY <1>1, <2>2
<1>6. t.sender = intent.sender /\ t.receiver = intent.receiver /\ currency = intent.currency
  BY <1>4, <1>5 DEF Debit, Credit
<1>7. CustomCurrency(t.data.token).symbol = t.data.token
  BY DEF CustomCurrency
<1> QED
  BY <1>1, <1>2, <1>4, <1>6, <1>7

\* What preprocess makes of the fields that a transfer depends on.
LEMMA RequestedFields ==
  ASSUME NEW p, p.form \in Forms, PreprocessSucceeds(RequestOf(p))
  PROVE  LET o == OptionsOf(RequestOf(p))
         IN  /\ o.currencySymbol = p.intent.currency.symbol
             /\ o.data = p.data
             /\ o.gasLimit = JsonNumber(p.gasLimit) /\ o.gasPrice = JsonNumber(p.gasPrice)
<1>1. ~CannotPrepare(RequestOf(p))
  BY DEF PreprocessSucceeds
<1>2. CASE p.form = "metadata"
  BY <1>1, <1>2 DEF RequestOf, OptionsOf, CannotPrepare
<1>3. CASE p.form # "metadata"
  <2>1. /\ RequestOf(p).metadata.currencySymbol = NoText
        /\ RequestOf(p).operations[1].currency.symbol = p.intent.currency.symbol
        /\ RequestOf(p).metadata.data = p.data
        /\ RequestOf(p).metadata.gasLimit = p.gasLimit
        /\ RequestOf(p).metadata.gasPrice = p.gasPrice
    BY <1>3 DEF RequestOf, Debit, Credit, Forms
  <2>2. DOMAIN RequestOf(p).metadata
          = {"sender", "receiver", "amount", "currencySymbol", "gasLimit", "gasPrice", "data"}
    BY DEF RequestOf
  <2> QED
    BY <2>1, <2>2 DEF OptionsOf
<1> QED
  BY <1>2, <1>3

\* What is known of a signed transaction t: o are the options, u what was shown.
LEMMA SignedOrigin ==
  ASSUME SessionsInv, NEW s \in Sessions, NEW t \in signed[s]
  PROVE  LET p == payment[s]
             o == OptionsFor(s)
         IN  /\ p \in Payments
             /\ p.intent.amount \in Nat \ {0} /\ p.form \in Forms
             /\ p.data.kind \in {"none", "message", "transfer", "malformed"}
             /\ p.data.length \in Nat /\ p.gasLimit \in Nat /\ p.gasPrice \in Nat
             /\ IsAccepted(s)
             /\ \E u : IsAsIntended(u, p.intent) /\ t.sender = u.sender
                       /\ t.receiver = u.receiver /\ t.value = u.value /\ t.data = u.data
             /\ t.data = computedData(o)
             /\ t.value = IF isNativeCurrencySymbol(o.currencySymbol) THEN o.amount ELSE 0
             /\ t.gasLimit = JsonNumber(gasLimitOf(o)) /\ t.gasPrice = JsonNumber(gasPriceOf(o))
<1>1. pc[s] # "idle" /\ payment[s] \in PaymentsOf[s]
  BY DEF SessionsInv, SessionInv
<1>2. payment[s] \in Payments
  BY <1>1 DEF Payments
<1> PICK u : ShownToClient(s, u) /\ t = CombinedWith(u, payment[s].intent.sender)
  BY DEF SessionsInv, SessionInv
<1> PICK n : HadNonce(s, n) /\ u = TransactionOf(MetadataOf(OptionsFor(s), n))
  BY DEF ShownToClient, Prepared
<1>3. /\ t.sender = u.sender /\ t.receiver = u.receiver
      /\ t.value = u.value /\ t.data = u.data /\ t.gasLimit = u.gasLimit /\ t.gasPrice = u.gasPrice
  BY SignedFields
<1>4. /\ u.data = computedData(OptionsFor(s))
      /\ u.value = IF isNativeCurrencySymbol(OptionsFor(s).currencySymbol)
                   THEN OptionsFor(s).amount ELSE 0
      /\ u.gasLimit = JsonNumber(gasLimitOf(OptionsFor(s)))
      /\ u.gasPrice = JsonNumber(gasPriceOf(OptionsFor(s)))
  BY DEF TransactionOf, MetadataOf
<1>5. IsAccepted(s) /\ IsAsIntended(u, payment[s].intent)
  BY DEF ShownToClient, Prepared
<1>6. /\ payment[s].intent.amount \in Nat \ {0} /\ payment[s].form \in Forms
      /\ payment[s].data.kind \in {"none", "message", "transfer", "malformed"}
      /\ payment[s].data.length \in Nat
      /\ payment[s].gasLimit \in Nat /\ payment[s].gasPrice \in Nat
  BY <1>2, ConstructionAssumption DEF Payments
<1> QED
  BY <1>2, <1>3, <1>4, <1>5, <1>6

\* A signed transaction has a transfer of a token in its data if and only if the client asked
\* for a currency that is not the native one.
LEMMA SignedKind ==
  ASSUME DataNamesTokens, SessionsInv, NEW s \in Sessions, NEW t \in signed[s]
  PROVE  LET o == OptionsFor(s)
         IN  IF isNativeCurrencySymbol(o.currencySymbol)
             THEN t.data = payment[s].data /\ t.data.kind \in {"none", "message"}
             ELSE t.data.kind = "transfer" /\ t.data.length = TransferDataLength /\ t.value = 0
<1> DEFINE o == OptionsFor(s)
           p == payment[s]
<1>0. /\ t.data = computedData(o)
      /\ t.value = IF isNativeCurrencySymbol(o.currencySymbol) THEN o.amount ELSE 0
      /\ p.data.kind \in {"none", "message", "transfer", "malformed"}
  BY SignedOrigin
<1>1. o.currencySymbol = p.intent.currency.symbol /\ o.data = p.data
  BY SignedOrigin, RequestedFields DEF OptionsFor, IsAccepted
<1> HIDE DEF o
<1>2. CASE isNativeCurrencySymbol(o.currencySymbol)
  <2>1. t.data = p.data
    BY <1>0, <1>1, <1>2 DEF computedData
  <2> PICK u : IsAsIntended(u, p.intent) /\ t.data = u.data
    BY SignedOrigin
  <2>2. /\ u.data.kind # "malformed"
        /\ u.data.kind = "transfer" => u.data.token = p.intent.currency.symbol
    BY SignedOrigin, IntendedFields
  <2>3. p.data.kind # "transfer"
    BY <1>1, <1>2, <2>1, <2>2, SignedOrigin DEF DataNamesTokens, isNativeCurrencySymbol
  <2> QED
    BY <1>0, <1>2, <2>1, <2>2, <2>3 DEF o
<1>3. CASE ~isNativeCurrencySymbol(o.currencySymbol)
  <2>1. t.data.kind = "transfer" /\ t.data.length = TransferDataLength /\ t.value = 0
    BY <1>0, <1>3 DEF computedData, TransferData
  <2> QED
    BY <1>3, <2>1 DEF o
<1> QED
  BY <1>2, <1>3

-----------------------------------------------------------------------------
(* Theorems *)

IInv == ChainInv /\ SessionsInv /\ SignedInv

LEMMA InitIInv == Init => IInv
<1> SUFFICES ASSUME Init PROVE IInv
  OBVIOUS
<1>1. ChainInv
  <2>1. chain \in Seq({}) /\ Len(chain) = 0
    BY DEF Init
  <2> QED
    BY <2>1 DEF Init, ChainInv
<1> QED
  BY <1>1 DEF Init, IInv, SessionsInv, SessionInv, Domains, SignedInv

LEMMA NextIInv == IInv /\ [Next]_vars => IInv'
BY ChainStep, SessionsStep, SignedStep DEF IInv

\* The invariant holds in every reachable state.
THEOREM Invariant == Spec => []IInv
BY InitIInv, NextIInv, PTL DEF Spec

\* A payment is executed at most once, however many answers get lost and however often the
\* client submits again or starts over.
THEOREM AtMostOnce == Spec => []ExecutedAtMostOnce
<1>1. IInv => ExecutedAtMostOnce
  <2> SUFFICES ASSUME IInv, NEW s \in Sessions
               PROVE  Cardinality({i \in 1 .. Len(chain) : chain[i] \in signed[s]}) <= 1
    BY DEF ExecutedAtMostOnce
  <2> DEFINE Mine == {i \in 1 .. Len(chain) : chain[i] \in signed[s]}
  <2>0. Len(chain) \in Nat /\ settled \in Nat /\ settled <= Len(chain)
    <3> PICK S : chain \in Seq(S)
      BY DEF IInv, ChainInv
    <3>1. Len(chain) \in Nat
      OBVIOUS
    <3> QED
      BY <3>1 DEF IInv, ChainInv
  <2>1. ASSUME NEW i \in 1 .. Len(chain), Dead(chain[i])
        PROVE  FALSE
    <3>1. i > settled
      BY <2>0, <2>1 DEF Dead
    <3>2. i - 1 \in Nat /\ settled <= i - 1
      BY <2>0, <3>1
    <3>3. chain[i].nonce = NonceIn(chain, chain[i].sender, i - 1)
      BY DEF IInv, ChainInv
    <3>4. NonceIn(chain, chain[i].sender, settled) <= NonceIn(chain, chain[i].sender, i - 1)
      BY <2>0, <3>2, NonceMonotone
    <3>5. NonceIn(chain, chain[i].sender, settled) \in Nat
          /\ NonceIn(chain, chain[i].sender, i - 1) \in Nat
      BY <2>0, <3>2, SendersFinite
    <3>6. chain[i].nonce < NonceIn(chain, chain[i].sender, settled)
      BY <2>1 DEF Dead, NonceAfter, NonceIn
    <3> QED
      BY <3>3, <3>4, <3>5, <3>6
  <2>2. \A i \in Mine : chain[i] = tx[s]
    BY <2>1 DEF IInv, SignedInv
  <2>3. ASSUME NEW i \in 1 .. Len(chain), NEW j \in 1 .. Len(chain), i < j, chain[i] = chain[j]
        PROVE  FALSE
    <3> DEFINE account == chain[i].sender
    <3>1. i - 1 \in Nat /\ i \in Nat /\ j - 1 \in Nat /\ i <= j - 1 /\ i - 1 + 1 = i
      BY <2>0, <2>3
    <3>2. chain[i].nonce = NonceIn(chain, account, i - 1)
          /\ chain[j].nonce = NonceIn(chain, account, j - 1)
      BY <2>3 DEF IInv, ChainInv
    <3>3. NonceIn(chain, account, i) = NonceIn(chain, account, i - 1) + 1
      BY <3>1, NonceStep
    <3>4. NonceIn(chain, account, i) <= NonceIn(chain, account, j - 1)
      BY <3>1, NonceMonotone
    <3>5. NonceIn(chain, account, i - 1) \in Nat /\ NonceIn(chain, account, j - 1) \in Nat
      BY <3>1, SendersFinite
    <3> QED
      BY <2>3, <3>2, <3>3, <3>4, <3>5
  <2>4. \A i, j \in Mine : i = j
    <3> SUFFICES ASSUME NEW i \in Mine, NEW j \in Mine, i # j
                 PROVE  FALSE
      OBVIOUS
    <3>1. chain[i] = chain[j] /\ i \in 1 .. Len(chain) /\ j \in 1 .. Len(chain)
      BY <2>2
    <3>2. i < j \/ j < i
      BY <2>0, <3>1
    <3> QED
      BY <2>3, <3>1, <3>2
  <2> HIDE DEF Mine
  <2>5. Cardinality(Mine) <= 1
    <3>1. CASE Mine = {}
      BY <3>1, FS_EmptySet
    <3>2. CASE Mine # {}
      <4> PICK i : Mine = {i}
        BY <2>4, <3>2
      <4> QED
        BY FS_Singleton
    <3> QED
      BY <3>1, <3>2
  <2> QED
    BY <2>5 DEF Mine
<1> QED
  BY <1>1, Invariant, PTL

\* A signed transaction never waits for another one, as long as nonces are exact in JSON.
THEOREM NeverAhead ==
  Spec /\ [](Len(chain) <= MaxExact) => []NonceIsNeverAhead
<1>1. IInv /\ Len(chain) <= MaxExact => NonceIsNeverAhead
  <2> SUFFICES ASSUME IInv, Len(chain) <= MaxExact, NEW s \in Sessions, NEW t \in signed[s]
               PROVE  t.nonce <= NonceAfter(t.sender, Len(chain))
    BY DEF NonceIsNeverAhead
  <2>0. Len(chain) \in Nat /\ settled \in Nat /\ settled <= Len(chain)
    <3> PICK S : chain \in Seq(S)
      BY DEF IInv, ChainInv
    <3>1. Len(chain) \in Nat
      OBVIOUS
    <3> QED
      BY <3>1 DEF IInv, ChainInv
  <2> PICK n \in Nat : HadNonce(s, n) /\ t.nonce = JsonNumber(n) /\ t.sender = OptionsFor(s).sender
    BY SignedNonce DEF IInv
  <2>1. n <= NonceIn(chain, t.sender, settled)
    BY DEF HadNonce, NonceAfter, NonceIn
  <2>2. /\ NonceIn(chain, t.sender, settled) \in Nat
        /\ NonceIn(chain, t.sender, settled) <= settled
        /\ NonceIn(chain, t.sender, Len(chain)) \in Nat
    BY <2>0, SendersFinite
  <2>3. NonceIn(chain, t.sender, settled) <= NonceIn(chain, t.sender, Len(chain))
    BY <2>0, NonceMonotone
  <2>4. JsonNumber(n) = n
    <3>1. n <= MaxExact
      BY <2>0, <2>1, <2>2, ConstructionServiceAssumption
    <3> QED
      BY <3>1, JsonNumberType
  <2>5. t.nonce <= NonceIn(chain, t.sender, Len(chain))
    BY <2>1, <2>2, <2>3, <2>4
  <2> QED
    BY <2>5 DEF NonceAfter, NonceIn
<1> QED
  BY <1>1, Invariant, PTL

\* What is executed for a client is what it wanted, whatever the form of its request, as long
\* as its own data does not transfer a token with the name of the native currency.
THEOREM IntendedIsExecuted ==
  ASSUME DataNamesTokens
  PROVE  Spec => []ExecutedIsIntended
<1>1. IInv => ExecutedIsIntended
  <2> SUFFICES ASSUME IInv, NEW s \in Sessions, NEW i \in 1 .. Len(chain), chain[i] \in signed[s]
               PROVE  LET intent == payment[s].intent
                      IN  Effect(chain[i]) =
                            [ sender |-> intent.sender, receiver |-> intent.receiver,
                              amount |-> intent.amount, symbol |-> intent.currency.symbol ]
    BY DEF ExecutedIsIntended
  <2> DEFINE t == chain[i]
             intent == payment[s].intent
  <2>0. SessionsInv /\ t \in signed[s]
    BY DEF IInv
  <2> HIDE DEF t
  <2> PICK u : /\ IsAsIntended(u, intent) /\ t.sender = u.sender
               /\ t.receiver = u.receiver /\ t.value = u.value /\ t.data = u.data
    BY <2>0, SignedOrigin
  <2>1. /\ t.sender = intent.sender /\ t.receiver = intent.receiver
        /\ t.data.kind = "transfer" => /\ t.data.amount = intent.amount
                                       /\ t.data.token = intent.currency.symbol
        /\ t.data.kind # "transfer" => /\ t.value = intent.amount
                                       /\ intent.currency = nativeCurrency
    BY <2>0, SignedOrigin, IntendedFields
  <2>2. \/ t.data.kind = "transfer" /\ t.value = 0
        \/ t.data.kind \in {"none", "message"}
    BY <2>0, SignedKind
  <2>3. Effect(t) = [ sender |-> intent.sender, receiver |-> intent.receiver,
                      amount |-> intent.amount, symbol |-> intent.currency.symbol ]
    <3>1. CASE t.data.kind = "transfer" /\ t.value = 0
      BY <2>1, <3>1 DEF Effect
    <3>2. CASE t.data.kind \in {"none", "message"}
      BY <2>1, <3>2 DEF Effect
    <3> QED
      BY <2>2, <3>1, <3>2
  <2> QED
    BY <2>3 DEF t
<1> QED
  BY <1>1, Invariant, PTL

\* The gas that is estimated, and the least price, are exact in JSON.
GasIsExact ==
  /\ networkConfig.MinGasPrice <= MaxExact
  /\ \A p \in Payments : \A length \in {p.data.length, TransferDataLength} :
       networkConfig.MinGasLimit + networkConfig.GasPerDataByte * length
         + networkConfig.GasLimitCustomTransfer <= MaxExact

\* JSON rounds no number below a bound that is exact.
LEMMA JsonNumberKeepsBound ==
  ASSUME NEW n \in Nat, NEW bound \in Nat, bound <= n, bound <= MaxExact
  PROVE  JsonNumber(n) >= bound
<1>1. CASE n <= MaxExact
  BY <1>1, JsonNumberType
<1>2. CASE n > MaxExact
  BY <1>2, ConstructionServiceAssumption DEF JsonNumber
<1> QED
  BY <1>1, <1>2, ConstructionServiceAssumption

\* No signed transaction is refused for its gas, also when the client states a gas limit or a
\* price that JSON cannot represent.
THEOREM EnoughGas ==
  ASSUME DataNamesTokens, GasIsExact
  PROVE  Spec => []GasSuffices
<1>1. IInv => GasSuffices
  <2> SUFFICES ASSUME IInv, NEW s \in Sessions, NEW t \in signed[s]
               PROVE  HasEnoughGas(t)
    BY DEF GasSuffices
  <2> DEFINE o == OptionsFor(s)
             p == payment[s]
             moving == networkConfig.GasPerDataByte * t.data.length
             estimated == estimatedGasLimit(o)
  <2>0. SessionsInv
    BY DEF IInv
  <2>1. /\ t.data = computedData(o) /\ t.gasLimit = JsonNumber(gasLimitOf(o))
        /\ t.gasPrice = JsonNumber(gasPriceOf(o))
        /\ p \in Payments /\ p.data.length \in Nat
    BY <2>0, SignedOrigin
  <2>2. gasLimitOf(o) >= estimated /\ gasPriceOf(o) >= networkConfig.MinGasPrice
    BY <2>0, SignedOrigin DEF FeeIsAccepted, IsAccepted
  <2>3. t.data.length \in {p.data.length, TransferDataLength} /\ t.data.length \in Nat
    BY <2>0, <2>1, SignedKind, ConstructionServiceAssumption
  <2>4. /\ networkConfig.MinGasLimit \in Nat /\ networkConfig.GasPerDataByte \in Nat
        /\ networkConfig.MinGasPrice \in Nat /\ networkConfig.GasLimitCustomTransfer \in Nat
        /\ MaxExact \in Nat
    BY ConstructionServiceAssumption
  <2>5. moving \in Nat
    BY <2>3, <2>4
  <2>6. networkConfig.MinGasLimit + moving + networkConfig.GasLimitCustomTransfer <= MaxExact
    BY <2>1, <2>3 DEF GasIsExact
  <2>7. estimated = networkConfig.MinGasLimit + moving + executionGasLimit(o)
    BY <2>1 DEF estimatedGasLimit, movementGasLimit
  <2>8. executionGasLimit(o) \in {0, networkConfig.GasLimitCustomTransfer}
    BY DEF executionGasLimit
  <2>9. (IF t.data.kind = "transfer" THEN RequiredTransferGas ELSE 0) <= executionGasLimit(o)
    BY <2>0, <2>4, SignedKind, ConstructionAssumption DEF executionGasLimit
  <2>10. RequiredTransferGas \in Nat
    BY ConstructionAssumption
  <2>11. gasLimitOf(o) \in Nat /\ gasPriceOf(o) \in Nat
    <3>1. o.gasLimit \in Nat /\ o.gasPrice \in Nat
      BY <2>0, SignedOrigin, RequestedFields, JsonNumberType DEF OptionsFor, IsAccepted
    <3>2. estimated \in Nat
      BY <2>4, <2>5, <2>7, <2>8
    <3> HIDE DEF o, estimated
    <3> QED
      BY <2>4, <3>1, <3>2 DEF gasLimitOf, gasPriceOf, coalesce, estimated
  <2> HIDE DEF moving, estimated, o
  <2>12. estimated \in Nat /\ estimated <= MaxExact
    BY <2>4, <2>5, <2>6, <2>7, <2>8
  <2>13. t.gasLimit >= estimated
    BY <2>1, <2>2, <2>11, <2>12, JsonNumberKeepsBound
  <2>14. t.gasPrice >= networkConfig.MinGasPrice
    BY <2>1, <2>2, <2>4, <2>11, JsonNumberKeepsBound DEF GasIsExact
  <2>15. estimated >= RequiredGas(t)
    BY <2>4, <2>5, <2>7, <2>8, <2>9, <2>10 DEF RequiredGas, moving
  <2>16. RequiredGas(t) \in Nat
    BY <2>4, <2>5, <2>10 DEF RequiredGas, moving
  <2>17. t.gasLimit \in Nat
    BY <2>1, <2>11, JsonNumberType
  <2> QED
    BY <2>12, <2>13, <2>14, <2>15, <2>16, <2>17 DEF HasEnoughGas
<1> QED
  BY <1>1, Invariant, PTL
-----------------------------------------------------------------------------
(* Fees and types *)

\* What preprocess makes of the numbers of a request.
LEMMA RequestedNumbers ==
  ASSUME NEW p \in Payments, PreprocessSucceeds(RequestOf(p))
  PROVE  LET o == OptionsOf(RequestOf(p))
         IN  /\ o.amount \in Amount
             /\ gasPriceOf(o) \in Nat
             /\ computedData(o).length \in Nat
<1> DEFINE o == OptionsOf(RequestOf(p))
<1>1. /\ p.form \in Forms /\ p.intent.amount \in Nat \ {0}
      /\ p.data.length \in Nat /\ p.gasPrice \in Nat
  BY ConstructionAssumption DEF Payments
<1>2. o.data = p.data /\ o.gasPrice = JsonNumber(p.gasPrice)
  BY <1>1, RequestedFields
<1>3. gasPriceOf(o) \in Nat
  <2>1. o.gasPrice \in Nat
    BY <1>1, <1>2, JsonNumberType
  <2> HIDE DEF o
  <2>2. gasPriceOf(o) \in Nat
    BY <2>1, ConstructionServiceAssumption DEF gasPriceOf, coalesce
  <2> QED
    BY <2>2 DEF o
<1>4. computedData(o).length \in Nat
  <2> HIDE DEF o
  <2>1. computedData(o).length \in Nat
    BY <1>1, <1>2, ConstructionServiceAssumption DEF computedData, TransferData
  <2> QED
    BY <2>1 DEF o
<1>5. o.amount \in Amount
  <2> DEFINE given == RequestOf(p).metadata.amount
  <2>1. given \in Amount
    BY <1>1 DEF RequestOf, Amount
  <2>2. CASE p.form = "metadata"
    <3>1. given # NoAmount
      BY <1>1, <2>2, ConstructionServiceAssumption DEF RequestOf
    <3> QED
      BY <2>1, <3>1 DEF OptionsOf, RequestOf
  <2>3. CASE p.form # "metadata"
    <3>1. RequestOf(p).operations[1].value \in Int
      BY <1>1, <2>3 DEF RequestOf, Debit, Credit, Forms
    <3>2. Magnitude(RequestOf(p).operations[1].value) \in Int
      BY <3>1 DEF Magnitude
    <3>3. o.amount \in {given, Magnitude(RequestOf(p).operations[1].value)}
      BY DEF OptionsOf, RequestOf
    <3> QED
      BY <2>1, <3>2, <3>3 DEF Amount
  <2> QED
    BY <2>2, <2>3
<1> QED
  BY <1>3, <1>4, <1>5

LEMMA PriceOfExecution ==
  ASSUME NEW price \in Nat
  PROVE  executionGasPrice(price) \in Nat
<1> DEFINE full == price * networkConfig.modifierNum
           d == networkConfig.modifierDen
<1>1. full \in Nat /\ d \in Nat \ {0}
  BY ConstructionServiceAssumption
<1> HIDE DEF full, d
<1>2. full \div d \in Nat
  BY <1>1
<1> QED
  BY <1>2 DEF executionGasPrice, full, d

LEMMA FeeType ==
  ASSUME NEW o, gasPriceOf(o) \in Nat, computedData(o).length \in Nat
  PROVE  computeFee(o) \in Nat
<1>1. movementGasLimit(computedData(o)) \in Nat
  BY ConstructionServiceAssumption DEF movementGasLimit
<1>2. executionGasLimit(o) \in Nat
  BY ConstructionServiceAssumption DEF executionGasLimit
<1>3. executionGasPrice(gasPriceOf(o)) \in Nat
  BY PriceOfExecution
<1> QED
  BY <1>1, <1>2, <1>3 DEF computeFee

TypeInv ==
  /\ pc \in [Sessions -> Places]
  /\ error \in [Sessions -> {"none"} \cup DOMAIN CallOf]
  /\ suggested \in [Sessions -> Nat]

\* The fee that was suggested last is that of all transactions the session signs.
SuggestedInv(s) ==
  signed[s] # {} \/ pc[s] \in {"payloads", "parse", "combine"}
    => suggested[s] = computeFee(OptionsFor(s))

FeeInv == \A s \in Sessions : SuggestedInv(s)

LEMMA FeeStep ==
  ASSUME IInv, TypeInv, FeeInv, [Next]_vars
  PROVE  TypeInv' /\ FeeInv'
<1> USE DEF TypeInv
<1>0. ChainInv /\ SessionsInv
  BY DEF IInv
<1>1. ASSUME NEW s \in Sessions, Begin(s) \/ SessionStep(s) \/ Abandon(s)
      PROVE  TypeInv' /\ FeeInv'
  <2>1. ASSUME NEW r \in Sessions \ {s}
        PROVE  SuggestedInv(r)'
    <3>1. /\ pc'[r] = pc[r] /\ payment'[r] = payment[r]
          /\ suggested'[r] = suggested[r] /\ signed'[r] = signed[r]
      BY <1>0, <1>1, OtherSessions
    <3> QED
      BY <1>0, <3>1, PreparedStays DEF FeeInv, SuggestedInv
  <2>2. CASE Begin(s)
    <3>1. pc'[s] = "preprocess" /\ signed'[s] = {} /\ UNCHANGED <<error, suggested>>
          /\ pc' \in [Sessions -> Places]
      BY <1>0, <2>2 DEF Begin, Goto, SessionsInv, SessionInv, Places
    <3> QED
      BY <2>1, <3>1 DEF FeeInv, SuggestedInv
  <2>3. CASE ConstructionMetadata(s)
    <3>1. /\ options[s] = OptionsFor(s) /\ payment[s] \in Payments
          /\ PreprocessSucceeds(RequestOf(payment[s])) /\ payment' = payment
      BY <1>0, <2>3 DEF ConstructionMetadata, SessionsInv, SessionInv, Payments
    <3>2. computeFee(OptionsFor(s)) \in Nat
      BY <3>1, RequestedNumbers, FeeType DEF OptionsFor
    <3>3. /\ suggested' = [suggested EXCEPT ![s] = computeFee(OptionsFor(s))]
          /\ UNCHANGED error /\ pc' \in [Sessions -> Places]
      BY <2>3, <3>1 DEF ConstructionMetadata, Goto, Places
    <3>4. SuggestedInv(s)'
      BY <1>0, <3>1, <3>3, PreparedStays DEF SuggestedInv
    <3> QED
      BY <2>1, <3>2, <3>3, <3>4 DEF FeeInv
  <2>4. CASE ~Begin(s) /\ ~ConstructionMetadata(s)
    <3>1. /\ UNCHANGED <<payment, suggested>>
          /\ pc' \in [Sessions -> Places]
          /\ error' \in [Sessions -> {"none"} \cup DOMAIN CallOf]
      BY <1>0, <1>1, <2>4, SMTT(40) DEF SessionStep, Abandon, ConstructionPreprocess, RefuseRequest,
        RefuseFee, MetadataFails, ConstructionPayloads, ConstructionParse, RefuseToSign, ConstructionCombine,
        ConstructionParseSigned, ConstructionSubmit, SubmitFails, HandleError, SubmitAgain, Confirm,
        StartOver, Goto, Places, Over, CallOf, SessionsInv, SessionInv
    <3>2. \/ signed' = signed /\ pc'[s] \notin {"payloads", "parse", "combine"}
          \/ pc[s] \in {"payloads", "parse", "combine"}
      BY <1>1, <2>4 DEF SessionStep, Abandon, ConstructionPreprocess, RefuseRequest, RefuseFee,
        MetadataFails, ConstructionPayloads, ConstructionParse, RefuseToSign, ConstructionCombine,
        ConstructionParseSigned, ConstructionSubmit, SubmitFails, HandleError, SubmitAgain, Confirm,
        StartOver, Goto, CallOf, Retriable
    <3>3. SuggestedInv(s)'
      BY <1>0, <3>1, <3>2, PreparedStays DEF FeeInv, SuggestedInv
    <3> QED
      BY <2>1, <3>1, <3>3 DEF FeeInv
  <2> QED
    BY <2>2, <2>3, <2>4
<1>2. CASE Execute \/ Rollback \/ Settle \/ PoolForgets \/ UNCHANGED vars
  <2>1. UNCHANGED sessionVars
    BY <1>2, NetworkSteps
  <2> QED
    BY <2>1 DEF FeeInv, SuggestedInv, OptionsFor, sessionVars
<1> QED
  BY <1>1, <1>2 DEF Next
\* The invariant with fees and types.
LEMMA FeeInvariant == Spec => [](IInv /\ TypeInv /\ FeeInv)
<1>1. Init => IInv /\ TypeInv /\ FeeInv
  <2> SUFFICES ASSUME Init PROVE TypeInv /\ FeeInv
    BY InitIInv
  <2> QED
    BY DEF Init, TypeInv, FeeInv, SuggestedInv, Places
<1>2. IInv /\ TypeInv /\ FeeInv /\ [Next]_vars => (IInv /\ TypeInv /\ FeeInv)'
  BY NextIInv, FeeStep
<1> QED
  BY <1>1, <1>2, PTL DEF Spec

\* What sessions keep, the responses they carry and the transactions they sign have their types.
THEOREM TypeCorrectness ==
  ASSUME DataNamesTokens
  PROVE  Spec => []TypeOK
<1>1. IInv /\ TypeInv => TypeOK
  <2> SUFFICES ASSUME IInv, TypeInv
               PROVE  TypeOK
    OBVIOUS
  <2>0. SessionsInv
    BY DEF IInv
  <2>1. ASSUME NEW s \in Sessions, pc[s] \in {"metadata", "payloads"}
        PROVE  /\ payment[s] \in Payments /\ PreprocessSucceeds(RequestOf(payment[s]))
               /\ OptionsFor(s).amount \in Amount
    <3>1. payment[s] \in Payments /\ PreprocessSucceeds(RequestOf(payment[s]))
      BY <2>0, <2>1 DEF SessionsInv, SessionInv, IsAccepted, Payments
    <3> QED
      BY <3>1, RequestedNumbers DEF OptionsFor
  <2>2. ASSUME NEW s \in Sessions, pc[s] = "metadata"
        PROVE  options[s].amount \in Amount
    BY <2>0, <2>1, <2>2 DEF SessionsInv, SessionInv
  <2>3. ASSUME NEW s \in Sessions, pc[s] = "payloads"
        PROVE  metadata[s].nonce \in Nat /\ metadata[s].amount \in Amount
    <3> PICK n \in Nat : metadata[s] = MetadataOf(OptionsFor(s), n)
      BY <2>0, <2>3 DEF SessionsInv, SessionInv, HadNonce
    <3>1. metadata[s].nonce = JsonNumber(n)
          /\ metadata[s].amount \in {OptionsFor(s).amount, 0}
      BY DEF MetadataOf
    <3> QED
      BY <2>1, <2>3, <3>1, JsonNumberType DEF Amount
  <2>4. ASSUME NEW s \in Sessions, NEW t \in signed[s]
        PROVE  t.nonce \in Nat /\ t.value \in Nat
    <3> PICK u : /\ IsAsIntended(u, payment[s].intent)
                 /\ t.value = u.value /\ t.data = u.data
      BY <2>0, SignedOrigin
    <3>1. payment[s].intent.amount \in Nat \ {0}
      BY <2>0, SignedOrigin
    <3>2. t.data.kind # "transfer" => t.value = payment[s].intent.amount
      BY <3>1, IntendedFields
    <3>3. t.value = 0 \/ t.data.kind # "transfer"
      BY <2>0, SignedKind
    <3> QED
      BY <2>0, <3>1, <3>2, <3>3, SignedNonce
  <2>5. settled \in 0 .. Len(chain)
    BY DEF IInv, ChainInv
  <2>6. \A s \in Sessions : pc[s] # "idle" => payment[s] \in PaymentsOf[s]
    BY <2>0 DEF SessionsInv, SessionInv
  <2> QED
    BY <2>2, <2>3, <2>4, <2>5, <2>6 DEF TypeOK, TypeInv
<1> QED
  BY <1>1, FeeInvariant, PTL

\* A fee that is computed from a price that JSON has rounded is charged with that price.
LEMMA JsonNumberTwice ==
  ASSUME NEW n \in Nat
  PROVE  JsonNumber(JsonNumber(n)) = JsonNumber(n)
BY ConstructionServiceAssumption DEF JsonNumber

LEMMA LessToExecute ==
  ASSUME NEW price \in Nat, NEW gas \in Nat, NEW more \in Nat, gas <= more
  PROVE  gas * price <= more * price
OBVIOUS

\* After refunds a payment costs no more than was suggested, a native one exactly that.
THEOREM SuggestedFee ==
  ASSUME DataNamesTokens, networkConfig.MinGasPrice <= MaxExact
  PROVE  Spec => []SuggestedFeeIsEnough
<1>1. IInv /\ TypeInv /\ FeeInv => SuggestedFeeIsEnough
  <2> SUFFICES ASSUME IInv, TypeInv, FeeInv, NEW s \in Sessions, tx[s] \in signed[s]
               PROVE  /\ Charged(tx[s]) <= suggested[s]
                      /\ IsNative(payment[s].intent) => Charged(tx[s]) = suggested[s]
    BY DEF SuggestedFeeIsEnough
  <2> DEFINE t == tx[s]
             o == OptionsFor(s)
             price == gasPriceOf(o)
             moving == movementGasLimit(t.data) * price
             needed == IF t.data.kind = "transfer" THEN RequiredTransferGas ELSE 0
  <2>0. SessionsInv /\ t \in signed[s]
    BY DEF IInv
  <2> HIDE DEF t
  <2>1. /\ t.data = computedData(o) /\ t.gasPrice = JsonNumber(price)
        /\ payment[s] \in Payments /\ IsAccepted(s) /\ payment[s].form \in Forms
        /\ payment[s].gasPrice \in Nat
    BY <2>0, SignedOrigin
  <2>2. price \in Nat /\ t.data.length \in Nat
    BY <2>1, RequestedNumbers DEF IsAccepted, OptionsFor
  <2>3. t.gasPrice = price
    <3>1. o.gasPrice = JsonNumber(payment[s].gasPrice)
      BY <2>1, RequestedFields DEF IsAccepted, OptionsFor
    <3>2. JsonNumber(networkConfig.MinGasPrice) = networkConfig.MinGasPrice
      BY JsonNumberType, ConstructionServiceAssumption
    <3>3. price \in {o.gasPrice, networkConfig.MinGasPrice}
      BY DEF gasPriceOf, coalesce
    <3> QED
      BY <2>1, <3>1, <3>2, <3>3, JsonNumberTwice
  <2>4. suggested[s] = moving + executionGasLimit(o) * executionGasPrice(price)
    BY <2>0, <2>1 DEF FeeInv, SuggestedInv, computeFee, t
  <2>5. Charged(t) = moving + needed * executionGasPrice(price)
    <3>1. executionGasPrice(price) \in Nat
      BY <2>2, PriceOfExecution
    <3>2. 0 * executionGasPrice(price) = 0
      BY <3>1
    <3> QED
      BY <2>3, <3>2 DEF Charged, movementGasLimit
  <2>6. /\ needed \in Nat /\ executionGasLimit(o) \in Nat /\ needed <= executionGasLimit(o)
        /\ isNativeCurrencySymbol(o.currencySymbol) => needed = executionGasLimit(o)
    BY <2>0, SignedKind, ConstructionAssumption, ConstructionServiceAssumption DEF executionGasLimit
  <2>7. moving \in Nat /\ executionGasPrice(price) \in Nat
    <3>1. movementGasLimit(t.data) \in Nat
      BY <2>2, ConstructionServiceAssumption DEF movementGasLimit
    <3> QED
      BY <2>2, <3>1, PriceOfExecution
  <2>8. IsNative(payment[s].intent) => isNativeCurrencySymbol(o.currencySymbol)
    BY <2>1, RequestedFields DEF IsNative, isNativeCurrencySymbol, IsAccepted, OptionsFor
  <2> HIDE DEF moving, needed, price, o
  <2>9. needed * executionGasPrice(price) <= executionGasLimit(o) * executionGasPrice(price)
        /\ needed * executionGasPrice(price) \in Nat
        /\ executionGasLimit(o) * executionGasPrice(price) \in Nat
    BY <2>6, <2>7, LessToExecute
  <2>10. Charged(t) <= suggested[s]
    BY <2>4, <2>5, <2>7, <2>9
  <2>11. IsNative(payment[s].intent) => Charged(t) = suggested[s]
    BY <2>4, <2>5, <2>6, <2>8
  <2> QED
    BY <2>10, <2>11 DEF t
<1> QED
  BY <1>1, FeeInvariant, PTL

-----------------------------------------------------------------------------
(* What becomes of a payment's operations *)

IsFlat(f, seqs, n) == f = [i \in 1 .. n |-> IF i = 1 THEN seqs[i] ELSE f[i - 1] \o seqs[i]]
Flat(seqs) == CHOOSE f : IsFlat(f, seqs, Len(seqs))

\* FlattenSeq is the last one of the concatenations, if these make a function.
LEMMA FlattenUnfold ==
  ASSUME NEW seqs, NEW n \in Nat \ {0}, Len(seqs) = n, \E f : IsFlat(f, seqs, n)
  PROVE  /\ Transformer!FlattenSeq(seqs) = Flat(seqs)[n]
         /\ Flat(seqs)[1] = seqs[1]
         /\ \A i \in 2 .. n : Flat(seqs)[i] = Flat(seqs)[i - 1] \o seqs[i]
<1>1. Transformer!FlattenSeq(seqs) = Flat(seqs)[n]
  <2>1. Len(seqs) # 0
    OBVIOUS
  <2>2. Transformer!FlattenSeq(seqs) = Flat(seqs)[Len(seqs)]
    BY <2>1, Zenon DEF Transformer!FlattenSeq, Flat, IsFlat
  <2> QED BY <2>2
<1>2. PICK f : f = Flat(seqs)
  OBVIOUS
<1>3. IsFlat(f, seqs, n)
  BY <1>2, Zenon DEF Flat
<1>4. \A i \in 1 .. n : f[i] = IF i = 1 THEN seqs[i] ELSE f[i - 1] \o seqs[i]
  BY <1>3 DEF IsFlat
<1>5. 1 \in 1 .. n /\ \A i \in 2 .. n : i \in 1 .. n /\ i # 1
  OBVIOUS
<1> QED BY <1>1, <1>2, <1>4, <1>5, Zenon

\* One sequence, three sequences.
LEMMA FlattenOne ==
  ASSUME NEW s
  PROVE  Transformer!FlattenSeq(<<s>>) = s
<1>1. IsFlat([i \in 1 .. 1 |-> s], <<s>>, 1)
  BY DEF IsFlat
<1>2. Len(<<s>>) = 1 /\ 1 \in Nat \ {0} /\ <<s>>[1] = s
  OBVIOUS
<1> QED BY <1>1, <1>2, FlattenUnfold, Zenon

Three(a, b, c) == (a \o b) \o c

LEMMA FlattenThree ==
  ASSUME NEW a, NEW b, NEW c
  PROVE  Transformer!FlattenSeq(<<a, b, c>>) = Three(a, b, c)
<1> DEFINE seqs == <<a, b, c>>
<1>1. IsFlat([i \in 1 .. 3 |-> IF i = 1 THEN a ELSE IF i = 2 THEN a \o b ELSE (a \o b) \o c], seqs, 3)
  BY DEF IsFlat
<1>2. Len(seqs) = 3 /\ 3 \in Nat \ {0} /\ seqs[1] = a /\ seqs[2] = b /\ seqs[3] = c
  OBVIOUS
<1>3. 2 \in 2 .. 3 /\ 3 \in 2 .. 3 /\ 2 - 1 = 1 /\ 3 - 1 = 2
  OBVIOUS
<1> HIDE DEF seqs
<1>4. /\ Transformer!FlattenSeq(seqs) = Flat(seqs)[3]
      /\ Flat(seqs)[1] = seqs[1]
      /\ \A i \in 2 .. 3 : Flat(seqs)[i] = Flat(seqs)[i - 1] \o seqs[i]
  BY <1>1, <1>2, FlattenUnfold, Zenon
<1>5. Flat(seqs)[2] = Flat(seqs)[1] \o seqs[2] /\ Flat(seqs)[3] = Flat(seqs)[2] \o seqs[3]
  BY <1>3, <1>4
<1>6. Transformer!FlattenSeq(seqs) = (a \o b) \o c
  BY <1>2, <1>4, <1>5, Zenon
<1> QED BY <1>6, Zenon DEF seqs, Three

\* Of twelve sequences, only the third has elements.
LEMMA FlattenThirdOfTwelve ==
  ASSUME NEW seqs, NEW s, Len(seqs) = 12, <<>> \o s = s, s \o <<>> = s,
         \A i \in 1 .. 12 : seqs[i] = IF i = 3 THEN s ELSE <<>>
  PROVE  Transformer!FlattenSeq(seqs) = s
<1>0. <<>> \o <<>> = <<>>
  OBVIOUS
<1>1. IsFlat([i \in 1 .. 12 |-> IF i < 3 THEN <<>> ELSE s], seqs, 12)
  <2> DEFINE f == [i \in 1 .. 12 |-> IF i < 3 THEN <<>> ELSE s]
             g == [i \in 1 .. 12 |-> IF i = 1 THEN seqs[i] ELSE f[i - 1] \o seqs[i]]
  <2>1. ASSUME NEW i \in 1 .. 12 PROVE f[i] = g[i]
    <3>1. CASE i = 1
      BY <3>1
    <3>2. CASE i = 2
      BY <1>0, <3>2
    <3>3. CASE i = 3
      <4>1. seqs[i] = s
        BY <3>3, Zenon
      <4>2. f[i] = s /\ f[i - 1] = <<>>
        BY <3>3
      <4>3. i # 1
        BY <3>3
      <4>4. g[i] = f[i - 1] \o seqs[i]
        BY <4>3, Zenon
      <4> HIDE DEF f, g
      <4> QED BY <4>1, <4>2, <4>4, Zenon
    <3>4. CASE i > 3
      <4>1. i # 3
        BY <3>4
      <4>2. seqs[i] = <<>>
        BY <4>1, Zenon
      <4>3. f[i] = s /\ f[i - 1] = s
        BY <3>4
      <4>4. i # 1
        BY <3>4
      <4>5. g[i] = f[i - 1] \o seqs[i]
        BY <4>4, Zenon
      <4> HIDE DEF f, g
      <4> QED BY <4>2, <4>3, <4>5, Zenon
    <3> QED BY <3>1, <3>2, <3>3, <3>4
  <2>2. DOMAIN f = DOMAIN g
    OBVIOUS
  <2>3. f = g
    BY <2>1
  <2> QED BY <2>3 DEF IsFlat
<1>2. PICK f : f = Flat(seqs)
  OBVIOUS
<1>3. /\ Transformer!FlattenSeq(seqs) = f[12]
      /\ f[1] = seqs[1] /\ \A i \in 2 .. 12 : f[i] = f[i - 1] \o seqs[i]
  <2>1. 12 \in Nat \ {0}
    OBVIOUS
  <2> QED BY <1>1, <1>2, <2>1, FlattenUnfold, Zenon
<1>4. f[1] = <<>>
  BY <1>3
<1>5. \A i \in 2 .. 12 : i - 1 \in 1 .. 11 /\ i \in 1 .. 12
  OBVIOUS
<1>6. f[2] = <<>>
  <2>0. 2 \in 2 .. 12 /\ 2 - 1 = 1 /\ 2 \in 1 .. 12 /\ 2 # 3
    OBVIOUS
  <2>1. f[2] = f[1] \o seqs[2] /\ seqs[2] = <<>>
    BY <1>3, <2>0
  <2> QED BY <1>0, <1>4, <2>1, Zenon
<1>7. f[3] = s
  <2>0. 3 \in 2 .. 12 /\ 3 - 1 = 2 /\ 3 \in 1 .. 12
    OBVIOUS
  <2>1. f[3] = f[2] \o seqs[3] /\ seqs[3] = s
    BY <1>3, <2>0
  <2> QED BY <1>6, <2>1, Zenon
<1>8. \A i \in 4 .. 12 : f[i - 1] = s => f[i] = s
  <2> TAKE i \in 4 .. 12
  <2>0. i \in 2 .. 12 /\ i \in 1 .. 12 /\ i # 3
    OBVIOUS
  <2>1. f[i] = f[i - 1] \o seqs[i] /\ seqs[i] = <<>>
    BY <1>3, <2>0, Zenon
  <2> QED BY <2>1, Zenon
<1>9. f[4] = s /\ f[5] = s /\ f[6] = s /\ f[7] = s
  <2>1. f[4] = s
    BY <1>7, <1>8
  <2>2. f[5] = s
    BY <1>8, <2>1
  <2>3. f[6] = s
    BY <1>8, <2>2
  <2> QED BY <1>8, <2>1, <2>2, <2>3
<1>10. f[8] = s /\ f[9] = s /\ f[10] = s /\ f[11] = s
  <2>1. f[8] = s
    BY <1>8, <1>9
  <2>2. f[9] = s
    BY <1>8, <2>1
  <2>3. f[10] = s
    BY <1>8, <2>2
  <2> QED BY <1>8, <2>1, <2>2, <2>3
<1>11. f[12] = s
  BY <1>8, <1>10
<1> QED BY <1>3, <1>11, Zenon

\* The events of a kind, of a transaction with at most one event.
LEMMA EventsOfOne ==
  ASSUME NEW t, NEW identifier
  PROVE  /\ t.events = <<>> => Transformer!findManyEventsByIdentifier(t, identifier) = <<>>
         /\ \A e : t.events = <<e>> =>
              Transformer!findManyEventsByIdentifier(t, identifier)
                = IF e.identifier = identifier THEN <<e>> ELSE <<>>
<1>1. ASSUME t.events = <<>>
      PROVE  Transformer!findManyEventsByIdentifier(t, identifier) = <<>>
  <2>1. [i \in DOMAIN <<>> |-> IF <<>>[i].identifier = identifier THEN << <<>>[i] >> ELSE <<>>] = <<>>
    OBVIOUS
  <2>2. Transformer!FlattenSeq(<<>>) = <<>>
    BY DEF Transformer!FlattenSeq
  <2> QED BY <1>1, <2>1, <2>2, Zenon DEF Transformer!findManyEventsByIdentifier, Transformer!Select
<1>2. ASSUME NEW e, t.events = <<e>>
      PROVE  Transformer!findManyEventsByIdentifier(t, identifier)
               = IF e.identifier = identifier THEN <<e>> ELSE <<>>
  <2>1. [i \in DOMAIN <<e>> |-> IF <<e>>[i].identifier = identifier THEN << <<e>>[i] >> ELSE <<>>]
          = << IF e.identifier = identifier THEN <<e>> ELSE <<>> >>
    OBVIOUS
  <2> QED BY <1>2, <2>1, FlattenOne, Zenon
          DEF Transformer!findManyEventsByIdentifier, Transformer!Select
<1> QED BY <1>1, <1>2

\* The operations that the events of a payment give: none, or those of a transfer.
LEMMA EventOperationsOfOne ==
  ASSUME NEW t
  PROVE  /\ t.events = <<>> => Transformer!EventOperations(t) = <<>>
         /\ \A e : t.events = <<e>> /\ e.identifier = "ESDTTransfer" =>
              Transformer!EventOperations(t) = Transformer!OperationsOfEvent(t, e)
<1> DEFINE found == [k \in DOMAIN Transformer!EventOrder |->
                       Transformer!findManyEventsByIdentifier(t, Transformer!EventOrder[k])]
<1>1. /\ DOMAIN Transformer!EventOrder = 1 .. 12
      /\ \A k \in 1 .. 12 : Transformer!EventOrder[k] = "ESDTTransfer" <=> k = 3
  BY DEF Transformer!EventOrder
<1>2. Len(found) = 12
  BY <1>1
<1>3. Transformer!FlattenSeq(<<>>) = <<>> /\ <<>> \o <<>> = <<>>
  BY DEF Transformer!FlattenSeq
<1>4. ASSUME t.events = <<>> PROVE Transformer!EventOperations(t) = <<>>
  <2>1. \A i \in 1 .. 12 : found[i] = IF i = 3 THEN <<>> ELSE <<>>
    BY <1>1, <1>4, EventsOfOne
  <2> HIDE DEF found
  <2>2. Transformer!FlattenSeq(found) = <<>>
    BY <1>2, <1>3, <2>1, FlattenThirdOfTwelve
  <2>3. PICK ordered : ordered = Transformer!FlattenSeq(found)
    OBVIOUS
  <2>4. [i \in DOMAIN ordered |-> Transformer!OperationsOfEvent(t, ordered[i])] = <<>>
    BY <2>2, <2>3
  <2>5. ~Transformer!hasAnySignalError(t)
    BY <1>4, EventsOfOne DEF Transformer!hasAnySignalError
  <2> QED BY <1>3, <2>3, <2>4, <2>5, Zenon DEF Transformer!EventOperations, found
<1>5. ASSUME NEW e, t.events = <<e>>, e.identifier = "ESDTTransfer"
      PROVE  Transformer!EventOperations(t) = Transformer!OperationsOfEvent(t, e)
  <2>1. \A i \in 1 .. 12 : found[i] = IF i = 3 THEN <<e>> ELSE <<>>
    <3> TAKE i \in 1 .. 12
    <3>1. found[i] = IF e.identifier = Transformer!EventOrder[i] THEN <<e>> ELSE <<>>
      BY <1>1, <1>5, EventsOfOne
    <3> QED BY <1>1, <1>5, <3>1
  <2> HIDE DEF found
  <2>2. Transformer!FlattenSeq(found) = <<e>>
    <3>1. <<>> \o <<e>> = <<e>> /\ <<e>> \o <<>> = <<e>>
      OBVIOUS
    <3> QED BY <1>2, <2>1, <3>1, FlattenThirdOfTwelve
  <2>3. PICK ordered : ordered = Transformer!FlattenSeq(found)
    OBVIOUS
  <2>4. [i \in DOMAIN ordered |-> Transformer!OperationsOfEvent(t, ordered[i])]
          = << Transformer!OperationsOfEvent(t, e) >>
    BY <2>2, <2>3
  <2>5. ~Transformer!hasAnySignalError(t)
    BY <1>5, EventsOfOne DEF Transformer!hasAnySignalError
  <2> QED BY <2>3, <2>4, <2>5, FlattenOne, Zenon DEF Transformer!EventOperations, found
<1> QED BY <1>4, <1>5

\* What becomes of an operation: it is kept or not, and then it is a success.
Kept(op) == IF Transformer!IsAddressObserved(op.account) /\ op.value # 0 THEN <<op>> ELSE <<>>
Succeeded(op) == IF op.status = "" THEN [op EXCEPT !.status = "Success"] ELSE op

\* KeepOperations, of three operations.
LEMMA KeptOfThree ==
  ASSUME NEW a, NEW b, NEW c
  PROVE  Transformer!KeepOperations(<<a, b, c>>) = Three(Kept(a), Kept(b), Kept(c))
<1> DEFINE Choices == [i \in DOMAIN <<a, b, c>> |->
                  IF /\ Transformer!IsAddressObserved(<<a, b, c>>[i].account)
                     /\ <<a, b, c>>[i].value # 0
                  THEN << <<a, b, c>>[i] >> ELSE <<>>]
<1>1. Choices = << Kept(a), Kept(b), Kept(c) >>
  <2>1. DOMAIN Choices = 1 .. 3
    OBVIOUS
  <2>2. Choices[1] = Kept(a) /\ Choices[2] = Kept(b) /\ Choices[3] = Kept(c)
    BY DEF Kept
  <2>3. Choices = [i \in 1 .. 3 |-> Choices[i]]
    BY <2>1
  <2> HIDE DEF Choices
  <2> QED BY <2>2, <2>3
<1>2. Transformer!KeepOperations(<<a, b, c>>) = Transformer!FlattenSeq(Choices)
  BY Zenon DEF Transformer!KeepOperations, Transformer!Select
<1>3. Transformer!FlattenSeq(<< Kept(a), Kept(b), Kept(c) >>) = Three(Kept(a), Kept(b), Kept(c))
  BY FlattenThree, Zenon
<1> HIDE DEF Choices
<1> QED BY <1>1, <1>2, <1>3, Zenon

\* Concatenation of what has one or two elements.
LEMMA ConcatOneOne ==
  ASSUME NEW a, NEW b
  PROVE  <<a>> \o <<b>> = <<a, b>>
<1> DEFINE S == {a, b}
           q == <<a>> \o <<b>>
           r == <<a, b>>
<1>1. <<a>> \in Seq(S) /\ <<b>> \in Seq(S) /\ r \in Seq(S)
  OBVIOUS
<1> HIDE DEF S
<1>2. /\ q \in Seq(S) /\ Len(q) = Len(<<a>>) + Len(<<b>>)
      /\ \A i \in 1 .. Len(<<a>>) + Len(<<b>>) : q[i] = IF i <= Len(<<a>>) THEN <<a>>[i] ELSE <<b>>[i - Len(<<a>>)]
  BY <1>1, ConcatProperties
<1> HIDE DEF q
<1>3. Len(q) = 2 /\ q[1] = a /\ q[2] = b
  BY <1>2
<1>4. Len(r) = 2 /\ r \in Seq(S) /\ \A i \in 1 .. Len(q) : q[i] = r[i]
  BY <1>1, <1>3
<1> HIDE DEF r
<1>5. q = r
  BY <1>2, <1>3, <1>4, SeqEqual
<1> QED BY <1>5 DEF q, r

LEMMA AppendToPair ==
  ASSUME NEW a, NEW b, NEW c
  PROVE  <<a, b>> \o <<c>> = <<a, b, c>>
<1> DEFINE S == {a, b, c}
           q == <<a, b>> \o <<c>>
           r == <<a, b, c>>
<1>1. <<a, b>> \in Seq(S) /\ <<c>> \in Seq(S) /\ r \in Seq(S)
  OBVIOUS
<1> HIDE DEF S
<1>2. /\ q \in Seq(S) /\ Len(q) = Len(<<a, b>>) + Len(<<c>>)
      /\ \A i \in 1 .. Len(<<a, b>>) + Len(<<c>>) : q[i] = IF i <= Len(<<a, b>>) THEN <<a, b>>[i] ELSE <<c>>[i - Len(<<a, b>>)]
  BY <1>1, ConcatProperties
<1> HIDE DEF q
<1>3. Len(q) = 3 /\ q[1] = a /\ q[2] = b /\ q[3] = c
  BY <1>2
<1>4. Len(r) = 3 /\ r \in Seq(S) /\ \A i \in 1 .. Len(q) : q[i] = r[i]
  BY <1>1, <1>3
<1> HIDE DEF r
<1>5. q = r
  BY <1>2, <1>3, <1>4, SeqEqual
<1> QED BY <1>5 DEF q, r

LEMMA PrependToPair ==
  ASSUME NEW a, NEW b, NEW c
  PROVE  <<c>> \o <<a, b>> = <<c, a, b>>
<1> DEFINE S == {a, b, c}
           q == <<c>> \o <<a, b>>
           r == <<c, a, b>>
<1>1. <<c>> \in Seq(S) /\ <<a, b>> \in Seq(S) /\ r \in Seq(S)
  OBVIOUS
<1> HIDE DEF S
<1>2. /\ q \in Seq(S) /\ Len(q) = Len(<<c>>) + Len(<<a, b>>)
      /\ \A i \in 1 .. Len(<<c>>) + Len(<<a, b>>) : q[i] = IF i <= Len(<<c>>) THEN <<c>>[i] ELSE <<a, b>>[i - Len(<<c>>)]
  BY <1>1, ConcatProperties
<1> HIDE DEF q
<1>3. Len(q) = 3 /\ q[1] = c /\ q[2] = a /\ q[3] = b
  BY <1>2
<1>4. Len(r) = 3 /\ r \in Seq(S) /\ \A i \in 1 .. Len(q) : q[i] = r[i]
  BY <1>1, <1>3
<1> HIDE DEF r
<1>5. q = r
  BY <1>2, <1>3, <1>4, SeqEqual
<1> QED BY <1>5 DEF q, r

LEMMA AppendToNone ==
  ASSUME NEW a
  PROVE  <<>> \o <<a>> = <<a>>
OBVIOUS

\* Three sequences with at most one element.
LEMMA ThreeOfOne ==
  ASSUME NEW a, NEW b, NEW c
  PROVE  /\ Three(<<a>>, <<b>>, <<c>>) = <<a, b, c>>
         /\ Three(<<a>>, <<b>>, <<>>) = <<a, b>>
         /\ Three(<<>>, <<a>>, <<b>>) = <<a, b>>
<1>1. <<a>> \o <<b>> = <<a, b>> /\ <<a, b>> \o <<c>> = <<a, b, c>>
  BY ConcatOneOne, AppendToPair
<1>2. <<a, b>> \o <<>> = <<a, b>> /\ <<>> \o <<a>> = <<a>>
  OBVIOUS
<1> QED BY <1>1, <1>2, Zenon DEF Three

\* How an operation is compared.
Line(op) == [type |-> op.type, account |-> op.account, value |-> op.value, symbol |-> op.currency.symbol]

\* Two or three operations, as they are shown.
LEMMA ShownOfTwo ==
  ASSUME NEW a, NEW b
  PROVE  Shown(<<a, b>>) = {Line(a), Line(b)}
<1>1. Shown(<<a, b>>) = {Line(op) : op \in {<<a, b>>[i] : i \in DOMAIN <<a, b>>}}
  BY Zenon DEF Shown, Line
<1>2. {<<a, b>>[i] : i \in DOMAIN <<a, b>>} = {a, b}
  OBVIOUS
<1> QED BY <1>1, <1>2, Zenon

LEMMA ShownOfThree ==
  ASSUME NEW a, NEW b, NEW c
  PROVE  Shown(<<a, b, c>>) = {Line(a), Line(b), Line(c)}
<1>1. Shown(<<a, b, c>>) = {Line(op) : op \in {<<a, b, c>>[i] : i \in DOMAIN <<a, b, c>>}}
  BY Zenon DEF Shown, Line
<1>2. {<<a, b, c>>[i] : i \in DOMAIN <<a, b, c>>} = {a, b, c}
  OBVIOUS
<1> QED BY <1>1, <1>2, Zenon

\* What transformBlockTxs makes of the operations of a transaction.
Final(operations) ==
  Transformer!applyDefaultStatusOnOperations(Transformer!KeepOperations(operations))

\* Operations a and b that stay, beside a fee, that stays or is zero.
Stay(a, b, fee) ==
  /\ Kept(a) = <<a>> /\ Kept(b) = <<b>>
  /\ Line(Succeeded(a)) = Line(a) /\ Line(Succeeded(b)) = Line(b)
  /\ Line(Succeeded(fee)) = Line(fee)
  /\ Line(a).type # "Fee" /\ Line(b).type # "Fee" /\ Line(fee).type = "Fee"

WithoutFee(operations) == {op \in Shown(operations) : op.type # "Fee"}

\* Of all operations, the movement is shown.
ShowsMovement(all, a, b) ==
  Final(all) # <<>> /\ WithoutFee(Final(all)) = {Line(a), Line(b)}

\* What is left of the two operations of a movement, a and b, and of a fee, in either order.
LEMMA FilteredOperations ==
  ASSUME NEW a, NEW b, NEW fee, Stay(a, b, fee),
         NEW raw, raw = <<a, b, fee>> \/ raw = <<fee, a, b>>
  PROVE  ShowsMovement(raw, a, b)
<1> DEFINE final == Final(raw)
<1> USE DEF Stay
<1>0. Kept(fee) \in {<<>>, <<fee>>}
  BY DEF Kept
<1> DEFINE kept == Transformer!KeepOperations(raw)
<1>1. kept \in {<<a, b, fee>>, <<fee, a, b>>, <<a, b>>}
  <2>1. CASE raw = <<a, b, fee>>
    <3>1. kept = Three(<<a>>, <<b>>, Kept(fee))
      BY <2>1, KeptOfThree, Zenon
    <3>2. Three(<<a>>, <<b>>, <<fee>>) = <<a, b, fee>> /\ Three(<<a>>, <<b>>, <<>>) = <<a, b>>
      BY ThreeOfOne, Zenon
    <3> HIDE DEF kept
    <3>3. CASE Kept(fee) = <<fee>>
      BY <3>1, <3>2, <3>3, Zenon
    <3>4. CASE Kept(fee) = <<>>
      BY <3>1, <3>2, <3>4, Zenon
    <3> QED BY <1>0, <3>3, <3>4, Zenon
  <2>2. CASE raw = <<fee, a, b>>
    <3>1. kept = Three(Kept(fee), <<a>>, <<b>>)
      BY <2>2, KeptOfThree, Zenon
    <3>2. Three(<<fee>>, <<a>>, <<b>>) = <<fee, a, b>> /\ Three(<<>>, <<a>>, <<b>>) = <<a, b>>
      BY ThreeOfOne, Zenon
    <3> HIDE DEF kept
    <3>3. CASE Kept(fee) = <<fee>>
      BY <3>1, <3>2, <3>3, Zenon
    <3>4. CASE Kept(fee) = <<>>
      BY <3>1, <3>2, <3>4, Zenon
    <3> QED BY <1>0, <3>3, <3>4, Zenon
  <2> QED BY <2>1, <2>2
<1> HIDE DEF kept
<1>2. final = [i \in DOMAIN kept |-> Succeeded(kept[i])]
  BY Zenon DEF Final, Transformer!applyDefaultStatusOnOperations, Succeeded, kept
<1> HIDE DEF final
<1> PICK x, y, z : x = Succeeded(a) /\ y = Succeeded(b) /\ z = Succeeded(fee)
  OBVIOUS
<1>3. final \in {<<x, y, z>>, <<z, x, y>>, <<x, y>>}
  <2>1. CASE kept = <<a, b, fee>>
    BY <1>2, <2>1
  <2>2. CASE kept = <<fee, a, b>>
    BY <1>2, <2>2
  <2>3. CASE kept = <<a, b>>
    BY <1>2, <2>3
  <2> QED BY <1>1, <2>1, <2>2, <2>3
<1>4. final # <<>>
  BY <1>3
<1>5. Line(x) = Line(a) /\ Line(y) = Line(b) /\ Line(z) = Line(fee)
  OBVIOUS
<1>6. Shown(final) \in { {Line(a), Line(b), Line(fee)}, {Line(a), Line(b)} }
  <2>1. CASE final = <<x, y, z>>
    BY <1>5, <2>1, ShownOfThree
  <2>2. CASE final = <<z, x, y>>
    <3>1. Shown(final) = {Line(fee), Line(a), Line(b)}
      BY <1>5, <2>2, ShownOfThree
    <3> QED BY <3>1
  <2>3. CASE final = <<x, y>>
    BY <1>5, <2>3, ShownOfTwo
  <2> QED BY <1>3, <2>1, <2>2, <2>3
<1>7. WithoutFee(final) = {Line(a), Line(b)}
  BY <1>6 DEF WithoutFee
<1> QED BY <1>4, <1>7 DEF final, ShowsMovement

\* What transformBlockTxs makes of a block with one transaction.
LEMMA ServedAlone ==
  ASSUME NEW t, t.type = "normal", ~Transformer!isRelayedV1Transaction(t),
         NEW raw, raw = Transformer!normalTxToRosetta(t) \o Transformer!EventOperations(t),
         Final(raw) # <<>>
  PROVE  Transformer!transformBlockTxs(<<t>>, <<>>)
           = << [hash |-> t.hash, operations |-> Final(raw)] >>
<1> PICK final : final = Final(raw)
  OBVIOUS
<1>1. Transformer!filterOutIntrashardContractResultsWhoseOriginalTransactionIsInInvalidMiniblock(<<t>>)
        = <<t>>
  <2>1. PICK invalid : invalid = Transformer!HashesOfInvalid(<<t>>)
    OBVIOUS
  <2>2. [i \in DOMAIN <<t>> |->
           IF ~(<<t>>[i].type = "unsigned" /\ <<t>>[i].original \in invalid)
           THEN << <<t>>[i] >> ELSE <<>>] = << <<t>> >>
    OBVIOUS
  <2> QED BY <2>1, <2>2, FlattenOne, Zenon
          DEF Transformer!filterOutIntrashardContractResultsWhoseOriginalTransactionIsInInvalidMiniblock,
              Transformer!Select
<1>2. Transformer!filterOutIntrashardRelayedTransactionAlreadyHeldInInvalidMiniblock(<<t>>) = <<t>>
  <2>1. PICK invalid : invalid = Transformer!HashesOfInvalid(<<t>>)
    OBVIOUS
  <2>2. [i \in DOMAIN <<t>> |->
           IF ~(Transformer!isRelayedV1Transaction(<<t>>[i]) /\ <<t>>[i].hash \in invalid)
           THEN << <<t>>[i] >> ELSE <<>>] = << <<t>> >>
    OBVIOUS
  <2> QED BY <2>1, <2>2, FlattenOne, Zenon
          DEF Transformer!filterOutIntrashardRelayedTransactionAlreadyHeldInInvalidMiniblock,
              Transformer!Select
<1>3. Transformer!Select(<<>>, LAMBDA receipt : receipt.data = "refundedGas") = <<>>
  <2>1. [i \in DOMAIN <<>> |-> IF <<>>[i].data = "refundedGas" THEN << <<>>[i] >> ELSE <<>>] = <<>>
    OBVIOUS
  <2>2. Transformer!FlattenSeq(<<>>) = <<>>
    BY DEF Transformer!FlattenSeq
  <2> QED BY <2>1, <2>2, Zenon DEF Transformer!Select
<1>4. PICK made : made = [hash |-> t.hash, operations |-> raw]
  OBVIOUS
<1>5. Transformer!txToRosettaTx(t, <<t>>) = made
  BY <1>4 DEF Transformer!txToRosettaTx
<1>6. Transformer!RosettaTxs(<<t>>, <<>>) = <<made>>
  <2>1. [i \in DOMAIN <<t>> |-> Transformer!txToRosettaTx(<<t>>[i], <<t>>)] = <<made>>
    BY <1>5
  <2>2. PICK none : none = Transformer!Select(<<>>, LAMBDA receipt : receipt.data = "refundedGas")
    OBVIOUS
  <2>3. [i \in DOMAIN none |->
           [hash |-> none[i].hash,
            operations |-> Transformer!refundReceiptToRosettaTx(none[i])]] = <<>>
    BY <1>3, <2>2
  <2>4. <<made>> \o <<>> = <<made>>
    OBVIOUS
  <2> QED BY <1>1, <1>2, <2>1, <2>2, <2>3, <2>4, Zenon DEF Transformer!RosettaTxs
<1>7. PICK finished : finished = [hash |-> t.hash, operations |-> final]
  OBVIOUS
<1>8. [i \in DOMAIN <<made>> |->
         [<<made>>[i] EXCEPT !.operations =
            Transformer!applyDefaultStatusOnOperations(Transformer!KeepOperations(@))]]
        = <<finished>>
  <2>1. [made EXCEPT !.operations =
            Transformer!applyDefaultStatusOnOperations(Transformer!KeepOperations(@))] = finished
    <3>1. Transformer!applyDefaultStatusOnOperations(Transformer!KeepOperations(raw)) = final
      BY Zenon DEF Final
    <3> QED BY <1>4, <1>7, <3>1
  <2> QED BY <2>1
<1>9. Transformer!filterOutRosettaTransactionsWithNoOperations(<<finished>>) = <<finished>>
  <2>1. [i \in DOMAIN <<finished>> |->
           IF <<finished>>[i].operations # <<>> THEN << <<finished>>[i] >> ELSE <<>>]
          = << <<finished>> >>
    BY <1>7
  <2> QED BY <2>1, FlattenOne, Zenon
          DEF Transformer!filterOutRosettaTransactionsWithNoOperations, Transformer!Select
<1>10. Transformer!transformBlockTxs(<<t>>, <<>>) = <<finished>>
  <2>1. PICK all : all = Transformer!RosettaTxs(<<t>>, <<>>)
    OBVIOUS
  <2>2. [i \in DOMAIN all |->
         [all[i] EXCEPT !.operations =
            Transformer!applyDefaultStatusOnOperations(Transformer!KeepOperations(@))]] = <<finished>>
    BY <1>6, <1>8, <2>1, Zenon
  <2> QED BY <1>9, <2>1, <2>2, Zenon DEF Transformer!transformBlockTxs
<1> QED BY <1>7, <1>10

\* What a payment looks like to a client.
Lines(t, type, amount, symbol) ==
  { [type |-> type, account |-> t.sender, value |-> -amount, symbol |-> symbol],
    [type |-> type, account |-> t.receiver, value |-> amount, symbol |-> symbol] }

FeeOf(t) == Transformer!Operation("Fee", t.sender, -Charged(t), Transformer!Native)

\* A payment's transaction, as /block gets it: its own operations are a movement of its value, if
\* it has any, and the fee.
LEMMA OwnOperations ==
  ASSUME NEW t, NEW events, NEW api, api = ApiTransaction(t, events),
         ~Transformer!hasAnySignalError(api)
  PROVE  Transformer!normalTxToRosetta(api)
           = (IF t.value # 0
              THEN Transformer!Movement("Transfer", t.sender, t.receiver, t.value, Transformer!Native)
              ELSE <<>>) \o << FeeOf(t) >>
<1>1. /\ api.value = t.value /\ api.sender = t.sender /\ api.receiver = t.receiver
      /\ api.fee = Charged(t) /\ api.relayer = NoText /\ api.epoch = 0
  BY DEF ApiTransaction
<1>2. Transformer!decideFeePayer(api) = t.sender
  BY <1>1, Zenon DEF Transformer!decideFeePayer, Transformer!IsRelayedTxV3
<1>3. Transformer!IsReleaseSiriusActive(api.epoch)
  BY <1>1 DEF Transformer!IsReleaseSiriusActive
<1>4. Transformer!InnerTxOperations(api) = <<>>
  BY <1>3, Zenon DEF Transformer!InnerTxOperations
<1>5. Transformer!TransfersValue(api) <=> t.value # 0
  BY <1>1, Zenon DEF Transformer!TransfersValue,
    Transformer!isContractDeploymentWithSignalErrorOrIntrashardContractCallWithSignalError
<1> DEFINE movement == IF t.value # 0
              THEN Transformer!Movement("Transfer", t.sender, t.receiver, t.value, Transformer!Native)
              ELSE <<>>
<1>6. Transformer!normalTxToRosetta(api) = (movement \o << FeeOf(t) >>) \o <<>>
  BY <1>1, <1>2, <1>4, <1>5, Zenon DEF Transformer!normalTxToRosetta, FeeOf
<1>7. \A x, y, fee : /\ (<<x, y>> \o <<fee>>) \o <<>> = <<x, y>> \o <<fee>>
                     /\ (<<>> \o <<fee>>) \o <<>> = <<>> \o <<fee>>
  <2> TAKE x, y, fee
  <2>1. <<x, y>> \o <<fee>> = <<x, y, fee>>
    BY AppendToPair
  <2>2. <<x, y, fee>> \o <<>> = <<x, y, fee>> /\ <<>> \o <<fee>> = <<fee>> /\ <<fee>> \o <<>> = <<fee>>
    OBVIOUS
  <2> QED BY <2>1, <2>2, Zenon
<1>8. CASE t.value # 0
  <2>1. movement = << Transformer!Operation("Transfer", t.sender, -t.value, Transformer!Native),
                      Transformer!Operation("Transfer", t.receiver, t.value, Transformer!Native) >>
    BY <1>8, Zenon DEF Transformer!Movement
  <2> HIDE DEF movement
  <2>2. Transformer!normalTxToRosetta(api) = movement \o << FeeOf(t) >>
    BY <1>6, <1>7, <2>1, Zenon
  <2> QED BY <2>2 DEF movement
<1>9. CASE t.value = 0
  <2>1. movement = <<>>
    BY <1>9
  <2> HIDE DEF movement
  <2>2. Transformer!normalTxToRosetta(api) = movement \o << FeeOf(t) >>
    BY <1>6, <1>7, <2>1, Zenon
  <2> QED BY <2>2 DEF movement
<1> QED BY <1>8, <1>9

\* An operation that no filter drops.
LEMMA ObservedIsKept ==
  ASSUME NEW type, NEW account, account.shard = 0, NEW value \in Int \ {0}, NEW currency,
         NEW op, op = Transformer!Operation(type, account, value, currency)
  PROVE  Kept(op) = <<op>>
<1>1. op.account = account /\ op.value = value
  BY DEF Transformer!Operation
<1>2. Transformer!IsAddressObserved(op.account) /\ op.value # 0
  BY <1>1 DEF Transformer!IsAddressObserved
<1> QED BY <1>2, Zenon DEF Kept

\* /block shows a movement that is the whole of a payment, whatever fee comes before or after.
LEMMA MovementInBlock ==
  ASSUME NEW t, t.sender.shard = 0, t.receiver.shard = 0, NEW amount \in Int \ {0}, NEW symbol,
         NEW type \in {"Transfer", "CustomTransfer"},
         NEW out, out = Transformer!Operation(type, t.sender, -amount, [symbol |-> symbol]),
         NEW in, in = Transformer!Operation(type, t.receiver, amount, [symbol |-> symbol]),
         NEW api, api = ApiTransaction(t, TransferEvents(t)),
         NEW all, all = Transformer!normalTxToRosetta(api) \o Transformer!EventOperations(api),
         all = <<out, in, FeeOf(t)>> \/ all = <<FeeOf(t), out, in>>
  PROVE  InBlock(t) = Lines(t, type, amount, symbol)
<1> PICK fee : fee = FeeOf(t)
  OBVIOUS
<1>1. Kept(out) = <<out>> /\ Kept(in) = <<in>>
  <2>1. -amount \in Int \ {0}
    OBVIOUS
  <2>2. Kept(out) = <<out>>
    BY <2>1, ObservedIsKept, Zenon
  <2>3. Kept(in) = <<in>>
    BY ObservedIsKept, Zenon
  <2> QED BY <2>2, <2>3
<1>2. /\ Line(out) = [type |-> type, account |-> t.sender, value |-> -amount, symbol |-> symbol]
      /\ Line(in) = [type |-> type, account |-> t.receiver, value |-> amount, symbol |-> symbol]
      /\ Line(fee).type = "Fee"
  BY DEF Line, Transformer!Operation, FeeOf
<1>3. Line(Succeeded(out)) = Line(out) /\ Line(Succeeded(in)) = Line(in)
      /\ Line(Succeeded(fee)) = Line(fee)
  BY DEF Line, Transformer!Operation, FeeOf, Succeeded
<1>4. Stay(out, in, fee)
  <2>1. Line(out).type # "Fee" /\ Line(in).type # "Fee"
    BY <1>2
  <2> QED BY <1>1, <1>2, <1>3, <2>1, Zenon DEF Stay
<1> PICK raw : raw = all
  OBVIOUS
<1>5. ShowsMovement(raw, out, in)
  BY <1>4, FilteredOperations, Zenon
<1>6. api.type = "normal" /\ ~Transformer!isRelayedV1Transaction(api)
  BY DEF ApiTransaction, Transformer!isRelayedV1Transaction
<1>7. Transformer!transformBlockTxs(<<api>>, <<>>)
        = << [hash |-> api.hash, operations |-> Final(raw)] >>
  BY <1>5, <1>6, ServedAlone, Zenon DEF ShowsMovement
<1>8. << [hash |-> api.hash, operations |-> Final(raw)] >>[1].operations = Final(raw)
  OBVIOUS
<1>9. InBlock(t) = WithoutFee(Final(raw))
  BY <1>7, <1>8, Zenon DEF InBlock, WithoutFee
<1>10. InBlock(t) = {Line(out), Line(in)}
  BY <1>5, <1>9, Zenon DEF ShowsMovement
<1> QED BY <1>2, <1>10, Zenon DEF Lines

\* A payment of native value: there are no events.
LEMMA NativeInBlock ==
  ASSUME NEW t, t.sender.shard = 0, t.receiver.shard = 0, t.data.kind # "transfer",
         t.value \in Int \ {0}
  PROVE  InBlock(t) = Lines(t, "Transfer", t.value, nativeCurrency.symbol)
<1> PICK api : api = ApiTransaction(t, TransferEvents(t))
  OBVIOUS
<1>1. api.events = <<>>
  BY DEF ApiTransaction, TransferEvents
<1>2. Transformer!EventOperations(api) = <<>>
  BY <1>1, EventOperationsOfOne
<1>3. ~Transformer!hasAnySignalError(api)
  BY <1>1, EventsOfOne DEF Transformer!hasAnySignalError
<1> PICK out, in, fee :
      /\ out = Transformer!Operation("Transfer", t.sender, -t.value, [symbol |-> nativeCurrency.symbol])
      /\ in = Transformer!Operation("Transfer", t.receiver, t.value, [symbol |-> nativeCurrency.symbol])
      /\ fee = FeeOf(t)
  OBVIOUS
<1> PICK all : all = Transformer!normalTxToRosetta(api) \o Transformer!EventOperations(api)
  OBVIOUS
<1>4. all = <<out, in, fee>>
  <2>1. Transformer!Movement("Transfer", t.sender, t.receiver, t.value, Transformer!Native)
          = <<out, in>>
    BY Zenon DEF Transformer!Movement, Transformer!Native
  <2>2. Transformer!normalTxToRosetta(api)
          = (IF t.value # 0
             THEN Transformer!Movement("Transfer", t.sender, t.receiver, t.value, Transformer!Native)
             ELSE <<>>) \o << FeeOf(t) >>
    BY <1>3, OwnOperations, Zenon
  <2>3. t.value # 0
    OBVIOUS
  <2>4. Transformer!normalTxToRosetta(api) = <<out, in>> \o <<fee>>
    BY <2>1, <2>2, <2>3, Zenon
  <2>5. <<out, in>> \o <<fee>> = <<out, in, fee>>
    BY AppendToPair
  <2>6. <<out, in, fee>> \o <<>> = <<out, in, fee>>
    OBVIOUS
  <2> QED BY <1>2, <2>4, <2>5, <2>6, Zenon
<1> PICK symbol, amount, type :
      symbol = nativeCurrency.symbol /\ amount = t.value /\ type = "Transfer"
  OBVIOUS
<1>5. amount \in Int \ {0} /\ type \in {"Transfer", "CustomTransfer"}
  OBVIOUS
<1>6. /\ out = Transformer!Operation(type, t.sender, -amount, [symbol |-> symbol])
      /\ in = Transformer!Operation(type, t.receiver, amount, [symbol |-> symbol])
      /\ all = <<out, in, FeeOf(t)>> \/ all = <<FeeOf(t), out, in>>
  BY <1>4, Zenon
<1>7. InBlock(t) = Lines(t, type, amount, symbol)
  BY <1>5, <1>6, MovementInBlock, ZenonT(40)
<1> QED BY <1>7

\* A transfer of one token.
LEMMA TransferOfOne ==
  ASSUME NEW t, NEW event, NEW token, event.tokens = <<token>>, event.identifier = "ESDTTransfer"
  PROVE  Transformer!OperationsOfEvent(t, event) = Transformer!OperationsOfTransfer(event, token)
<1>1. Transformer!OperationsOfEvent(t, event)
        = Transformer!FlattenSeq([i \in DOMAIN event.tokens |->
            Transformer!OperationsOfTransfer(event, event.tokens[i])])
  BY DEF Transformer!OperationsOfEvent, Transformer!TransferEvents,
    Transformer!BurnEvents, Transformer!MintEvents
<1>2. [i \in DOMAIN event.tokens |-> Transformer!OperationsOfTransfer(event, event.tokens[i])]
        = << Transformer!OperationsOfTransfer(event, token) >>
  OBVIOUS
<1> QED BY <1>1, <1>2, FlattenOne, Zenon

\* A custom payment: its event says what it moves.
LEMMA CustomInBlock ==
  ASSUME NEW t, t.sender.shard = 0, t.receiver.shard = 0, t.data.kind = "transfer",
         t.value = 0, t.data.amount \in Int \ {0},
         t.data.token # "EGLD-000000", t.data.token \in {c.symbol : c \in customCurrencies}
  PROVE  InBlock(t) = Lines(t, "CustomTransfer", t.data.amount, t.data.token)
<1> PICK api : api = ApiTransaction(t, TransferEvents(t))
  OBVIOUS
<1> PICK token : token = [identifier |-> t.data.token, nonceAsBytes |-> <<>>, value |-> t.data.amount]
  OBVIOUS
<1> PICK event : event = [ identifier |-> "ESDTTransfer", address |-> t.sender,
                           receiver |-> t.receiver, topics |-> 4, value |-> 0, data |-> "",
                           tokens |-> <<token>> ]
  OBVIOUS
<1>1. api.events = <<event>>
  BY DEF ApiTransaction, TransferEvents
<1>2. /\ event.identifier = "ESDTTransfer" /\ event.address = t.sender
      /\ event.receiver = t.receiver /\ event.tokens = <<token>>
      /\ token.identifier = t.data.token /\ token.value = t.data.amount
      /\ token.nonceAsBytes = <<>>
  OBVIOUS
<1>3. Transformer!EventOperations(api) = Transformer!OperationsOfEvent(api, event)
  BY <1>1, <1>2, EventOperationsOfOne
<1>4. ~Transformer!hasAnySignalError(api)
  <2>1. Transformer!findManyEventsByIdentifier(api, "signalError")
          = IF event.identifier = "signalError" THEN <<event>> ELSE <<>>
    BY <1>1, EventsOfOne
  <2>2. event.identifier # "signalError"
    BY <1>2
  <2>3. Transformer!findManyEventsByIdentifier(api, "signalError") = <<>>
    BY <2>1, <2>2, Zenon
  <2> QED BY <2>3, Zenon DEF Transformer!hasAnySignalError
<1> PICK out, in, fee :
      /\ out = Transformer!Operation("CustomTransfer", t.sender, -t.data.amount, [symbol |-> t.data.token])
      /\ in = Transformer!Operation("CustomTransfer", t.receiver, t.data.amount, [symbol |-> t.data.token])
      /\ fee = FeeOf(t)
  OBVIOUS
<1> PICK all : all = Transformer!normalTxToRosetta(api) \o Transformer!EventOperations(api)
  OBVIOUS
<1>5. Transformer!OperationsOfTransfer(event, token) = <<out, in>>
  <2>1. Transformer!ExtendedIdentifier(token) = [symbol |-> t.data.token]
    BY <1>2, Zenon DEF Transformer!ExtendedIdentifier
  <2>2. Transformer!OperationsOfTransfer(event, token)
          = Transformer!Movement("CustomTransfer", t.sender, t.receiver, t.data.amount,
                                 [symbol |-> t.data.token])
    BY <1>2, <2>1, Zenon DEF Transformer!OperationsOfTransfer
  <2> QED BY <2>2, Zenon DEF Transformer!Movement
<1>6. Transformer!OperationsOfEvent(api, event) = <<out, in>>
  BY <1>2, <1>5, TransferOfOne, Zenon
<1>7. all = <<fee, out, in>>
  <2>1. Transformer!normalTxToRosetta(api)
          = (IF t.value # 0
             THEN Transformer!Movement("Transfer", t.sender, t.receiver, t.value, Transformer!Native)
             ELSE <<>>) \o << FeeOf(t) >>
    BY <1>4, OwnOperations, Zenon
  <2>2. Transformer!normalTxToRosetta(api) = <<>> \o <<fee>>
    BY <2>1, Zenon
  <2>3. <<>> \o <<fee>> = <<fee>>
    BY AppendToNone, Zenon
  <2>4. <<fee>> \o <<out, in>> = <<fee, out, in>>
    BY PrependToPair
  <2> QED BY <1>3, <1>6, <2>2, <2>3, <2>4, Zenon
<1> PICK symbol, amount, type :
      symbol = t.data.token /\ amount = t.data.amount /\ type = "CustomTransfer"
  OBVIOUS
<1>8. amount \in Int \ {0} /\ type \in {"Transfer", "CustomTransfer"}
  OBVIOUS
<1>9. /\ out = Transformer!Operation(type, t.sender, -amount, [symbol |-> symbol])
      /\ in = Transformer!Operation(type, t.receiver, amount, [symbol |-> symbol])
      /\ all = <<out, in, FeeOf(t)>> \/ all = <<FeeOf(t), out, in>>
  BY <1>7, Zenon
<1>10. InBlock(t) = Lines(t, type, amount, symbol)
  BY <1>8, <1>9, MovementInBlock, ZenonT(40)
<1> QED BY <1>10

\* What /mempool/transaction shows: native value only.
LEMMA ShownInMempool ==
  ASSUME NEW t, t.value \in Int
  PROVE  InMempool(t) = IF t.value # 0 THEN Lines(t, "Transfer", t.value, nativeCurrency.symbol)
                                       ELSE {}
<1> PICK api : api = ApiTransaction(t, <<>>)
  OBVIOUS
<1>1. api.value = t.value /\ api.sender = t.sender /\ api.receiver = t.receiver
  BY DEF ApiTransaction
<1>2. CASE t.value # 0
  <2> PICK out, in :
        /\ out = Transformer!Operation("Transfer", t.sender, -t.value, [symbol |-> nativeCurrency.symbol])
        /\ in = Transformer!Operation("Transfer", t.receiver, t.value, [symbol |-> nativeCurrency.symbol])
    OBVIOUS
  <2>1. Transformer!mempoolMoveBalanceTxToRosettaTx(api) = <<out, in>>
    BY <1>1, <1>2, Zenon
       DEF Transformer!mempoolMoveBalanceTxToRosettaTx, Transformer!Movement, Transformer!Native
  <2>2. InMempool(t) = {Line(out), Line(in)}
    BY <2>1, ShownOfTwo, Zenon DEF InMempool
  <2>3. {Line(out), Line(in)} = Lines(t, "Transfer", t.value, nativeCurrency.symbol)
    BY DEF Line, Lines, Transformer!Operation
  <2> QED BY <1>2, <2>2, <2>3
<1>3. CASE t.value = 0
  <2>1. Transformer!mempoolMoveBalanceTxToRosettaTx(api) = <<>>
    BY <1>1, <1>3 DEF Transformer!mempoolMoveBalanceTxToRosettaTx
  <2>2. Shown(<<>>) = {}
    BY DEF Shown
  <2>3. InMempool(t) = {}
    BY <2>1, <2>2, Zenon DEF InMempool
  <2> QED BY <1>3, <2>3
<1> QED BY <1>2, <1>3

\* What /construction/parse shows.
LEMMA ShownByParse ==
  ASSUME NEW t
  PROVE  /\ t.data.kind = "transfer" /\ t.data.amount \in Nat =>
              Parsed(t) = Lines(t, "CustomTransfer", t.data.amount, t.data.token)
         /\ t.data.kind # "transfer" /\ t.value \in Nat =>
              Parsed(t) = Lines(t, "Transfer", t.value, nativeCurrency.symbol)
<1>1. CustomCurrency(t.data.token).symbol = t.data.token
  BY DEF CustomCurrency
<1>2. ASSUME NEW type, NEW amount \in Nat, NEW currency,
             ParsedOperations(t) = ParsedMovement(type, t, amount, currency)
      PROVE  Parsed(t) = Lines(t, type, amount, currency.symbol)
  <2> PICK out, in :
        /\ out = [type |-> type, account |-> t.sender, value |-> Negated(amount), currency |-> currency]
        /\ in = [type |-> type, account |-> t.receiver, value |-> amount, currency |-> currency]
    OBVIOUS
  <2>1. ParsedOperations(t) = <<out, in>>
    BY <1>2, Zenon DEF ParsedMovement
  <2>2. Parsed(t) = {Line(out), Line(in)}
    BY <2>1, ShownOfTwo, Zenon DEF Parsed
  <2>3. Negated(amount) = -amount
    BY DEF Negated
  <2>4. {Line(out), Line(in)} = Lines(t, type, amount, currency.symbol)
    BY <2>3 DEF Line, Lines
  <2> QED BY <2>2, <2>4
<1>3. ASSUME t.data.kind = "transfer", t.data.amount \in Nat
      PROVE  Parsed(t) = Lines(t, "CustomTransfer", t.data.amount, t.data.token)
  <2>1. ParsedOperations(t)
          = ParsedMovement("CustomTransfer", t, t.data.amount, CustomCurrency(t.data.token))
    BY <1>3 DEF ParsedOperations
  <2>2. Parsed(t) = Lines(t, "CustomTransfer", t.data.amount, CustomCurrency(t.data.token).symbol)
    BY <1>2, <1>3, <2>1
  <2> QED BY <1>1, <2>2, Zenon
<1>4. ASSUME t.data.kind # "transfer", t.value \in Nat
      PROVE  Parsed(t) = Lines(t, "Transfer", t.value, nativeCurrency.symbol)
  <2>1. ParsedOperations(t) = ParsedMovement("Transfer", t, t.value, nativeCurrency)
    BY <1>4 DEF ParsedOperations
  <2> QED BY <1>2, <1>4, <2>1
<1> QED BY <1>3, <1>4

\* The accounts of a payment belong to the observed shard.
WithinShard ==
  \A p \in Payments : p.intent.sender.shard = 0 /\ p.intent.receiver.shard = 0

\* What events call native value is not configured as a custom currency.
NativeIsNotCustom == \A c \in customCurrencies : c.symbol # "EGLD-000000"

\* A payment is shown by /mempool/transaction and /block as it was by /construction/parse, when
\* its accounts are in the observed shard.
THEOREM PaymentShownAsParsed ==
  ASSUME DataNamesTokens, WithinShard, NativeIsNotCustom
  PROVE  Spec => []PaymentIsShown
<1>1. IInv => PaymentIsShown
  <2> SUFFICES ASSUME IInv, NEW s \in Sessions, NEW t \in signed[s], Enabled(s)
               PROVE  /\ InMempool(t) = IF IsNative(payment[s].intent) THEN Parsed(t) ELSE {}
                      /\ InBlock(t) = Parsed(t)
    BY DEF PaymentIsShown
  <2> DEFINE intent == payment[s].intent
  <2>0. SessionsInv
    BY DEF IInv
  <2>1. payment[s] \in Payments /\ intent.amount \in Nat \ {0}
    BY <2>0, SignedOrigin
  <2> PICK u : /\ IsAsIntended(u, intent) /\ t.sender = u.sender
               /\ t.receiver = u.receiver /\ t.value = u.value /\ t.data = u.data
    BY <2>0, SignedOrigin
  <2>2. /\ t.sender = intent.sender /\ t.receiver = intent.receiver
        /\ t.data.kind = "transfer" => /\ t.data.amount = intent.amount
                                       /\ t.data.token = intent.currency.symbol
        /\ t.data.kind # "transfer" => /\ t.value = intent.amount
                                       /\ intent.currency = nativeCurrency
    BY <2>1, IntendedFields
  <2>3. t.sender.shard = 0 /\ t.receiver.shard = 0
    BY <2>1, <2>2 DEF WithinShard
  <2>4. IF isNativeCurrencySymbol(OptionsFor(s).currencySymbol)
        THEN t.data.kind \in {"none", "message"}
        ELSE t.data.kind = "transfer" /\ t.value = 0
    BY <2>0, SignedKind
  <2>5. OptionsFor(s).currencySymbol = intent.currency.symbol
    BY <2>0, SignedOrigin, RequestedFields DEF OptionsFor, IsAccepted
  <2> HIDE DEF intent
  <2>6. CASE t.data.kind # "transfer"
    <3>1. t.value \in Nat /\ t.value \in Int \ {0} /\ t.value \in Int /\ t.value # 0
      BY <2>1, <2>2, <2>6
    <3>2. InBlock(t) = Lines(t, "Transfer", t.value, nativeCurrency.symbol)
      BY <2>3, <2>6, <3>1, NativeInBlock, Zenon
    <3>3. InMempool(t) = Lines(t, "Transfer", t.value, nativeCurrency.symbol)
      BY <3>1, ShownInMempool, Zenon
    <3>4. Parsed(t) = Lines(t, "Transfer", t.value, nativeCurrency.symbol)
      BY <2>6, <3>1, ShownByParse, Zenon
    <3>5. IsNative(intent)
      BY <2>2, <2>6, Zenon DEF IsNative
    <3> QED
      BY <3>2, <3>3, <3>4, <3>5, Zenon DEF intent
  <2>7. CASE t.data.kind = "transfer"
    <3>1. t.data.amount \in Nat /\ t.data.amount \in Int \ {0} /\ t.data.token = intent.currency.symbol
      BY <2>1, <2>2, <2>7
    <3>2. ~isNativeCurrencySymbol(OptionsFor(s).currencySymbol) /\ t.value = 0
      BY <2>4, <2>7
    <3>3. ~IsNative(intent)
      BY <2>5, <3>2 DEF IsNative, isNativeCurrencySymbol
    <3>4. intent.currency \in customCurrencies
      BY <3>3 DEF Enabled, IsNative, intent
    <3>5. t.data.token # "EGLD-000000" /\ t.data.token \in {c.symbol : c \in customCurrencies}
      BY <3>1, <3>4 DEF NativeIsNotCustom
    <3>6. InBlock(t) = Lines(t, "CustomTransfer", t.data.amount, t.data.token)
      BY <2>3, <2>7, <3>1, <3>2, <3>5, CustomInBlock, Zenon
    <3>7. InMempool(t) = {}
      <4>1. t.value \in Int /\ ~(t.value # 0)
        BY <3>2
      <4> QED
        BY <4>1, ShownInMempool, Zenon
    <3>8. Parsed(t) = Lines(t, "CustomTransfer", t.data.amount, t.data.token)
      BY <2>7, <3>1, ShownByParse, Zenon
    <3> QED
      BY <3>3, <3>6, <3>7, <3>8, Zenon DEF intent
  <2> QED
    BY <2>6, <2>7
<1> QED
  BY <1>1, Invariant, PTL
=============================================================================
