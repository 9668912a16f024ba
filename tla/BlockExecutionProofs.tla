------------------------- MODULE BlockExecutionProofs -------------------------
(***************************************************************************)
(* Whatever is executed, in whatever order and how often, with whatever    *)
(* values, fees and tokens: the block that transformBlockTxs makes is      *)
(* served, explains every change of every balance that is served, and is   *)
(* one that a Rosetta client accepts.                                      *)
(*                                                                         *)
(* The argument has three parts.  What a block sums up to is what its      *)
(* transactions and receipts, those that are kept, say one by one: lemmas  *)
(* on sequences, sums, maps and choices, and on each operator of           *)
(* transactionsTransformer.  What a transaction says depends on others     *)
(* only through hashes that belong to its own execution, hence executions  *)
(* can be told apart (IInv).  And each kind of execution says what it      *)
(* changed (one lemma for each action).                                    *)
(***************************************************************************)
EXTENDS BlockExecution, WellFoundedInduction, SequenceTheorems, TLAPS

-----------------------------------------------------------------------------
(* Sequences, what is summed up over them, and what is chosen of them *)

\* Induction over the naturals, for a set instead of a predicate.
LEMMA NatSetInduction ==
  ASSUME NEW T, 0 \in T, \A n \in Nat : n \in T => n + 1 \in T
  PROVE  \A n \in Nat : n \in T
<1> DEFINE R == OpToRel(<, Nat)
<1> DEFINE B == Nat \ T
<1> SUFFICES ASSUME B # {} PROVE FALSE
  OBVIOUS
<1>1. \E x \in B : \A y \in B : ~ (<<y, x>> \in R)
  <2>1. IsWellFoundedOn(R, Nat)
     BY NatLessThanWellFounded
  <2>2. B \subseteq Nat
     OBVIOUS
  <2> HIDE DEF R, B
  <2> QED BY <2>1, <2>2, WFMin
<1>2. PICK x \in B : \A y \in B : ~ (<<y, x>> \in R)
  BY <1>1
<1>3. x \in Nat /\ x # 0 /\ x - 1 \in Nat
  OBVIOUS
<1>4. x - 1 \in B
  BY <1>3
<1>5. <<x - 1, x>> \in R
  BY <1>3 DEF OpToRel
<1> QED BY <1>2, <1>4, <1>5

\* Induction over sequences, element by element, for a set instead of a predicate.
LEMMA SeqInduction ==
  ASSUME NEW S, NEW T, <<>> \in T,
         \A s \in Seq(S) : \A x \in S : s \in T => Append(s, x) \in T
  PROVE  \A s \in Seq(S) : s \in T
<1> DEFINE N == {n \in Nat : \A s \in Seq(S) : Len(s) = n => s \in T}
<1>1. 0 \in N
  <2>1. \A s \in Seq(S) : Len(s) = 0 => s = <<>>
    OBVIOUS
  <2> QED BY <2>1
<1>2. ASSUME NEW n \in Nat, n \in N PROVE n + 1 \in N
  <2>1. ASSUME NEW s \in Seq(S), Len(s) = n + 1 PROVE s \in T
    <3> DEFINE t == SubSeq(s, 1, n)
    <3>1. t \in Seq(S) /\ Len(t) = n
      BY <2>1
    <3>2. t \in T
      BY <1>2, <3>1
    <3>3. s = Append(t, s[n + 1]) /\ s[n + 1] \in S
      BY <2>1
    <3> QED BY <3>1, <3>2, <3>3
  <2> QED BY <2>1
<1>3. \A n \in Nat : n \in N
  <2> HIDE DEF N
  <2> QED BY <1>1, <1>2, NatSetInduction
<1> QED BY <1>3

IsFlat(f, seqs, n) == f = [i \in 1 .. n |-> IF i = 1 THEN seqs[i] ELSE f[i - 1] \o seqs[i]]
Flat(seqs) == CHOOSE f : IsFlat(f, seqs, Len(seqs))

\* The concatenations of the first sequences, up to the n-th, make a function.
LEMMA FlatExists ==
  ASSUME NEW seqs, NEW n \in Nat
  PROVE  \E f : IsFlat(f, seqs, n)
<1> DEFINE T == {m \in Nat : \E f : IsFlat(f, seqs, m)}
<1>1. 0 \in T
  <2>1. IsFlat([i \in 1 .. 0 |-> <<>>], seqs, 0)
    BY DEF IsFlat
  <2> QED BY <2>1
<1>2. ASSUME NEW m \in Nat, m \in T PROVE m + 1 \in T
  <2>1. PICK f : IsFlat(f, seqs, m)
    BY <1>2
  <2> DEFINE last == IF m = 0 THEN seqs[1] ELSE f[m] \o seqs[m + 1]
  <2> DEFINE g == [i \in 1 .. m + 1 |-> IF i = m + 1 THEN last ELSE f[i]]
  <2>2. \A i \in 1 .. m : f[i] = IF i = 1 THEN seqs[i] ELSE f[i - 1] \o seqs[i]
    BY <2>1 DEF IsFlat
  <2>3. \A i \in 1 .. m + 1 : g[i] = IF i = 1 THEN seqs[i] ELSE g[i - 1] \o seqs[i]
    BY <2>2
  <2>4. IsFlat(g, seqs, m + 1)
    BY <2>3 DEF IsFlat
  <2> QED BY <2>4
<1>3. \A m \in Nat : m \in T
  <2> HIDE DEF T
  <2> QED BY <1>1, <1>2, NatSetInduction
<1> QED BY <1>3

\* FlattenSeq, unfolded once.
LEMMA FlattenUnfold ==
  ASSUME NEW seqs, Len(seqs) \in Nat
  PROVE  /\ Len(seqs) = 0 => FlattenSeq(seqs) = seqs
         /\ Len(seqs) # 0 => FlattenSeq(seqs) = Flat(seqs)[Len(seqs)]
         /\ Len(seqs) # 0 => Flat(seqs)[1] = seqs[1]
         /\ \A i \in 1 .. Len(seqs) - 1 : Flat(seqs)[i + 1] = Flat(seqs)[i] \o seqs[i + 1]
<1>1. IsFlat(Flat(seqs), seqs, Len(seqs))
  BY FlatExists DEF Flat
<1>2. \A i \in 1 .. Len(seqs) :
        Flat(seqs)[i] = IF i = 1 THEN seqs[i] ELSE Flat(seqs)[i - 1] \o seqs[i]
  <2> DEFINE f == Flat(seqs)
  <2>1. f = [i \in 1 .. Len(seqs) |-> IF i = 1 THEN seqs[i] ELSE f[i - 1] \o seqs[i]]
    BY <1>1 DEF IsFlat
  <2> HIDE DEF f
  <2>2. \A i \in 1 .. Len(seqs) : f[i] = IF i = 1 THEN seqs[i] ELSE f[i - 1] \o seqs[i]
    BY <2>1
  <2> QED BY <2>2 DEF f
<1>3. ASSUME NEW i \in 1 .. Len(seqs) - 1
      PROVE  Flat(seqs)[i + 1] = Flat(seqs)[i] \o seqs[i + 1]
  <2>1. i + 1 \in 1 .. Len(seqs) /\ i + 1 # 1 /\ (i + 1) - 1 = i
    OBVIOUS
  <2>2. Flat(seqs)[i + 1] = IF i + 1 = 1 THEN seqs[i + 1] ELSE Flat(seqs)[(i + 1) - 1] \o seqs[i + 1]
    BY <1>2, <2>1, Zenon
  <2> QED BY <2>1, <2>2, Zenon
<1>4. Len(seqs) = 0 => FlattenSeq(seqs) = seqs
  BY DEF FlattenSeq
<1>5. Len(seqs) # 0 => FlattenSeq(seqs) = Flat(seqs)[Len(seqs)]
  BY Zenon DEF FlattenSeq, Flat, IsFlat
<1>6. Len(seqs) # 0 => Flat(seqs)[1] = seqs[1]
  <2>1. Len(seqs) # 0 => 1 \in 1 .. Len(seqs)
    OBVIOUS
  <2> QED BY <1>2, <2>1, Zenon
<1> QED BY <1>3, <1>4, <1>5, <1>6

IsChain(f, seqs, n) ==
  /\ n # 0 => f[1] = seqs[1]
  /\ \A i \in 1 .. n - 1 : f[i + 1] = f[i] \o seqs[i + 1]
SamePrefix(seqs, more, S, n) == \A i \in 1 .. n : seqs[i] \in Seq(S) /\ more[i] = seqs[i]

\* The concatenations of a prefix do not depend on what follows it.
LEMMA FlatPrefix ==
  ASSUME NEW S, NEW n \in Nat, NEW seqs, NEW more, NEW f, NEW g,
         SamePrefix(seqs, more, S, n), IsChain(f, seqs, n), IsChain(g, more, n)
  PROVE  \A i \in 1 .. n : f[i] \in Seq(S) /\ g[i] = f[i]
<1> USE DEF SamePrefix, IsChain
<1> DEFINE T == {i \in Nat : i \in 1 .. n => f[i] \in Seq(S) /\ g[i] = f[i]}
<1>1. 0 \in T
  OBVIOUS
<1>2. ASSUME NEW i \in Nat, i \in T PROVE i + 1 \in T
  <2> SUFFICES ASSUME i + 1 \in 1 .. n PROVE f[i + 1] \in Seq(S) /\ g[i + 1] = f[i + 1]
    OBVIOUS
  <2>1. CASE i = 0
    BY <2>1
  <2>2. CASE i # 0
    <3>0. i \in 1 .. n /\ i \in 1 .. n - 1
      BY <2>2
    <3>1. f[i] \in Seq(S) /\ g[i] = f[i]
      BY <1>2, <3>0
    <3>2. f[i + 1] = f[i] \o seqs[i + 1] /\ g[i + 1] = g[i] \o more[i + 1]
      BY <3>0, Zenon
    <3>3. more[i + 1] = seqs[i + 1] /\ seqs[i + 1] \in Seq(S)
      OBVIOUS
    <3>4. f[i] \o seqs[i + 1] \in Seq(S)
      BY <3>1, <3>3
    <3> QED BY <3>1, <3>2, <3>3, <3>4, Zenon
  <2> QED BY <2>1, <2>2
<1>3. \A i \in Nat : i \in T
  <2> HIDE DEF T
  <2> QED BY <1>1, <1>2, NatSetInduction
<1> QED BY <1>3

\* What a sequence of sequences holds.
LEMMA SeqOfSeq ==
  ASSUME NEW S, NEW seqs \in Seq(Seq(S))
  PROVE  Len(seqs) \in Nat /\ DOMAIN seqs = 1 .. Len(seqs) /\ \A i \in 1 .. Len(seqs) : seqs[i] \in Seq(S)
<1> DEFINE SS == Seq(S)
<1>1. seqs \in Seq(SS)
  OBVIOUS
<1> HIDE DEF SS
<1>2. Len(seqs) \in Nat /\ DOMAIN seqs = 1 .. Len(seqs) /\ \A i \in 1 .. Len(seqs) : seqs[i] \in SS
  BY <1>1
<1> QED BY <1>2 DEF SS

\* What Append makes.
LEMMA AppendFacts ==
  ASSUME NEW S, NEW s \in Seq(S), NEW x \in S
  PROVE  /\ Append(s, x) \in Seq(S)
         /\ Len(Append(s, x)) = Len(s) + 1
         /\ \A i \in 1 .. Len(s) : Append(s, x)[i] = s[i]
         /\ Append(s, x)[Len(s) + 1] = x
OBVIOUS

\* FlattenSeq, of one sequence more.
LEMMA FlattenAppend ==
  ASSUME NEW S, NEW seqs \in Seq(Seq(S)), NEW s \in Seq(S)
  PROVE  /\ FlattenSeq(<<>>) = <<>>
         /\ FlattenSeq(seqs) \in Seq(S)
         /\ FlattenSeq(Append(seqs, s)) = FlattenSeq(seqs) \o s
<1>1. PICK more : more = Append(seqs, s)
  OBVIOUS
<1>2. /\ more \in Seq(Seq(S)) /\ Len(more) = Len(seqs) + 1
      /\ \A i \in 1 .. Len(seqs) : more[i] = seqs[i]
      /\ more[Len(seqs) + 1] = s
  BY <1>1, AppendFacts
<1>3. /\ Len(seqs) \in Nat
      /\ \A i \in 1 .. Len(seqs) : seqs[i] \in Seq(S)
  BY SeqOfSeq
<1>4. PICK f, g : f = Flat(seqs) /\ g = Flat(more)
  OBVIOUS
<1>5. /\ Len(seqs) # 0 => f[1] = seqs[1]
      /\ \A i \in 1 .. Len(seqs) - 1 : f[i + 1] = f[i] \o seqs[i + 1]
  BY <1>3, <1>4, FlattenUnfold, Zenon
<1>6. g[1] = more[1] /\ \A i \in 1 .. Len(seqs) : g[i + 1] = g[i] \o more[i + 1]
  <2>1. Len(more) \in Nat /\ Len(more) # 0 /\ Len(more) - 1 = Len(seqs)
    BY <1>2, <1>3
  <2>2. \A i \in 1 .. Len(more) - 1 : g[i + 1] = g[i] \o more[i + 1]
    BY <1>4, <2>1, FlattenUnfold, Zenon
  <2>3. g[1] = more[1]
    BY <1>4, <2>1, FlattenUnfold, Zenon
  <2> QED BY <2>1, <2>2, <2>3, Zenon
<1>7. \A i \in 1 .. Len(seqs) : f[i] \in Seq(S) /\ g[i] = f[i]
  <2>0. Len(seqs) # 0 => 1 \in 1 .. Len(seqs)
    BY <1>3
  <2>1. \A i \in 1 .. Len(seqs) - 1 : i \in 1 .. Len(seqs)
    BY <1>3
  <2>2. \A i \in 1 .. Len(seqs) - 1 : g[i + 1] = g[i] \o more[i + 1]
    BY <1>6, <2>1, Zenon
  <2>3. \A i \in 1 .. Len(seqs) : seqs[i] \in Seq(S) /\ more[i] = seqs[i]
    BY <1>2, <1>3, Zenon
  <2>4. Len(seqs) # 0 => f[1] = seqs[1] /\ g[1] = more[1]
    BY <1>5, <1>6, Zenon
  <2>5. PICK n : n = Len(seqs)
    OBVIOUS
  <2>6. /\ n \in Nat
        /\ SamePrefix(seqs, more, S, n) /\ IsChain(f, seqs, n) /\ IsChain(g, more, n)
    BY <1>3, <1>5, <2>2, <2>3, <2>4, <2>5, Zenon DEF SamePrefix, IsChain
  <2>7. \A i \in 1 .. n : f[i] \in Seq(S) /\ g[i] = f[i]
    BY <2>6, FlatPrefix
  <2> QED BY <2>5, <2>7, Zenon
<1>8. FlattenSeq(more) = g[Len(seqs) + 1]
  <2>1. Len(more) \in Nat /\ Len(more) # 0
    BY <1>2, <1>3
  <2>2. FlattenSeq(more) = g[Len(more)]
    BY <1>4, <2>1, FlattenUnfold, Zenon
  <2> QED BY <1>2, <2>2, Zenon
<1>9. FlattenSeq(<<>>) = <<>>
  BY DEF FlattenSeq
<1>10. CASE Len(seqs) = 0
  <2>1. seqs = <<>>
    BY <1>10
  <2>2. FlattenSeq(seqs) = <<>>
    BY <1>9, <2>1, Zenon
  <2>3. g[1] = s
    BY <1>2, <1>6, <1>10
  <2>4. g[Len(seqs) + 1] = s
    BY <1>10, <2>3
  <2>5. <<>> \in Seq(S) /\ <<>> \o s = s
    OBVIOUS
  <2> QED BY <1>1, <1>8, <1>9, <2>2, <2>4, <2>5, Zenon
<1>11. CASE Len(seqs) # 0
  <2>1. FlattenSeq(seqs) = f[Len(seqs)]
    BY <1>3, <1>4, <1>11, FlattenUnfold
  <2>3. Len(seqs) \in 1 .. Len(seqs)
    BY <1>3, <1>11
  <2>2. g[Len(seqs) + 1] = g[Len(seqs)] \o s
    BY <1>2, <1>6, <2>3, Zenon
  <2> QED BY <1>1, <1>7, <1>8, <1>9, <2>1, <2>2, <2>3, Zenon
<1> QED BY <1>3, <1>10, <1>11

IsSums(f, amounts, n) == f = [i \in 0 .. n |-> IF i = 0 THEN 0 ELSE f[i - 1] + amounts[i]]
Sums(amounts) == CHOOSE f : IsSums(f, amounts, Len(amounts))

\* The sums of the first amounts, up to the n-th, make a function.
LEMMA SumsExist ==
  ASSUME NEW amounts, NEW n \in Nat
  PROVE  \E f : IsSums(f, amounts, n)
<1> DEFINE T == {m \in Nat : \E f : IsSums(f, amounts, m)}
<1>1. 0 \in T
  <2>1. IsSums([i \in 0 .. 0 |-> 0], amounts, 0)
    BY DEF IsSums
  <2> QED BY <2>1
<1>2. ASSUME NEW m \in Nat, m \in T PROVE m + 1 \in T
  <2>1. PICK f : IsSums(f, amounts, m)
    BY <1>2
  <2> DEFINE g == [i \in 0 .. m + 1 |-> IF i = m + 1 THEN f[m] + amounts[m + 1] ELSE f[i]]
  <2>2. \A i \in 0 .. m : f[i] = IF i = 0 THEN 0 ELSE f[i - 1] + amounts[i]
    BY <2>1 DEF IsSums
  <2>3. \A i \in 0 .. m + 1 : g[i] = IF i = 0 THEN 0 ELSE g[i - 1] + amounts[i]
    BY <2>2
  <2>4. IsSums(g, amounts, m + 1)
    BY <2>3 DEF IsSums
  <2> QED BY <2>4
<1>3. \A m \in Nat : m \in T
  <2> HIDE DEF T
  <2> QED BY <1>1, <1>2, NatSetInduction
<1> QED BY <1>3

\* Total, unfolded once.
LEMMA TotalUnfold ==
  ASSUME NEW amounts \in Seq(Int)
  PROVE  /\ Total(amounts) = Sums(amounts)[Len(amounts)]
         /\ Sums(amounts)[0] = 0
         /\ \A i \in 0 .. Len(amounts) - 1 : Sums(amounts)[i + 1] = Sums(amounts)[i] + amounts[i + 1]
         /\ \A i \in 0 .. Len(amounts) : Sums(amounts)[i] \in Int
<1>1. PICK f : f = Sums(amounts)
  OBVIOUS
<1>2. IsSums(f, amounts, Len(amounts))
  BY <1>1, SumsExist DEF Sums
<1>3. \A i \in 0 .. Len(amounts) : f[i] = IF i = 0 THEN 0 ELSE f[i - 1] + amounts[i]
  BY <1>2 DEF IsSums
<1>4. f[0] = 0
  BY <1>3
<1>5. \A i \in 0 .. Len(amounts) - 1 : f[i + 1] = f[i] + amounts[i + 1]
  <2> TAKE i \in 0 .. Len(amounts) - 1
  <2>1. i + 1 \in 0 .. Len(amounts) /\ i + 1 # 0 /\ (i + 1) - 1 = i
    OBVIOUS
  <2>2. f[i + 1] = IF i + 1 = 0 THEN 0 ELSE f[(i + 1) - 1] + amounts[i + 1]
    BY <1>3, <2>1, Zenon
  <2> QED BY <2>1, <2>2, Zenon
<1>6. Total(amounts) = f[Len(amounts)]
  BY <1>1, Zenon DEF Total, Sums, IsSums
<1>7. \A i \in 0 .. Len(amounts) : f[i] \in Int
  <2> DEFINE T == {i \in Nat : i \in 0 .. Len(amounts) => f[i] \in Int}
  <2>1. 0 \in T
    BY <1>4
  <2>2. ASSUME NEW i \in Nat, i \in T PROVE i + 1 \in T
    BY <1>5, <2>2, SMTT(40)
  <2>3. \A i \in Nat : i \in T
    <3> HIDE DEF T
    <3> QED BY <2>1, <2>2, NatSetInduction
  <2> QED BY <2>3
<1> QED BY <1>1, <1>4, <1>5, <1>6, <1>7

\* Total, of one amount more.
LEMMA TotalAppend ==
  ASSUME NEW amounts \in Seq(Int), NEW x \in Int
  PROVE  /\ Total(<<>>) = 0
         /\ Total(amounts) \in Int
         /\ Total(Append(amounts, x)) = Total(amounts) + x
<1>1. PICK f, g, more : f = Sums(amounts) /\ more = Append(amounts, x) /\ g = Sums(more)
  OBVIOUS
<1>2. /\ more \in Seq(Int) /\ Len(more) = Len(amounts) + 1
      /\ \A i \in 1 .. Len(amounts) : more[i] = amounts[i]
      /\ more[Len(amounts) + 1] = x
  BY <1>1
<1>3. /\ Total(amounts) = f[Len(amounts)]
      /\ f[0] = 0
      /\ \A i \in 0 .. Len(amounts) - 1 : f[i + 1] = f[i] + amounts[i + 1]
      /\ \A i \in 0 .. Len(amounts) : f[i] \in Int
  BY <1>1, TotalUnfold
<1>4. /\ Total(more) = g[Len(amounts) + 1]
      /\ g[0] = 0
      /\ \A i \in 0 .. Len(amounts) : g[i + 1] = g[i] + more[i + 1]
  <2>1. /\ Total(more) = g[Len(more)]
        /\ g[0] = 0
        /\ \A i \in 0 .. Len(more) - 1 : g[i + 1] = g[i] + more[i + 1]
    BY <1>1, <1>2, TotalUnfold
  <2> QED BY <1>2, <2>1
<1>5. \A i \in 0 .. Len(amounts) : g[i] = f[i]
  <2> DEFINE T == {i \in Nat : i \in 0 .. Len(amounts) => g[i] = f[i]}
  <2>1. 0 \in T
    BY <1>3, <1>4
  <2>2. ASSUME NEW i \in Nat, i \in T, i + 1 \in 0 .. Len(amounts) PROVE g[i + 1] = f[i + 1]
    <3>1. i \in 0 .. Len(amounts) - 1 /\ i \in 0 .. Len(amounts) /\ i + 1 \in 1 .. Len(amounts)
      BY <2>2
    <3>2. g[i] = f[i] /\ more[i + 1] = amounts[i + 1]
      BY <1>2, <2>2, <3>1
    <3> QED BY <1>3, <1>4, <3>1, <3>2
  <2>3. \A i \in Nat : i \in T
    <3>1. \A i \in Nat : i \in T => i + 1 \in T
      BY <2>2
    <3> HIDE DEF T
    <3> QED BY <2>1, <3>1, NatSetInduction
  <2> QED BY <2>3
<1>6. Total(<<>>) = 0
  <2>1. <<>> \in Seq(Int) /\ Len(<<>>) = 0
    OBVIOUS
  <2> QED BY <2>1, TotalUnfold
<1> QED BY <1>1, <1>3, <1>4, <1>5, <1>6, <1>2

\* Concatenation, element by element.
LEMMA ConcatAppend ==
  ASSUME NEW S, NEW s \in Seq(S), NEW t \in Seq(S), NEW x \in S
  PROVE  /\ s \o <<>> = s
         /\ s \o t \in Seq(S)
         /\ s \o Append(t, x) = Append(s \o t, x)
OBVIOUS

SumOf(seq, weight) == Total([i \in DOMAIN seq |-> weight[seq[i]]])

\* Nothing sums up to 0.
LEMMA SumEmpty ==
  ASSUME NEW w
  PROVE  SumOf(<<>>, w) = 0
<1>1. [i \in DOMAIN <<>> |-> w[<<>>[i]]] = <<>>
  OBVIOUS
<1>2. <<>> \in Seq(Int) /\ Len(<<>>) = 0
  OBVIOUS
<1>3. Total(<<>>) = 0
  BY <1>2, TotalUnfold
<1> QED BY <1>1, <1>3, Zenon DEF SumOf

\* A sum of integers is an integer.
LEMMA SumInt ==
  ASSUME NEW S, NEW w \in [S -> Int], NEW s \in Seq(S)
  PROVE  SumOf(s, w) \in Int
<1> DEFINE A == [i \in DOMAIN s |-> w[s[i]]]
<1>1. A \in Seq(Int)
  OBVIOUS
<1>2. \A amounts \in Seq(Int) : Total(amounts) \in Int
  <2> TAKE amounts \in Seq(Int)
  <2>1. Len(amounts) \in 0 .. Len(amounts)
    OBVIOUS
  <2> QED BY <2>1, TotalUnfold
<1>3. SumOf(s, w) = Total(A)
  BY Zenon DEF SumOf
<1> HIDE DEF A
<1> QED BY <1>1, <1>2, <1>3

\* The sum over one element more.
LEMMA SumAppend ==
  ASSUME NEW S, NEW w \in [S -> Int], NEW s \in Seq(S), NEW x \in S
  PROVE  /\ SumOf(<<>>, w) = 0
         /\ SumOf(s, w) \in Int
         /\ SumOf(Append(s, x), w) = SumOf(s, w) + w[x]
<1> DEFINE A == [i \in DOMAIN s |-> w[s[i]]]
<1> DEFINE B == [i \in DOMAIN Append(s, x) |-> w[Append(s, x)[i]]]
<1>1. A \in Seq(Int)
  OBVIOUS
<1>2. B = Append(A, w[x])
  OBVIOUS
<1>3. [i \in DOMAIN <<>> |-> w[<<>>[i]]] = <<>>
  OBVIOUS
<1> HIDE DEF A, B
<1>4. w[x] \in Int
  OBVIOUS
<1>5. Total(<<>>) = 0 /\ Total(A) \in Int /\ Total(B) = Total(A) + w[x]
  BY <1>1, <1>2, <1>4, TotalAppend
<1> QED BY <1>3, <1>5, Zenon DEF SumOf, A, B

\* The sum over two sequences.
LEMMA SumConcat ==
  ASSUME NEW S, NEW w \in [S -> Int], NEW s \in Seq(S), NEW t \in Seq(S)
  PROVE  SumOf(s \o t, w) = SumOf(s, w) + SumOf(t, w)
<1> DEFINE T == {r \in Seq(S) : SumOf(s \o r, w) = SumOf(s, w) + SumOf(r, w)}
<1>1. <<>> \in T
  BY SumEmpty, SumInt
<1>2. ASSUME NEW r \in Seq(S), NEW x \in S, r \in T PROVE Append(r, x) \in T
  <2>1. s \o Append(r, x) = Append(s \o r, x) /\ s \o r \in Seq(S) /\ Append(r, x) \in Seq(S)
    OBVIOUS
  <2>2. SumOf(Append(s \o r, x), w) = SumOf(s \o r, w) + w[x]
    BY <2>1, SumAppend
  <2>3. SumOf(Append(r, x), w) = SumOf(r, w) + w[x]
    BY SumAppend
  <2>4. SumOf(s \o r, w) = SumOf(s, w) + SumOf(r, w)
    BY <1>2
  <2>5. SumOf(s, w) \in Int /\ SumOf(r, w) \in Int /\ w[x] \in Int
    BY SumInt
  <2>6. SumOf(s \o Append(r, x), w) = SumOf(s \o r, w) + w[x]
    BY <2>1, <2>2, Zenon
  <2>7. (SumOf(s, w) + SumOf(r, w)) + w[x] = SumOf(s, w) + (SumOf(r, w) + w[x])
    BY <2>5
  <2>8. SumOf(s \o Append(r, x), w) = SumOf(s, w) + SumOf(Append(r, x), w)
    BY <2>3, <2>4, <2>6, <2>7, Zenon
  <2> QED BY <2>1, <2>8
<1>3. \A r \in Seq(S) : r \in T
  <2>1. \A r \in Seq(S) : \A x \in S : r \in T => Append(r, x) \in T
    BY <1>2
  <2> HIDE DEF T
  <2> QED BY <1>1, <2>1, SeqInduction
<1> QED BY <1>3

\* The sum over a flattened sequence is the sum of the sums.
LEMMA SumFlatten ==
  ASSUME NEW S, NEW w \in [S -> Int], NEW ss \in Seq(Seq(S))
  PROVE  SumOf(FlattenSeq(ss), w) = SumOf(ss, [s \in Seq(S) |-> SumOf(s, w)])
<1> DEFINE SS == Seq(S)
<1> DEFINE W == [s \in Seq(S) |-> SumOf(s, w)]
<1> DEFINE T == {tt \in Seq(SS) : SumOf(FlattenSeq(tt), w) = SumOf(tt, W)}
<1>0. SumOf(<<>>, w) = 0 /\ SumOf(<<>>, W) = 0
  BY SumEmpty, Zenon
<1>1. <<>> \in T
  <2>1. FlattenSeq(<<>>) = <<>>
    BY DEF FlattenSeq
  <2>2. <<>> \in Seq(SS)
    OBVIOUS
  <2> HIDE DEF W, SS
  <2> QED BY <1>0, <2>1, <2>2
<1>2. W \in [SS -> Int]
  BY SumInt
<1>3. ASSUME NEW tt \in Seq(SS), NEW s \in SS, tt \in T PROVE Append(tt, s) \in T
  <2>0. tt \in Seq(Seq(S)) /\ s \in Seq(S)
    OBVIOUS
  <2>1. FlattenSeq(Append(tt, s)) = FlattenSeq(tt) \o s /\ FlattenSeq(tt) \in Seq(S)
    BY <2>0, FlattenAppend
  <2>2. SumOf(FlattenSeq(tt) \o s, w) = SumOf(FlattenSeq(tt), w) + SumOf(s, w)
    BY <2>0, <2>1, SumConcat
  <2>3. W[s] = SumOf(s, w)
    OBVIOUS
  <2>4. SumOf(FlattenSeq(tt), w) = SumOf(tt, W)
    BY <1>3
  <2>5. Append(tt, s) \in Seq(SS)
    <3> HIDE DEF SS
    <3> QED OBVIOUS
  <2>6. SumOf(Append(tt, s), W) = SumOf(tt, W) + W[s]
    <3> HIDE DEF SS, W
    <3> QED BY <1>2, SumAppend
  <2> HIDE DEF SS, W
  <2> QED BY <2>1, <2>2, <2>3, <2>4, <2>5, <2>6
<1>4. \A tt \in Seq(SS) : tt \in T
  <2>1. \A tt \in Seq(SS) : \A s \in SS : tt \in T => Append(tt, s) \in T
    BY <1>3
  <2> HIDE DEF T, SS
  <2> QED BY <1>1, <2>1, SeqInduction
<1> QED BY <1>4

Chosen(s, p) == FlattenSeq([i \in DOMAIN s |-> IF p[s[i]] THEN <<s[i]>> ELSE <<>>])

\* The elements chosen of one element more.
LEMMA ChosenAppend ==
  ASSUME NEW S, NEW p \in [S -> BOOLEAN], NEW s \in Seq(S), NEW x \in S
  PROVE  /\ Chosen(<<>>, p) = <<>>
         /\ Chosen(s, p) \in Seq(S)
         /\ Chosen(Append(s, x), p) = IF p[x] THEN Append(Chosen(s, p), x) ELSE Chosen(s, p)
<1> DEFINE SS == Seq(S)
<1> DEFINE A == [i \in DOMAIN s |-> IF p[s[i]] THEN <<s[i]>> ELSE <<>>]
<1> DEFINE B == [i \in DOMAIN Append(s, x) |->
                   IF p[Append(s, x)[i]] THEN <<Append(s, x)[i]>> ELSE <<>>]
<1> DEFINE last == IF p[x] THEN <<x>> ELSE <<>>
<1>0. last \in SS /\ <<>> \in SS
  OBVIOUS
<1>1. A \in Seq(SS)
  <2>1. \A i \in DOMAIN s : (IF p[s[i]] THEN <<s[i]>> ELSE <<>>) \in SS
    OBVIOUS
  <2>2. DOMAIN A = 1 .. Len(s) /\ Len(s) \in Nat
    OBVIOUS
  <2> HIDE DEF SS
  <2> QED BY <2>1, <2>2
<1>2. B = Append(A, last)
  OBVIOUS
<1>3. FlattenSeq(<<>>) = <<>>
  BY DEF FlattenSeq
<1>4. [i \in DOMAIN <<>> |-> IF p[<<>>[i]] THEN <<<<>>[i]>> ELSE <<>>] = <<>>
  OBVIOUS
<1>5. FlattenSeq(A) \in Seq(S) /\ FlattenSeq(B) = FlattenSeq(A) \o last
  <2>1. A \in Seq(Seq(S)) /\ last \in Seq(S)
    BY <1>0, <1>1
  <2> HIDE DEF A, B, last
  <2> QED BY <1>2, <2>1, FlattenAppend
<1>6. ASSUME NEW r \in Seq(S)
      PROVE  r \o last = IF p[x] THEN Append(r, x) ELSE r
  OBVIOUS
<1>7. Chosen(<<>>, p) = <<>>
  BY <1>3, <1>4, Zenon DEF Chosen
<1>8. Chosen(s, p) = FlattenSeq(A) /\ Chosen(Append(s, x), p) = FlattenSeq(B)
  BY Zenon DEF Chosen
<1> HIDE DEF A, B, last
<1> QED BY <1>5, <1>6, <1>7, <1>8, Zenon

\* The elements of a sequence with one more.
LEMMA RangeAppend ==
  ASSUME NEW S, NEW s \in Seq(S), NEW x \in S
  PROVE  /\ Range(<<>>) = {}
         /\ Range(s) \subseteq S
         /\ Range(Append(s, x)) = Range(s) \cup {x}
<1>1. PICK t : t = Append(s, x)
  OBVIOUS
<1>2. /\ DOMAIN t = 1 .. Len(s) + 1 /\ DOMAIN s = 1 .. Len(s) /\ Len(s) \in Nat
      /\ \A i \in 1 .. Len(s) : t[i] = s[i]
      /\ t[Len(s) + 1] = x
  BY <1>1
<1>3. \A i \in DOMAIN t : t[i] \in Range(s) \cup {x}
  BY <1>2 DEF Range
<1>4. \A i \in DOMAIN s : s[i] \in Range(t)
  BY <1>2 DEF Range
<1>5. x \in Range(t)
  BY <1>2 DEF Range
<1>6. Range(t) = Range(s) \cup {x}
  BY <1>3, <1>4, <1>5, Zenon DEF Range
<1>7. Range(s) \subseteq S /\ Range(<<>>) = {}
  BY DEF Range
<1> QED BY <1>1, <1>6, <1>7, Zenon

\* The elements of two sequences.
LEMMA RangeConcat ==
  ASSUME NEW S, NEW s \in Seq(S), NEW t \in Seq(S)
  PROVE  Range(s \o t) = Range(s) \cup Range(t)
<1> DEFINE T == {r \in Seq(S) : Range(s \o r) = Range(s) \cup Range(r)}
<1>1. <<>> \in T
  BY DEF Range
<1>2. ASSUME NEW r \in Seq(S), NEW x \in S, r \in T PROVE Append(r, x) \in T
  <2>1. s \o Append(r, x) = Append(s \o r, x) /\ s \o r \in Seq(S) /\ Append(r, x) \in Seq(S)
    OBVIOUS
  <2>2. /\ Range(Append(s \o r, x)) = Range(s \o r) \cup {x}
        /\ Range(Append(r, x)) = Range(r) \cup {x}
    <3>1. \A u \in Seq(S) : Range(Append(u, x)) = Range(u) \cup {x}
      BY RangeAppend
    <3> QED BY <2>1, <3>1, Zenon
  <2>3. Range(s \o r) = Range(s) \cup Range(r)
    BY <1>2
  <2>4. Range(s \o Append(r, x)) = Range(s) \cup Range(Append(r, x))
    BY <2>1, <2>2, <2>3, Zenon
  <2> QED BY <2>1, <2>4
<1>3. \A r \in Seq(S) : r \in T
  <2>1. \A r \in Seq(S) : \A x \in S : r \in T => Append(r, x) \in T
    BY <1>2
  <2> HIDE DEF T
  <2> QED BY <1>1, <2>1, SeqInduction
<1> QED BY <1>3

\* The elements that are chosen are those that pass.
LEMMA ChosenRange ==
  ASSUME NEW S, NEW p \in [S -> BOOLEAN], NEW s \in Seq(S)
  PROVE  /\ Chosen(s, p) \in Seq(S)
         /\ Range(Chosen(s, p)) = {x \in Range(s) : p[x]}
<1> DEFINE T == {r \in Seq(S) : /\ Chosen(r, p) \in Seq(S)
                                /\ Range(Chosen(r, p)) = {x \in Range(r) : p[x]}}
<1>1. <<>> \in T
  <2>1. [i \in DOMAIN <<>> |-> IF p[<<>>[i]] THEN <<<<>>[i]>> ELSE <<>>] = <<>>
    OBVIOUS
  <2>2. Chosen(<<>>, p) = <<>>
    BY <2>1, Zenon DEF Chosen, FlattenSeq
  <2>3. Range(<<>>) = {} /\ <<>> \in Seq(S)
    BY DEF Range
  <2>4. Range(Chosen(<<>>, p)) = {x \in Range(<<>>) : p[x]}
    <3> HIDE DEF Chosen
    <3> QED BY <2>2, <2>3
  <2> QED BY <2>2, <2>3, <2>4
<1>2. ASSUME NEW r \in Seq(S), NEW x \in S, r \in T PROVE Append(r, x) \in T
  <2>1. /\ Chosen(r, p) \in Seq(S)
        /\ Chosen(Append(r, x), p) = IF p[x] THEN Append(Chosen(r, p), x) ELSE Chosen(r, p)
    BY ChosenAppend
  <2>2. /\ Range(Append(Chosen(r, p), x)) = Range(Chosen(r, p)) \cup {x}
        /\ Range(Append(r, x)) = Range(r) \cup {x}
        /\ Range(r) \subseteq S
    BY <2>1, RangeAppend
  <2>3. Range(Chosen(r, p)) = {y \in Range(r) : p[y]}
    BY <1>2
  <2>4. Append(r, x) \in Seq(S) /\ Append(Chosen(r, p), x) \in Seq(S)
    BY <2>1
  <2>5. CASE p[x]
    <3>1. Chosen(Append(r, x), p) = Append(Chosen(r, p), x)
      BY <2>1, <2>5, Zenon
    <3>2. {y \in Range(r) \cup {x} : p[y]} = {y \in Range(r) : p[y]} \cup {x}
      BY <2>5
    <3>3. Range(Chosen(Append(r, x), p)) = {y \in Range(Append(r, x)) : p[y]}
      BY <2>2, <2>3, <3>1, <3>2, Zenon
    <3> QED BY <2>4, <3>1, <3>3, Zenon
  <2>6. CASE ~p[x]
    <3>1. Chosen(Append(r, x), p) = Chosen(r, p)
      BY <2>1, <2>6, Zenon
    <3>2. {y \in Range(r) \cup {x} : p[y]} = {y \in Range(r) : p[y]}
      BY <2>6
    <3>3. Range(Chosen(Append(r, x), p)) = {y \in Range(Append(r, x)) : p[y]}
      BY <2>2, <2>3, <3>1, <3>2, Zenon
    <3> QED BY <2>1, <2>4, <3>1, <3>3, Zenon
  <2> QED BY <2>5, <2>6, Zenon
<1>3. \A r \in Seq(S) : r \in T
  <2>1. \A r \in Seq(S) : \A x \in S : r \in T => Append(r, x) \in T
    BY <1>2
  <2> HIDE DEF T
  <2> QED BY <1>1, <2>1, SeqInduction
<1> QED BY <1>3

\* The sum over what is chosen is the sum over all, of what passes.
LEMMA ChosenSum ==
  ASSUME NEW S, NEW p \in [S -> BOOLEAN], NEW w \in [S -> Int], NEW s \in Seq(S)
  PROVE  SumOf(Chosen(s, p), w) = SumOf(s, [x \in S |-> IF p[x] THEN w[x] ELSE 0])
<1> DEFINE W == [x \in S |-> IF p[x] THEN w[x] ELSE 0]
<1> DEFINE T == {r \in Seq(S) : SumOf(Chosen(r, p), w) = SumOf(r, W)}
<1>0. W \in [S -> Int]
  OBVIOUS
<1>1. <<>> \in T
  <2>1. [i \in DOMAIN <<>> |-> IF p[<<>>[i]] THEN <<<<>>[i]>> ELSE <<>>] = <<>>
    OBVIOUS
  <2>2. Chosen(<<>>, p) = <<>>
    BY <2>1, Zenon DEF Chosen, FlattenSeq
  <2> HIDE DEF W
  <2> QED BY <2>2, SumEmpty
<1>2. ASSUME NEW r \in Seq(S), NEW x \in S, r \in T PROVE Append(r, x) \in T
  <2>1. /\ Chosen(r, p) \in Seq(S)
        /\ Chosen(Append(r, x), p) = IF p[x] THEN Append(Chosen(r, p), x) ELSE Chosen(r, p)
    BY ChosenAppend, SMTT(40)
  <2>2. W[x] = IF p[x] THEN w[x] ELSE 0
    OBVIOUS
  <2>3. SumOf(Chosen(r, p), w) = SumOf(r, W)
    BY <1>2
  <2> HIDE DEF W
  <2>4. /\ SumOf(Append(Chosen(r, p), x), w) = SumOf(Chosen(r, p), w) + w[x]
        /\ SumOf(Append(r, x), W) = SumOf(r, W) + W[x]
        /\ SumOf(r, W) \in Int
    BY <1>0, <2>1, SumAppend, ZenonT(40)
  <2>5. Append(r, x) \in Seq(S)
    OBVIOUS
  <2>6. CASE p[x]
    BY <2>1, <2>2, <2>3, <2>4, <2>5, <2>6, Zenon
  <2>7. CASE ~p[x]
    BY <2>1, <2>2, <2>3, <2>4, <2>5, <2>7
  <2> QED BY <2>6, <2>7, Zenon
<1>3. \A r \in Seq(S) : r \in T
  <2>1. \A r \in Seq(S) : \A x \in S : r \in T => Append(r, x) \in T
    BY <1>2
  <2> HIDE DEF T, W
  <2> QED BY <1>1, <2>1, SeqInduction
<1> QED BY <1>3

\* No two of the elements of a sequence that are chosen have the same key.
Distinct(s, p, key) ==
  \A i, j \in DOMAIN s : p[s[i]] /\ p[s[j]] /\ key[s[i]] = key[s[j]] => i = j

\* What is distinct among the elements that pass is distinct where they are chosen.
LEMMA ChosenDistinct ==
  ASSUME NEW S, NEW p \in [S -> BOOLEAN], NEW key, NEW s \in Seq(S), Distinct(s, p, key)
  PROVE  \A i, j \in DOMAIN Chosen(s, p) :
           key[Chosen(s, p)[i]] = key[Chosen(s, p)[j]] => i = j
<1> DEFINE All(r) == \A i, j \in DOMAIN r : key[r[i]] = key[r[j]] => i = j
<1> DEFINE T == {r \in Seq(S) : Distinct(r, p, key) => All(Chosen(r, p))}
<1>1. <<>> \in T
  <2>1. [i \in DOMAIN <<>> |-> IF p[<<>>[i]] THEN <<<<>>[i]>> ELSE <<>>] = <<>>
    OBVIOUS
  <2>2. Chosen(<<>>, p) = <<>>
    BY <2>1, Zenon DEF Chosen, FlattenSeq
  <2>3. All(<<>>) /\ <<>> \in Seq(S)
    OBVIOUS
  <2> HIDE DEF All
  <2> QED BY <2>2, <2>3
<1>2. ASSUME NEW r \in Seq(S), NEW x \in S, r \in T PROVE Append(r, x) \in T
  <2> SUFFICES ASSUME Distinct(Append(r, x), p, key) PROVE All(Chosen(Append(r, x), p))
    OBVIOUS
  <2>1. Distinct(r, p, key)
    <3> SUFFICES ASSUME NEW i \in DOMAIN r, NEW j \in DOMAIN r,
                        p[r[i]], p[r[j]], key[r[i]] = key[r[j]]
                 PROVE  i = j
      BY DEF Distinct
    <3>1. /\ i \in DOMAIN Append(r, x) /\ j \in DOMAIN Append(r, x)
          /\ Append(r, x)[i] = r[i] /\ Append(r, x)[j] = r[j]
      OBVIOUS
    <3> QED BY <3>1, Zenon DEF Distinct
  <2>2. All(Chosen(r, p))
    BY <1>2, <2>1
  <2>3. /\ Chosen(r, p) \in Seq(S)
        /\ Chosen(Append(r, x), p) = IF p[x] THEN Append(Chosen(r, p), x) ELSE Chosen(r, p)
    BY ChosenAppend
  <2>4. CASE ~p[x]
    <3>1. Chosen(Append(r, x), p) = Chosen(r, p)
      BY <2>3, <2>4, Zenon
    <3> HIDE DEF All
    <3> QED BY <2>2, <3>1
  <2>5. CASE p[x]
    <3>1. PICK c : c = Chosen(r, p)
      OBVIOUS
    <3>2. c \in Seq(S) /\ Chosen(Append(r, x), p) = Append(c, x)
      BY <2>3, <2>5, <3>1, Zenon
    <3>3. ASSUME NEW i \in DOMAIN c PROVE key[c[i]] # key[x]
      <4>1. Range(c) = {y \in Range(r) : p[y]}
        BY <3>1, ChosenRange
      <4>2. c[i] \in Range(c)
        BY DEF Range
      <4>3. PICK m \in DOMAIN r : r[m] = c[i] /\ p[r[m]]
        BY <4>1, <4>2 DEF Range
      <4>4. /\ m \in DOMAIN Append(r, x) /\ Len(r) + 1 \in DOMAIN Append(r, x)
            /\ Append(r, x)[m] = r[m] /\ Append(r, x)[Len(r) + 1] = x
            /\ m # Len(r) + 1
        OBVIOUS
      <4> QED BY <2>5, <4>3, <4>4, ZenonT(40) DEF Distinct
    <3>4. \A i, j \in DOMAIN c : key[c[i]] = key[c[j]] => i = j
      BY <2>2, <3>1
    <3>5. PICK d : d = Append(c, x)
      OBVIOUS
    <3>6. /\ DOMAIN d = 1 .. Len(c) + 1 /\ DOMAIN c = 1 .. Len(c) /\ Len(c) \in Nat
          /\ \A i \in 1 .. Len(c) : d[i] = c[i]
          /\ d[Len(c) + 1] = x
      BY <3>2, <3>5
    <3>7. All(d)
      <4> SUFFICES ASSUME NEW i \in DOMAIN d, NEW j \in DOMAIN d, key[d[i]] = key[d[j]]
                   PROVE  i = j
        OBVIOUS
      <4>1. CASE i \in 1 .. Len(c) /\ j \in 1 .. Len(c)
        BY <3>4, <3>6, <4>1
      <4>2. CASE i = Len(c) + 1 /\ j \in 1 .. Len(c)
        <5>1. key[c[j]] = key[x]
          BY <3>6, <4>2
        <5> QED BY <3>3, <3>6, <4>2, <5>1, Zenon
      <4>3. CASE j = Len(c) + 1 /\ i \in 1 .. Len(c)
        <5>1. key[c[i]] = key[x]
          BY <3>6, <4>3
        <5> QED BY <3>3, <3>6, <4>3, <5>1, Zenon
      <4> QED BY <3>6, <4>1, <4>2, <4>3
    <3> HIDE DEF All
    <3> QED BY <3>2, <3>5, <3>7
  <2> QED BY <2>4, <2>5
<1>3. \A r \in Seq(S) : r \in T
  <2>1. \A r \in Seq(S) : \A x \in S : r \in T => Append(r, x) \in T
    BY <1>2
  <2> HIDE DEF T
  <2> QED BY <1>1, <2>1, SeqInduction
<1>4. All(Chosen(s, p))
  BY <1>3
<1> QED BY <1>4

\* Sequences of one and of two elements.
LEMMA TupleFacts ==
  ASSUME NEW S, NEW x \in S, NEW y \in S
  PROVE  /\ <<>> \in Seq(S) /\ <<x>> \in Seq(S) /\ <<x, y>> \in Seq(S)
         /\ Append(<<>>, x) = <<x>>
         /\ Append(<<x>>, y) = <<x, y>>
<1>1. <<>> \in Seq(S) /\ <<x>> \in Seq(S) /\ <<x, y>> \in Seq(S)
  OBVIOUS
<1>2. Append(<<>>, x) = <<x>>
  OBVIOUS
<1>3. PICK t, u : t = Append(<<x>>, y) /\ u = <<x, y>>
  OBVIOUS
<1>4. t \in Seq(S) /\ Len(t) = 2 /\ t[1] = x /\ t[2] = y
  <2>1. /\ Append(<<x>>, y) \in Seq(S) /\ Len(Append(<<x>>, y)) = 2
        /\ Append(<<x>>, y)[1] = x /\ Append(<<x>>, y)[2] = y
    BY <1>1
  <2> QED BY <1>3, <2>1, Zenon
<1>5. u \in Seq(S) /\ Len(u) = 2 /\ u[1] = x /\ u[2] = y
  BY <1>1, <1>3
<1>6. t = u
  <2>1. Len(t) = Len(u) /\ \A i \in 1 .. Len(t) : t[i] = u[i]
    BY <1>4, <1>5
  <2> QED BY <1>4, <1>5, <2>1, SeqEqual
<1> QED BY <1>1, <1>2, <1>3, <1>6, Zenon

\* FlattenSeq of none, one and two sequences.
LEMMA FlattenFew ==
  ASSUME NEW S, NEW s \in Seq(S), NEW t \in Seq(S)
  PROVE  /\ FlattenSeq(<<>>) = <<>>
         /\ FlattenSeq(<<s>>) = s
         /\ FlattenSeq(<<s, t>>) = s \o t
<1>1. FlattenSeq(<<>>) = <<>>
  BY DEF FlattenSeq
<1>2. <<>> \in Seq(Seq(S)) /\ Append(<<>>, s) = <<s>>
  OBVIOUS
<1>3. FlattenSeq(<<s>>) = <<>> \o s
  BY <1>1, <1>2, FlattenAppend
<1>4. <<>> \o s = s
  OBVIOUS
<1>5. <<s>> \in Seq(Seq(S)) /\ Append(<<s>>, t) = <<s, t>>
  <2> DEFINE SS == Seq(S)
  <2>1. s \in SS /\ t \in SS
    OBVIOUS
  <2> HIDE DEF SS
  <2>2. <<s>> \in Seq(SS) /\ Append(<<s>>, t) = <<s, t>>
    BY <2>1, TupleFacts, Zenon
  <2> QED BY <2>2 DEF SS
<1>6. FlattenSeq(<<s, t>>) = FlattenSeq(<<s>>) \o t
  <2>1. FlattenSeq(Append(<<s>>, t)) = FlattenSeq(<<s>>) \o t
    BY <1>5, FlattenAppend
  <2> QED BY <1>5, <2>1, Zenon
<1> QED BY <1>1, <1>3, <1>4, <1>6, Zenon

\* All but one of the sequences are empty.
LEMMA FlattenOneOf ==
  ASSUME NEW S, NEW ss \in Seq(Seq(S)), NEW k \in DOMAIN ss,
         \A i \in DOMAIN ss : i # k => ss[i] = <<>>
  PROVE  FlattenSeq(ss) = ss[k]
<1> DEFINE SS == Seq(S)
<1> DEFINE T == {tt \in Seq(SS) :
      /\ (\A i \in DOMAIN tt : tt[i] = <<>>) => FlattenSeq(tt) = <<>>
      /\ \A m \in DOMAIN tt : (\A i \in DOMAIN tt : i # m => tt[i] = <<>>)
                              => FlattenSeq(tt) = tt[m]}
<1>1. <<>> \in T
  <2>1. FlattenSeq(<<>>) = <<>>
    BY DEF FlattenSeq
  <2>2. <<>> \in Seq(SS) /\ DOMAIN <<>> = {}
    OBVIOUS
  <2> HIDE DEF SS
  <2> QED BY <2>1, <2>2, Zenon
<1>2. ASSUME NEW tt \in Seq(SS), NEW s \in SS, tt \in T PROVE Append(tt, s) \in T
  <2>1. PICK uu : uu = Append(tt, s)
    OBVIOUS
  <2>2. /\ DOMAIN uu = 1 .. Len(tt) + 1 /\ DOMAIN tt = 1 .. Len(tt) /\ Len(tt) \in Nat
        /\ \A i \in 1 .. Len(tt) : uu[i] = tt[i]
        /\ uu[Len(tt) + 1] = s
        /\ uu \in Seq(SS)
    <3> HIDE DEF SS
    <3> QED BY <2>1
  <2>3. FlattenSeq(uu) = FlattenSeq(tt) \o s /\ FlattenSeq(tt) \in Seq(S) /\ s \in Seq(S)
    BY <2>1, FlattenAppend
  <2>4. \A r \in Seq(S) : <<>> \o r = r /\ r \o <<>> = r
    OBVIOUS
  <2>5. ASSUME \A i \in DOMAIN uu : uu[i] = <<>> PROVE FlattenSeq(uu) = <<>>
    <3>1. s = <<>> /\ \A i \in DOMAIN tt : tt[i] = <<>>
      <4>1. Len(tt) + 1 \in DOMAIN uu /\ \A i \in DOMAIN tt : i \in DOMAIN uu /\ uu[i] = tt[i]
        BY <2>2
      <4> QED BY <2>2, <2>5, <4>1, Zenon
    <3>2. FlattenSeq(tt) = <<>>
      BY <1>2, <3>1
    <3> QED BY <2>3, <2>4, <3>1, <3>2, Zenon
  <2>6. ASSUME NEW m \in DOMAIN uu, \A i \in DOMAIN uu : i # m => uu[i] = <<>>
        PROVE  FlattenSeq(uu) = uu[m]
    <3>1. CASE m = Len(tt) + 1
      <4>1. uu[m] = s /\ \A i \in DOMAIN tt : tt[i] = <<>>
        <5>1. \A i \in DOMAIN tt : i \in DOMAIN uu /\ uu[i] = tt[i] /\ i # m
          BY <2>2, <3>1
        <5> QED BY <2>2, <2>6, <3>1, <5>1, Zenon
      <4>2. FlattenSeq(tt) = <<>>
        BY <1>2, <4>1
      <4> QED BY <2>3, <2>4, <4>1, <4>2, Zenon
    <3>2. CASE m \in DOMAIN tt
      <4>1. s = <<>> /\ uu[m] = tt[m] /\ \A i \in DOMAIN tt : i # m => tt[i] = <<>>
        <5>1. \A i \in DOMAIN tt : i \in DOMAIN uu /\ uu[i] = tt[i]
          BY <2>2, <3>2
        <5>2. Len(tt) + 1 \in DOMAIN uu /\ Len(tt) + 1 # m
          BY <2>2, <3>2
        <5> QED BY <2>2, <2>6, <3>2, <5>1, <5>2, Zenon
      <4>2. FlattenSeq(tt) = tt[m]
        BY <1>2, <3>2, <4>1
      <4> QED BY <2>3, <2>4, <4>1, <4>2, Zenon
    <3> QED BY <2>2, <3>1, <3>2
  <2>7. uu \in T
    BY <2>2, <2>5, <2>6
  <2> QED BY <2>1, <2>7
<1>3. \A tt \in Seq(SS) : tt \in T
  <2>1. \A tt \in Seq(SS) : \A s \in SS : tt \in T => Append(tt, s) \in T
    BY <1>2
  <2> HIDE DEF T, SS
  <2> QED BY <1>1, <2>1, SeqInduction
<1>4. ss \in T
  BY <1>3
<1> QED BY <1>4

\* The sum over none, one and two elements.
LEMMA SumFew ==
  ASSUME NEW S, NEW w \in [S -> Int], NEW x \in S, NEW y \in S
  PROVE  /\ SumOf(<<>>, w) = 0
         /\ SumOf(<<x>>, w) = w[x]
         /\ SumOf(<<x, y>>, w) = w[x] + w[y]
<1>1. /\ <<>> \in Seq(S) /\ Append(<<>>, x) = <<x>>
      /\ <<x>> \in Seq(S) /\ Append(<<x>>, y) = <<x, y>>
  BY TupleFacts, Zenon
<1>2. SumOf(<<>>, w) = 0 /\ SumOf(<<x>>, w) = SumOf(<<>>, w) + w[x]
  BY <1>1, SumAppend
<1>3. SumOf(<<x, y>>, w) = SumOf(<<x>>, w) + w[y]
  BY <1>1, SumAppend
<1>4. w[x] \in Int
  OBVIOUS
<1>5. SumOf(<<x>>, w) = w[x]
  BY <1>2, <1>4
<1> QED BY <1>2, <1>3, <1>5

-----------------------------------------------------------------------------
(* A nonce, as bytes, as digits, and back *)

IsBytes(f, n) == f = [m \in 0 .. n |-> IF m = 0 THEN <<>> ELSE Append(f[m \div 256], m % 256)]
BytesUpTo(n) == CHOOSE f : IsBytes(f, n)

\* The last byte of a number and the rest.
LEMMA Div256 ==
  ASSUME NEW n \in Nat
  PROVE  /\ n \div 256 \in Nat /\ n % 256 \in 0 .. 255
         /\ n = 256 * (n \div 256) + (n % 256)
         /\ n # 0 => n \div 256 \in 0 .. n - 1
OBVIOUS

\* The two digits of a byte.
LEMMA Div16 ==
  ASSUME NEW b \in 0 .. 255
  PROVE  /\ b \div 16 \in 0 .. 15 /\ b % 16 \in 0 .. 15
         /\ b = 16 * (b \div 16) + (b % 16)
OBVIOUS

\* The bytes of the numbers up to n make a function.
LEMMA BytesExist ==
  ASSUME NEW n \in Nat
  PROVE  \E f : IsBytes(f, n)
<1> DEFINE T == {m \in Nat : \E f : IsBytes(f, m)}
<1>1. 0 \in T
  <2>1. IsBytes([m \in 0 .. 0 |-> <<>>], 0)
    BY DEF IsBytes
  <2> QED BY <2>1
<1>2. ASSUME NEW m \in Nat, m \in T PROVE m + 1 \in T
  <2>1. PICK f : IsBytes(f, m)
    BY <1>2
  <2> DEFINE last == Append(f[(m + 1) \div 256], (m + 1) % 256)
  <2> DEFINE g == [i \in 0 .. m + 1 |-> IF i = m + 1 THEN last ELSE f[i]]
  <2>2. \A i \in 0 .. m : f[i] = IF i = 0 THEN <<>> ELSE Append(f[i \div 256], i % 256)
    BY <2>1 DEF IsBytes
  <2>3. \A i \in 1 .. m + 1 : i \div 256 \in 0 .. i - 1
    BY Div256
  <2>4. \A i \in 0 .. m + 1 : g[i] = IF i = 0 THEN <<>> ELSE Append(g[i \div 256], i % 256)
    <3> TAKE i \in 0 .. m + 1
    <3>1. CASE i = 0
      BY <2>2, <3>1
    <3>2. CASE i # 0
      <4>1. i \div 256 \in 0 .. m /\ g[i \div 256] = f[i \div 256]
        BY <2>3, <3>2
      <4>2. g[i] = Append(f[i \div 256], i % 256)
        <5>1. CASE i = m + 1
          BY <5>1
        <5>2. CASE i \in 1 .. m
          <6>1. i \in 0 .. m /\ g[i] = f[i]
            BY <5>2
          <6> QED BY <2>2, <3>2, <6>1, Zenon
        <5> QED BY <3>2, <5>1, <5>2
      <4> QED BY <3>2, <4>1, <4>2, Zenon
    <3> QED BY <3>1, <3>2
  <2>5. IsBytes(g, m + 1)
    BY <2>4 DEF IsBytes
  <2> QED BY <2>5
<1>3. \A m \in Nat : m \in T
  <2>1. \A m \in Nat : m \in T => m + 1 \in T
    BY <1>2
  <2> HIDE DEF T
  <2> QED BY <1>1, <2>1, NatSetInduction
<1> QED BY <1>3

\* Bytes, unfolded once.
LEMMA BytesUpToUnfold ==
  ASSUME NEW n \in Nat
  PROVE  /\ Bytes(n) = BytesUpTo(n)[n]
         /\ BytesUpTo(n)[0] = <<>>
         /\ \A m \in 1 .. n : BytesUpTo(n)[m] = Append(BytesUpTo(n)[m \div 256], m % 256)
<1>1. PICK f : f = BytesUpTo(n)
  OBVIOUS
<1>2. IsBytes(f, n)
  BY <1>1, BytesExist DEF BytesUpTo
<1>3. \A m \in 0 .. n : f[m] = IF m = 0 THEN <<>> ELSE Append(f[m \div 256], m % 256)
  BY <1>2 DEF IsBytes
<1>4. Bytes(n) = f[n]
  BY <1>1, Zenon DEF Bytes, BytesUpTo, IsBytes
<1>5. \A m \in 1 .. n : f[m] = Append(f[m \div 256], m % 256)
  <2> TAKE m \in 1 .. n
  <2>1. m \in 0 .. n /\ m # 0
    OBVIOUS
  <2> QED BY <1>3, <2>1, Zenon
<1>6. f[0] = <<>>
  <2>1. 0 \in 0 .. n
    OBVIOUS
  <2> QED BY <1>3, <2>1, Zenon
<1> QED BY <1>1, <1>4, <1>5, <1>6, Zenon

\* The bytes of a nonce: those of the rest, and the last.
LEMMA BytesUnfold ==
  ASSUME NEW n \in Nat
  PROVE  /\ Bytes(0) = <<>>
         /\ n # 0 => Bytes(n) = Append(Bytes(n \div 256), n % 256)
         /\ Bytes(n) \in Seq(0 .. 255)
<1>1. ASSUME NEW k \in 0 .. n, NEW i \in 0 .. k
      PROVE  BytesUpTo(k)[i] = BytesUpTo(n)[i] /\ BytesUpTo(n)[i] \in Seq(0 .. 255)
  <2> PICK f, g : f = BytesUpTo(n) /\ g = BytesUpTo(k)
    OBVIOUS
  <2>1. /\ f[0] = <<>> /\ g[0] = <<>>
        /\ \A m \in 1 .. n : f[m] = Append(f[m \div 256], m % 256)
        /\ \A m \in 1 .. k : g[m] = Append(g[m \div 256], m % 256)
    <3>1. k \in Nat
      OBVIOUS
    <3>2. /\ BytesUpTo(n)[0] = <<>>
          /\ \A m \in 1 .. n : BytesUpTo(n)[m] = Append(BytesUpTo(n)[m \div 256], m % 256)
      BY BytesUpToUnfold, Zenon
    <3>3. /\ BytesUpTo(k)[0] = <<>>
          /\ \A m \in 1 .. k : BytesUpTo(k)[m] = Append(BytesUpTo(k)[m \div 256], m % 256)
      BY <3>1, BytesUpToUnfold, Zenon
    <3> QED BY <3>2, <3>3, ZenonT(40)
  <2> DEFINE T == {m \in Nat : \A j \in 0 .. m :
                     j <= k => g[j] = f[j] /\ f[j] \in Seq(0 .. 255)}
  <2>2. 0 \in T
    <3>1. \A j \in 0 .. 0 : j = 0
      OBVIOUS
    <3>2. <<>> \in Seq(0 .. 255) /\ 0 \in Nat
      OBVIOUS
    <3> QED BY <2>1, <3>1, <3>2, Zenon
  <2>3. ASSUME NEW m \in Nat, m \in T PROVE m + 1 \in T
    <3> SUFFICES ASSUME m + 1 <= k
                 PROVE  g[m + 1] = f[m + 1] /\ f[m + 1] \in Seq(0 .. 255)
      BY <2>3
    <3>1. (m + 1) \div 256 \in 0 .. m /\ (m + 1) % 256 \in 0 .. 255
      BY Div256
    <3>2. /\ g[(m + 1) \div 256] = f[(m + 1) \div 256]
          /\ f[(m + 1) \div 256] \in Seq(0 .. 255)
      BY <2>3, <3>1
    <3>3. m + 1 \in 1 .. n /\ m + 1 \in 1 .. k
      OBVIOUS
    <3>4. /\ f[m + 1] = Append(f[(m + 1) \div 256], (m + 1) % 256)
          /\ g[m + 1] = Append(g[(m + 1) \div 256], (m + 1) % 256)
      BY <2>1, <3>3, ZenonT(40)
    <3>5. Append(f[(m + 1) \div 256], (m + 1) % 256) \in Seq(0 .. 255)
      BY <3>1, <3>2, AppendFacts
    <3> QED BY <3>2, <3>4, <3>5, ZenonT(40)
  <2>4. \A m \in Nat : m \in T
    <3>1. \A m \in Nat : m \in T => m + 1 \in T
      BY <2>3
    <3> HIDE DEF T
    <3> QED BY <2>2, <3>1, NatSetInduction
  <2>5. i \in T
    BY <2>4
  <2> QED BY <2>5
<1>2. Bytes(0) = <<>>
  BY BytesUpToUnfold
<1>3. Bytes(n) \in Seq(0 .. 255)
  <2>1. n \in 0 .. n
    OBVIOUS
  <2> QED BY <1>1, <2>1, BytesUpToUnfold, ZenonT(40)
<1>4. ASSUME n # 0 PROVE Bytes(n) = Append(Bytes(n \div 256), n % 256)
  <2>1. n \div 256 \in 0 .. n /\ n \div 256 \in Nat /\ n \in 1 .. n
    BY <1>4, Div256
  <2>2. n \div 256 \in 0 .. n \div 256
    BY <2>1
  <2>3. Bytes(n) = Append(BytesUpTo(n)[n \div 256], n % 256)
    BY <2>1, BytesUpToUnfold, ZenonT(40)
  <2>4. BytesUpTo(n \div 256)[n \div 256] = BytesUpTo(n)[n \div 256]
    BY <1>1, <2>1, <2>2
  <2>5. Bytes(n \div 256) = BytesUpTo(n \div 256)[n \div 256]
    BY <2>1, BytesUpToUnfold
  <2> QED BY <2>3, <2>4, <2>5, Zenon
<1> QED BY <1>2, <1>3, <1>4

IsNonces(f, digits, n) == f = [i \in 0 .. n |-> IF i = 0 THEN 0 ELSE 16 * f[i - 1] + digits[i]]
Nonces(digits) == CHOOSE f : IsNonces(f, digits, Len(digits))

\* What the first digits are parsed as, up to the n-th, makes a function.
LEMMA NoncesExist ==
  ASSUME NEW digits, NEW n \in Nat
  PROVE  \E f : IsNonces(f, digits, n)
<1> DEFINE T == {m \in Nat : \E f : IsNonces(f, digits, m)}
<1>1. 0 \in T
  <2>1. IsNonces([i \in 0 .. 0 |-> 0], digits, 0)
    BY DEF IsNonces
  <2> QED BY <2>1
<1>2. ASSUME NEW m \in Nat, m \in T PROVE m + 1 \in T
  <2>1. PICK f : IsNonces(f, digits, m)
    BY <1>2
  <2> DEFINE g == [i \in 0 .. m + 1 |-> IF i = m + 1 THEN 16 * f[m] + digits[m + 1] ELSE f[i]]
  <2>2. \A i \in 0 .. m : f[i] = IF i = 0 THEN 0 ELSE 16 * f[i - 1] + digits[i]
    BY <2>1 DEF IsNonces
  <2>3. \A i \in 0 .. m + 1 : g[i] = IF i = 0 THEN 0 ELSE 16 * g[i - 1] + digits[i]
    BY <2>2
  <2>4. IsNonces(g, digits, m + 1)
    BY <2>3 DEF IsNonces
  <2> QED BY <2>4
<1>3. \A m \in Nat : m \in T
  <2>1. \A m \in Nat : m \in T => m + 1 \in T
    BY <1>2
  <2> HIDE DEF T
  <2> QED BY <1>1, <2>1, NatSetInduction
<1> QED BY <1>3

\* ParseNonce, unfolded once.
LEMMA ParseUnfold ==
  ASSUME NEW digits \in Seq(Int)
  PROVE  /\ Queries!ParseNonce(digits) = Nonces(digits)[Len(digits)]
         /\ Nonces(digits)[0] = 0
         /\ \A i \in 0 .. Len(digits) - 1 :
              Nonces(digits)[i + 1] = 16 * Nonces(digits)[i] + digits[i + 1]
         /\ \A i \in 0 .. Len(digits) : Nonces(digits)[i] \in Int
<1>1. PICK f : f = Nonces(digits)
  OBVIOUS
<1>2. IsNonces(f, digits, Len(digits))
  <2>1. Len(digits) \in Nat
    OBVIOUS
  <2> QED BY <1>1, <2>1, NoncesExist, Zenon DEF Nonces
<1>3. \A i \in 0 .. Len(digits) : f[i] = IF i = 0 THEN 0 ELSE 16 * f[i - 1] + digits[i]
  BY <1>2 DEF IsNonces
<1>4. f[0] = 0
  BY <1>3
<1>5. \A i \in 0 .. Len(digits) - 1 : f[i + 1] = 16 * f[i] + digits[i + 1]
  <2> TAKE i \in 0 .. Len(digits) - 1
  <2>1. i + 1 \in 0 .. Len(digits) /\ i + 1 # 0 /\ (i + 1) - 1 = i
    OBVIOUS
  <2>2. f[i + 1] = IF i + 1 = 0 THEN 0 ELSE 16 * f[(i + 1) - 1] + digits[i + 1]
    BY <1>3, <2>1, Zenon
  <2> QED BY <2>1, <2>2, Zenon
<1>6. Queries!ParseNonce(digits) = f[Len(digits)]
  BY <1>1, Zenon DEF Queries!ParseNonce, Nonces, IsNonces
<1>7. \A i \in 0 .. Len(digits) : f[i] \in Int
  <2> DEFINE T == {i \in Nat : i \in 0 .. Len(digits) => f[i] \in Int}
  <2>1. 0 \in T
    BY <1>4
  <2>2. ASSUME NEW i \in Nat, i \in T PROVE i + 1 \in T
    BY <1>5, <2>2
  <2>3. \A i \in Nat : i \in T
    <3>1. \A i \in Nat : i \in T => i + 1 \in T
      BY <2>2
    <3> HIDE DEF T
    <3> QED BY <2>1, <3>1, NatSetInduction
  <2> QED BY <2>3
<1> QED BY <1>1, <1>4, <1>5, <1>6, <1>7

\* ParseNonce, of one digit more.
LEMMA ParseAppend ==
  ASSUME NEW digits \in Seq(Int), NEW x \in Int
  PROVE  /\ Queries!ParseNonce(<<>>) = 0
         /\ Queries!ParseNonce(digits) \in Int
         /\ Queries!ParseNonce(Append(digits, x)) = 16 * Queries!ParseNonce(digits) + x
<1>1. PICK f, g, more : f = Nonces(digits) /\ more = Append(digits, x) /\ g = Nonces(more)
  OBVIOUS
<1>2. /\ more \in Seq(Int) /\ Len(more) = Len(digits) + 1
      /\ \A i \in 1 .. Len(digits) : more[i] = digits[i]
      /\ more[Len(digits) + 1] = x
  BY <1>1
<1>3. /\ Queries!ParseNonce(digits) = f[Len(digits)]
      /\ f[0] = 0
      /\ \A i \in 0 .. Len(digits) - 1 : f[i + 1] = 16 * f[i] + digits[i + 1]
      /\ \A i \in 0 .. Len(digits) : f[i] \in Int
  BY <1>1, ParseUnfold
<1>4. /\ Queries!ParseNonce(more) = g[Len(digits) + 1]
      /\ g[0] = 0
      /\ \A i \in 0 .. Len(digits) : g[i + 1] = 16 * g[i] + more[i + 1]
  <2>1. /\ Queries!ParseNonce(more) = g[Len(more)]
        /\ g[0] = 0
        /\ \A i \in 0 .. Len(more) - 1 : g[i + 1] = 16 * g[i] + more[i + 1]
    BY <1>1, <1>2, ParseUnfold
  <2> QED BY <1>2, <2>1
<1>5. \A i \in 0 .. Len(digits) : g[i] = f[i]
  <2> DEFINE T == {i \in Nat : i \in 0 .. Len(digits) => g[i] = f[i]}
  <2>1. 0 \in T
    BY <1>3, <1>4
  <2>2. ASSUME NEW i \in Nat, i \in T, i + 1 \in 0 .. Len(digits) PROVE g[i + 1] = f[i + 1]
    <3>1. i \in 0 .. Len(digits) - 1 /\ i \in 0 .. Len(digits) /\ i + 1 \in 1 .. Len(digits)
      BY <2>2
    <3>2. g[i] = f[i] /\ more[i + 1] = digits[i + 1]
      BY <1>2, <2>2, <3>1
    <3> QED BY <1>3, <1>4, <3>1, <3>2
  <2>3. \A i \in Nat : i \in T
    <3>1. \A i \in Nat : i \in T => i + 1 \in T
      BY <2>2
    <3> HIDE DEF T
    <3> QED BY <2>1, <3>1, NatSetInduction
  <2> QED BY <2>3
<1>6. Queries!ParseNonce(<<>>) = 0
  <2>1. <<>> \in Seq(Int) /\ Len(<<>>) = 0
    OBVIOUS
  <2> QED BY <2>1, ParseUnfold
<1> QED BY <1>1, <1>3, <1>4, <1>5, <1>6, <1>2

\* The digits of one byte more.
LEMMA HexAppend ==
  ASSUME NEW bytes \in Seq(0 .. 255), NEW b \in 0 .. 255
  PROVE  /\ Hex(<<>>) = <<>>
         /\ Hex(bytes) \in Seq(Int)
         /\ Hex(Append(bytes, b)) = Append(Append(Hex(bytes), b \div 16), b % 16)
<1> DEFINE Digits(byte) == <<byte \div 16, byte % 16>>
<1> DEFINE A == [i \in DOMAIN bytes |-> Digits(bytes[i])]
<1> DEFINE B == [i \in DOMAIN Append(bytes, b) |-> Digits(Append(bytes, b)[i])]
<1> DEFINE SS == Seq(Int)
<1>1. \A byte \in 0 .. 255 : Digits(byte) \in SS
  <2> TAKE byte \in 0 .. 255
  <2>1. byte \div 16 \in Int /\ byte % 16 \in Int
    BY Div16
  <2> QED BY <2>1
<1>2. /\ DOMAIN bytes = 1 .. Len(bytes) /\ Len(bytes) \in Nat
      /\ \A i \in 1 .. Len(bytes) : bytes[i] \in 0 .. 255
  <2> DEFINE Byte == 0 .. 255
  <2>1. bytes \in Seq(Byte)
    OBVIOUS
  <2> HIDE DEF Byte
  <2>2. /\ DOMAIN bytes = 1 .. Len(bytes) /\ Len(bytes) \in Nat
        /\ \A i \in 1 .. Len(bytes) : bytes[i] \in Byte
    BY <2>1
  <2> QED BY <2>2 DEF Byte
<1>3. A \in Seq(SS)
  <2>1. \A i \in 1 .. Len(bytes) : Digits(bytes[i]) \in SS
    BY <1>1, <1>2, Zenon
  <2> HIDE DEF Digits, SS
  <2> QED BY <1>2, <2>1
<1>4. B = Append(A, Digits(b))
  <2> HIDE DEF Digits
  <2> QED OBVIOUS
<1>5. Hex(bytes) = FlattenSeq(A) /\ Hex(Append(bytes, b)) = FlattenSeq(B)
  BY Zenon DEF Hex
<1>6. Hex(<<>>) = <<>>
  <2>1. [i \in DOMAIN <<>> |-> <<<<>>[i] \div 16, <<>>[i] % 16>>] = <<>>
    OBVIOUS
  <2> QED BY <2>1, Zenon DEF Hex, FlattenSeq
<1>7. FlattenSeq(B) = FlattenSeq(A) \o Digits(b) /\ FlattenSeq(A) \in Seq(Int)
  <2>1. A \in Seq(Seq(Int)) /\ Digits(b) \in Seq(Int)
    BY <1>1, <1>3
  <2> HIDE DEF A, B, Digits
  <2> QED BY <1>4, <2>1, FlattenAppend
<1>8. ASSUME NEW s \in Seq(Int), NEW x \in Int, NEW y \in Int
      PROVE  s \o <<x, y>> = Append(Append(s, x), y)
  OBVIOUS
<1>9. b \div 16 \in Int /\ b % 16 \in Int
  BY Div16
<1> HIDE DEF A, B
<1> QED BY <1>5, <1>6, <1>7, <1>8, <1>9, ZenonT(40)

\* For every nonce, the digits that the nonce of a token is told in (getExtendedIdentifier)
\* are parsed as that nonce (parseTokenIdentifierIntoParts).
THEOREM NonceRoundTrip ==
  \A n \in Nat : Queries!ParseNonce(Hex(Bytes(n))) = n
<1> DEFINE T == {n \in Nat : \A m \in 0 .. n : Queries!ParseNonce(Hex(Bytes(m))) = m}
<1>1. 0 \in T
  <2>1. Queries!ParseNonce(<<>>) = 0
    <3>1. <<>> \in Seq(Int) /\ 0 \in Int
      OBVIOUS
    <3> QED BY <3>1, ParseAppend
  <2>2. Bytes(0) = <<>>
    BY BytesUnfold
  <2>3. Hex(<<>>) = <<>>
    <3>1. <<>> \in Seq(0 .. 255) /\ 0 \in 0 .. 255
      OBVIOUS
    <3> QED BY <3>1, HexAppend
  <2>4. \A m \in 0 .. 0 : m = 0
    OBVIOUS
  <2> QED BY <2>1, <2>2, <2>3, <2>4, 0 \in Nat, Zenon
<1>2. ASSUME NEW n \in Nat, n \in T PROVE n + 1 \in T
  <2> DEFINE q == (n + 1) \div 256
  <2> DEFINE b == (n + 1) % 256
  <2>1. q \in 0 .. n /\ q \in Nat /\ b \in 0 .. 255 /\ n + 1 = 256 * q + b
    BY Div256
  <2>2. b \div 16 \in Int /\ b % 16 \in Int /\ b = 16 * (b \div 16) + (b % 16)
    BY <2>1, Div16
  <2>3. Bytes(n + 1) = Append(Bytes(q), b) /\ Bytes(q) \in Seq(0 .. 255)
    <3>1. n + 1 \in Nat /\ n + 1 # 0
      OBVIOUS
    <3> QED BY <2>1, <3>1, BytesUnfold, Zenon
  <2>4. Queries!ParseNonce(Hex(Bytes(q))) = q
    BY <1>2, <2>1
  <2> HIDE DEF q, b
  <2>5. PICK high, low : high = b \div 16 /\ low = b % 16
    OBVIOUS
  <2>6. /\ Hex(Bytes(q)) \in Seq(Int)
        /\ Hex(Bytes(n + 1)) = Append(Append(Hex(Bytes(q)), high), low)
    BY <2>1, <2>3, <2>5, HexAppend
  <2>7. Append(Hex(Bytes(q)), high) \in Seq(Int)
    BY <2>2, <2>5, <2>6
  <2>8. Queries!ParseNonce(Append(Hex(Bytes(q)), high)) = 16 * q + high
    BY <2>2, <2>4, <2>5, <2>6, ParseAppend
  <2>9. Queries!ParseNonce(Hex(Bytes(n + 1))) = 16 * (16 * q + high) + low
    BY <2>2, <2>5, <2>6, <2>7, <2>8, ParseAppend
  <2>10. 16 * (16 * q + high) + low = n + 1
    BY <2>1, <2>2, <2>5
  <2>11. Queries!ParseNonce(Hex(Bytes(n + 1))) = n + 1
    BY <2>9, <2>10, Zenon
  <2>12. \A m \in 0 .. n + 1 : m \in 0 .. n \/ m = n + 1
    OBVIOUS
  <2> QED BY <1>2, <2>11, <2>12
<1>3. \A n \in Nat : n \in T
  <2>1. \A n \in Nat : n \in T => n + 1 \in T
    BY <1>2
  <2> HIDE DEF T
  <2> QED BY <1>1, <2>1, NatSetInduction
<1> QED BY <1>3

-----------------------------------------------------------------------------
(* Currencies and balances *)

EnabledTokens == {token \in Tokens : token.identifier \in customCurrencies}
Currencies == {Native} \cup {ExtendedIdentifier(InEvent(token)) : token \in EnabledTokens}
Asked(currency) == Queries!GetAccountBalance(currency.symbol)

\* The balance that a client is answered with, when it asks for the currency of the operations
\* on a token, is the balance of that token.
THEOREM AskedBalanceOfToken ==
  ASSUME NEW token \in Tokens
  PROVE  /\ Asked(ExtendedIdentifier(InEvent(token))) = BalanceOf(token)
         /\ BalanceOf(token) = [identifier |-> token.identifier, nonce |-> token.nonce]
         /\ BalanceOf(token) # NativeBalance
<1>1. PICK x, y : token.identifier = <<x, y>> /\ x \in STRING /\ y \in STRING
  BY CurrencyAssumption
<1>2. token.nonce \in Nat /\ token.identifier # nativeAsESDTIdentifier
  BY CurrencyAssumption
<1>3. Len(nativeCurrency) = 1
  BY CurrencyAssumption
<1>4. PICK n, bytes, digits : n = token.nonce /\ bytes = Bytes(n) /\ digits = Hex(bytes)
  OBVIOUS
<1>5. Queries!ParseNonce(digits) = n /\ n \in Nat
  BY <1>2, <1>4, NonceRoundTrip
<1>6. bytes = <<>> <=> n = 0
  <2>1. n = 0 => bytes = <<>>
    BY <1>4, BytesUnfold
  <2>2. CASE n # 0
    <3>1. bytes = Append(Bytes(n \div 256), n % 256)
      BY <1>4, <1>5, <2>2, BytesUnfold, Zenon
    <3>2. n \div 256 \in Nat /\ n % 256 \in 0 .. 255
      BY <1>5, Div256
    <3>3. Bytes(n \div 256) \in Seq(0 .. 255)
      BY <3>2, BytesUnfold
    <3>4. Append(Bytes(n \div 256), n % 256) # <<>>
      BY <3>2, <3>3, AppendProperties
    <3> QED BY <2>2, <3>1, <3>4, Zenon
  <2> QED BY <2>1, <2>2
<1>7. BalanceOf(token) = [identifier |-> token.identifier, nonce |-> token.nonce]
  BY <1>2 DEF BalanceOf
<1>8. BalanceOf(token) # NativeBalance
  <2>1. Len(<<x, y>>) = 2
    OBVIOUS
  <2>2. token.identifier # nativeCurrency
    BY <1>1, <1>3, <2>1
  <2> QED BY <1>7, <2>2 DEF NativeBalance
<1>9. PICK symbol : symbol = IF n = 0 THEN <<x, y>> ELSE Append(<<x, y>>, digits)
  OBVIOUS
<1>10. ExtendedIdentifier(InEvent(token)) = [symbol |-> symbol]
  <2>1. /\ InEvent(token).nonceAsBytes = bytes
        /\ InEvent(token).identifier = <<x, y>>
    BY <1>1, <1>4 DEF InEvent
  <2> QED BY <1>4, <1>6, <1>9, <2>1 DEF ExtendedIdentifier
<1>11. CASE n = 0
  <2>1. symbol = <<x, y>> /\ Len(symbol) = 2
    BY <1>9, <1>11
  <2>2. symbol # nativeCurrency /\ Queries!NonceOf(symbol) = 0
    BY <1>3, <2>1 DEF Queries!NonceOf
  <2>3. Queries!GetAccountBalance(symbol) = [identifier |-> symbol, nonce |-> 0]
    BY <2>1, <2>2 DEF Queries!GetAccountBalance, Queries!decideCustomTokenBalanceUrl
  <2> QED BY <1>1, <1>4, <1>7, <1>8, <1>10, <1>11, <2>1, <2>3 DEF Asked
<1>12. CASE n # 0
  <2>1. /\ Len(symbol) = 3 /\ symbol[3] = digits /\ SubSeq(symbol, 1, 2) = <<x, y>>
    <3> DEFINE S == {x, y, digits}
    <3>1. <<x, y>> \in Seq(S) /\ digits \in S
      OBVIOUS
    <3>2. symbol = Append(<<x, y>>, digits)
      BY <1>9, <1>12
    <3> HIDE DEF S
    <3>3. /\ symbol \in Seq(S) /\ Len(symbol) = 3
          /\ symbol[1] = x /\ symbol[2] = y /\ symbol[3] = digits
      BY <3>1, <3>2
    <3>4. PICK t : t = SubSeq(symbol, 1, 2)
      OBVIOUS
    <3>5. t \in Seq(S) /\ Len(t) = 2 /\ t[1] = x /\ t[2] = y
      BY <3>3, <3>4
    <3>6. <<x, y>>[1] = x /\ <<x, y>>[2] = y /\ Len(<<x, y>>) = 2
      OBVIOUS
    <3>7. t = <<x, y>>
      BY <3>1, <3>5, <3>6, SeqEqual
    <3> QED BY <3>3, <3>4, <3>7
  <2>2. symbol # nativeCurrency /\ Queries!NonceOf(symbol) = n
    BY <1>3, <1>5, <2>1 DEF Queries!NonceOf
  <2>3. Queries!GetAccountBalance(symbol) = [identifier |-> <<x, y>>, nonce |-> n]
    BY <1>12, <2>1, <2>2 DEF Queries!GetAccountBalance, Queries!decideCustomTokenBalanceUrl,
                             Queries!TickerWithRandomSequence
  <2> QED BY <1>1, <1>4, <1>7, <1>8, <1>10, <2>3 DEF Asked
<1> QED BY <1>11, <1>12

\* A client that asks for the native currency is answered with the native balance.
LEMMA AskedBalanceOfNative ==
  Asked(Native) = NativeBalance
BY DEF Asked, Native, NativeBalance, Queries!GetAccountBalance

\* The currencies of operations and the balances that are served: one for one.
LEMMA CurrenciesAreServed ==
  /\ ServedBalances = {NativeBalance} \cup {BalanceOf(token) : token \in EnabledTokens}
  /\ \A currency \in Currencies : Asked(currency) \in ServedBalances
  /\ \A currency, other \in Currencies : Asked(currency) = Asked(other) => currency = other
  /\ \A token \in Tokens : token \notin EnabledTokens => BalanceOf(token) \notin ServedBalances
<1>1. ServedBalances = {NativeBalance} \cup {BalanceOf(token) : token \in EnabledTokens}
  BY DEF ServedBalances, EnabledTokens
<1>2. EnabledTokens \subseteq Tokens
  BY DEF EnabledTokens
<1>3. \A currency \in Currencies : Asked(currency) \in ServedBalances
  BY <1>1, <1>2, AskedBalanceOfNative, AskedBalanceOfToken DEF Currencies
<1>4. ASSUME NEW token \in Tokens, NEW t \in Tokens, BalanceOf(token) = BalanceOf(t)
      PROVE  token.identifier = t.identifier /\ token.nonce = t.nonce
  BY <1>4, AskedBalanceOfToken
<1>5. ASSUME NEW token \in Tokens, NEW t \in Tokens, BalanceOf(token) = BalanceOf(t)
      PROVE  ExtendedIdentifier(InEvent(token)) = ExtendedIdentifier(InEvent(t))
  BY <1>4, <1>5 DEF ExtendedIdentifier, InEvent
<1>6. \A token \in Tokens : token \notin EnabledTokens => BalanceOf(token) \notin ServedBalances
  BY <1>1, <1>2, <1>4, AskedBalanceOfToken DEF EnabledTokens
<1>7. ASSUME NEW currency \in Currencies, NEW other \in Currencies, Asked(currency) = Asked(other)
      PROVE  currency = other
  <2>1. currency = Native \/ \E t \in Tokens : currency = ExtendedIdentifier(InEvent(t))
    BY <1>2 DEF Currencies
  <2>2. other = Native \/ \E t \in Tokens : other = ExtendedIdentifier(InEvent(t))
    BY <1>2 DEF Currencies
  <2> QED BY <1>5, <1>7, <2>1, <2>2, AskedBalanceOfNative, AskedBalanceOfToken
<1> QED BY <1>1, <1>3, <1>6, <1>7

-----------------------------------------------------------------------------
(* What the operations of one transaction are, and what they say of one balance *)

OperationTypes ==
  { "Transfer", "CustomTransfer", "Fee", "FeeRefund", "FeeOfInvalidTransaction", "Reward",
    "FeeRefundAsSmartContractResult", "SmartContractResult", "DeveloperRewards",
    "DeveloperRewardsAsSmartContractResult" }

Operations ==
  [ type : OperationTypes, account : Accounts, value : Int, currency : Currencies,
    status : {"", "Success", "Failure"} ]

\* What is said of balance b of account a: by an operation that does not fail, by a change.
Share(account, value, balance, a, b) == IF account = a /\ balance = b THEN value ELSE 0
ShareOf(a, b) ==
  [ op \in Operations |->
      IF op.status = "Failure" THEN 0 ELSE Share(op.account, op.value, Asked(op.currency), a, b) ]
Said(operations, a, b) == SumOf(operations, ShareOf(a, b))

Identifiers ==
  BurnEvents \cup MintEvents \cup TransferEvents
  \cup {"SCDeploy", "transferValueOnly", "ClaimDeveloperRewards", "signalError"}
EventData ==
  {"", "ExecuteOnDestContext", "AsyncCall", "DirectCall", "nonPayable", "invalidMeta",
   "execution failed"}
ProcessingTypes ==
  {"MoveBalance", "SCInvoking", "SCDeployment", "RelayedTx", "BuiltInFunctionCall"}

ApiEvents ==
  [ identifier : Identifiers, address : Accounts, receiver : Accounts \cup {NoAddress}, topics : Nat,
    tokens : Seq({InEvent(token) : token \in Tokens \cup {NativeToken}}), value : Int,
    data : EventData ]

IsReadable(event, ep) ==
  /\ \/ HasRightTopics(event)
     \/ event.identifier = "transferValueOnly" /\ ~IsReleaseSiriusActive(ep)
  /\ event.identifier \in TransferEvents \cup {"transferValueOnly", "ClaimDeveloperRewards"} =>
       event.receiver \in Accounts
  /\ event.identifier \in BurnEvents \cup MintEvents =>
       /\ SupplyAccount(event) \in Accounts
       /\ Len(event.tokens) = 1 /\ event.tokens[1] \in {InEvent(token) : token \in Tokens}

ReadableEvents(ep) == {event \in ApiEvents : IsReadable(event, ep)}

ApiTransactions ==
  { tx \in [ type : KnownTypes, hash : Nat \X {0, 1}, sender : Accounts \cup {Metachain},
             receiver : Accounts, value : Nat, fee : Nat, relayer : Accounts \cup {NoAddress},
             processing : ProcessingTypes, operation : {"", "ClaimDeveloperRewards"}, nonce : Nat, dataLength : Nat,
             isGuarded : BOOLEAN, isRefund : BOOLEAN, original : Seq(Nat),
             sourceShard : Nat, destinationShard : Nat, epoch : Nat,
             inner : {NoInner} \cup [sender : Accounts, receiver : Accounts, value : Nat],
             events : Seq(ApiEvents) ] :
      /\ tx.type # "reward" => tx.sender \in Accounts
      /\ tx.processing = "RelayedTx" => tx.inner # NoInner
      /\ tx.type = "unsigned" => tx.operation = ""
      /\ tx.original \in {<<>>, <<0, 0>>, <<tx.hash[1], 0>>}
      /\ tx.events \in Seq(ReadableEvents(tx.epoch)) }

TxOperations(tx, block) == txToRosettaTx(tx, block).operations

\* The accounts, as a set.
LEMMA AccountsAre ==
  /\ Accounts = {Alice, Bob, Con, NewCon, systemContractDeployAddress, Carol, RemoteCon}
  /\ NoAddress \notin Accounts
BY AccountAssumption DEF Accounts, AccountList

\* The native currency and those of the tokens that are enabled.
LEMMA CurrenciesAre ==
  /\ Native \in Currencies
  /\ \A token \in EnabledTokens : ExtendedIdentifier(InEvent(token)) \in Currencies
BY DEF Currencies

\* What an operation, and a sequence of them, says of a balance is an integer.
LEMMA ShareType ==
  \A a, b : /\ ShareOf(a, b) \in [Operations -> Int]
            /\ \A operations \in Seq(Operations) : Said(operations, a, b) \in Int
<1> TAKE a, b
<1>1. ASSUME NEW op \in Operations
      PROVE  (IF op.status = "Failure" THEN 0
              ELSE Share(op.account, op.value, Asked(op.currency), a, b)) \in Int
  <2>1. op.value \in Int
    BY DEF Operations
  <2> QED BY <2>1 DEF Share
<1>2. ShareOf(a, b) \in [Operations -> Int]
  BY <1>1 DEF ShareOf
<1> QED BY <1>2, SumInt DEF Said

\* An operation says its value, of its own account and balance.
LEMMA OperationIs ==
  ASSUME NEW type \in OperationTypes, NEW account \in Accounts, NEW value \in Int,
         NEW currency \in Currencies, NEW a, NEW b
  PROVE  /\ Operation(type, account, value, currency) \in Operations
         /\ ShareOf(a, b)[Operation(type, account, value, currency)]
              = Share(account, value, Asked(currency), a, b)
<1>1. Operation(type, account, value, currency) \in Operations
  BY DEF Operation, Operations
<1> QED BY <1>1 DEF ShareOf, Operation

\* The same, for the sequence of this operation only.
LEMMA OneOperation ==
  ASSUME NEW type \in OperationTypes, NEW account \in Accounts, NEW value \in Int,
         NEW currency \in Currencies, NEW a, NEW b
  PROVE  /\ << Operation(type, account, value, currency) >> \in Seq(Operations)
         /\ Said(<< Operation(type, account, value, currency) >>, a, b)
              = Share(account, value, Asked(currency), a, b)
<1>1. PICK op : op = Operation(type, account, value, currency)
  OBVIOUS
<1>2. /\ op \in Operations
      /\ ShareOf(a, b)[op] = Share(account, value, Asked(currency), a, b)
  <2>1. /\ Operation(type, account, value, currency) \in Operations
        /\ ShareOf(a, b)[Operation(type, account, value, currency)]
             = Share(account, value, Asked(currency), a, b)
    BY OperationIs
  <2> QED BY <1>1, <2>1, Zenon
<1>3. Said(<<op>>, a, b) = ShareOf(a, b)[op]
  BY <1>2, ShareType, SumFew DEF Said
<1>4. <<op>> \in Seq(Operations)
  BY <1>2
<1> QED BY <1>1, <1>2, <1>3, <1>4, Zenon

\* A movement says that the value leaves one account and reaches the other.
LEMMA MovementIs ==
  ASSUME NEW type \in OperationTypes, NEW from \in Accounts, NEW to \in Accounts, NEW value \in Int,
         NEW currency \in Currencies, NEW a, NEW b
  PROVE  /\ Movement(type, from, to, value, currency) \in Seq(Operations)
         /\ Said(Movement(type, from, to, value, currency), a, b)
              = Share(from, -value, Asked(currency), a, b) + Share(to, value, Asked(currency), a, b)
<1>1. PICK op, other : /\ op = Operation(type, from, -value, currency)
                       /\ other = Operation(type, to, value, currency)
  OBVIOUS
<1>2. -value \in Int
  OBVIOUS
<1>3. /\ op \in Operations
      /\ ShareOf(a, b)[op] = Share(from, -value, Asked(currency), a, b)
  <2>1. /\ Operation(type, from, -value, currency) \in Operations
        /\ ShareOf(a, b)[Operation(type, from, -value, currency)]
             = Share(from, -value, Asked(currency), a, b)
    BY <1>2, OperationIs
  <2> QED BY <1>1, <2>1, Zenon
<1>4. /\ other \in Operations
      /\ ShareOf(a, b)[other] = Share(to, value, Asked(currency), a, b)
  <2>1. /\ Operation(type, to, value, currency) \in Operations
        /\ ShareOf(a, b)[Operation(type, to, value, currency)]
             = Share(to, value, Asked(currency), a, b)
    BY OperationIs
  <2> QED BY <1>1, <2>1, Zenon
<1>5. Movement(type, from, to, value, currency) = <<op, other>>
  BY <1>1, Zenon DEF Movement
<1>6. Said(<<op, other>>, a, b) = ShareOf(a, b)[op] + ShareOf(a, b)[other]
  BY <1>3, <1>4, ShareType, SumFew, ZenonT(40) DEF Said
<1>7. <<op, other>> \in Seq(Operations)
  BY <1>3, <1>4
<1> QED BY <1>3, <1>4, <1>5, <1>6, <1>7, Zenon

\* Two sequences of operations say what both say.
LEMMA SaidConcat ==
  ASSUME NEW s \in Seq(Operations), NEW t \in Seq(Operations), NEW a, NEW b
  PROVE  /\ s \o t \in Seq(Operations)
         /\ Said(s \o t, a, b) = Said(s, a, b) + Said(t, a, b)
         /\ Said(s, a, b) \in Int
<1>1. ShareOf(a, b) \in [Operations -> Int]
  BY ShareType
<1>2. s \o t \in Seq(Operations)
  OBVIOUS
<1> QED BY <1>1, <1>2, SumConcat, SumInt DEF Said

\* No operations say nothing.
LEMMA SaidNothing ==
  ASSUME NEW a, NEW b
  PROVE  <<>> \in Seq(Operations) /\ Said(<<>>, a, b) = 0
<1>1. <<>> \in Seq(Operations)
  OBVIOUS
<1> QED BY <1>1, SumEmpty DEF Said

Flow(from, to, value, balance, a, b) ==
  Share(from, -value, balance, a, b) + Share(to, value, balance, a, b)

\* The share that a balance has in a value is an integer ...
LEMMA ShareIsInt ==
  ASSUME NEW account, NEW value \in Int, NEW balance, NEW a, NEW b
  PROVE  Share(account, value, balance, a, b) \in Int
BY DEF Share

\* ... and so is the one it has in a movement.
LEMMA FlowIsInt ==
  ASSUME NEW from, NEW to, NEW value \in Int, NEW balance, NEW a, NEW b
  PROVE  Flow(from, to, value, balance, a, b) \in Int
BY DEF Flow, Share

\* A movement of native value.
LEMMA NativeMovement ==
  ASSUME NEW type \in OperationTypes, NEW from \in Accounts, NEW to \in Accounts, NEW value \in Int,
         NEW a, NEW b
  PROVE  /\ Movement(type, from, to, value, Native) \in Seq(Operations)
         /\ Said(Movement(type, from, to, value, Native), a, b)
              = Flow(from, to, value, NativeBalance, a, b)
<1>1. Native \in Currencies /\ Asked(Native) = NativeBalance
  BY CurrenciesAre, AskedBalanceOfNative
<1> QED BY <1>1, MovementIs DEF Flow

\* An operation on the native currency.
LEMMA NativeOperation ==
  ASSUME NEW type \in OperationTypes, NEW account \in Accounts, NEW value \in Int, NEW a, NEW b
  PROVE  /\ << Operation(type, account, value, Native) >> \in Seq(Operations)
         /\ Said(<< Operation(type, account, value, Native) >>, a, b)
              = Share(account, value, NativeBalance, a, b)
<1>1. Native \in Currencies /\ Asked(Native) = NativeBalance
  BY CurrenciesAre, AskedBalanceOfNative
<1> QED BY <1>1, OneOperation

\* The fields of a transaction.
LEMMA ApiTransactionIs ==
  ASSUME NEW tx \in ApiTransactions
  PROVE  /\ tx.type \in KnownTypes /\ tx.receiver \in Accounts
         /\ tx.value \in Nat /\ tx.fee \in Nat /\ tx.relayer \in Accounts \cup {NoAddress}
         /\ tx.value \in Int /\ tx.fee \in Int /\ tx.dataLength \in Nat
         /\ tx.type # "reward" => tx.sender \in Accounts
         /\ tx.type = "unsigned" => tx.operation = ""
<1>1. /\ tx.type \in KnownTypes /\ tx.receiver \in Accounts
      /\ tx.value \in Nat /\ tx.fee \in Nat /\ tx.relayer \in Accounts \cup {NoAddress}
      /\ tx.dataLength \in Nat
  BY DEF ApiTransactions
<1>2. /\ tx.type # "reward" => tx.sender \in Accounts
      /\ tx.type = "unsigned" => tx.operation = ""
  BY DEF ApiTransactions
<1>3. tx.value \in Int /\ tx.fee \in Int
  BY <1>1
<1> QED BY <1>1, <1>2, <1>3, Zenon

\* A relayed (V1) transaction has an inner one.
LEMMA InnerTransactionIs ==
  ASSUME NEW tx \in ApiTransactions, tx.processing = "RelayedTx"
  PROVE  tx.inner.sender \in Accounts /\ tx.inner.receiver \in Accounts /\ tx.inner.value \in Int
<1>1. /\ tx.inner \in {NoInner} \cup [sender : Accounts, receiver : Accounts, value : Nat]
      /\ tx.inner # NoInner
  BY DEF ApiTransactions
<1> QED BY <1>1

\* The hash of a transaction, that of its original, and its events.
LEMMA IdentityIs ==
  ASSUME NEW tx \in ApiTransactions
  PROVE  /\ tx.hash \in Nat \X {0, 1}
         /\ tx.original \in {<<>>, <<0, 0>>, <<tx.hash[1], 0>>}
         /\ tx.events \in Seq(ReadableEvents(tx.epoch))
BY DEF ApiTransactions

\* The fee payer of a transaction is an account.
LEMMA FeePayerIsAccount ==
  ASSUME NEW tx \in ApiTransactions, tx.type # "reward"
  PROVE  decideFeePayer(tx) \in Accounts
BY ApiTransactionIs DEF decideFeePayer, IsRelayedTxV3

MovesInnerValue(tx) ==
  /\ ~IsReleaseSiriusActive(tx.epoch)
  /\ isRelayedV1Transaction(tx)
  /\ tx.inner.value # 0
  /\ isRelayedV1TransactionCompletelyIntrashardWithSignalError(tx)

\* What normalTxToRosetta says.
LEMMA NormalIs ==
  ASSUME NEW tx \in ApiTransactions, tx.type = "normal", NEW a, NEW b
  PROVE  /\ normalTxToRosetta(tx) \in Seq(Operations)
         /\ Said(normalTxToRosetta(tx), a, b)
              = (IF TransfersValue(tx)
                 THEN Flow(tx.sender, tx.receiver, tx.value, NativeBalance, a, b) ELSE 0)
                + Share(decideFeePayer(tx), -tx.fee, NativeBalance, a, b)
                + (IF MovesInnerValue(tx)
                   THEN Flow(tx.inner.sender, tx.inner.receiver, tx.inner.value,
                             NativeBalance, a, b) ELSE 0)
<1>1. /\ tx.sender \in Accounts /\ tx.receiver \in Accounts /\ tx.value \in Int
      /\ tx.fee \in Int /\ decideFeePayer(tx) \in Accounts
  BY ApiTransactionIs, FeePayerIsAccount
<1>2. MovesInnerValue(tx) =>
        tx.inner.sender \in Accounts /\ tx.inner.receiver \in Accounts /\ tx.inner.value \in Int
  BY InnerTransactionIs DEF MovesInnerValue, isRelayedV1Transaction
<1>3. "Transfer" \in OperationTypes /\ "Fee" \in OperationTypes
  BY DEF OperationTypes
<1>4. PICK first : first = IF TransfersValue(tx)
                           THEN Movement("Transfer", tx.sender, tx.receiver, tx.value, Native)
                           ELSE <<>>
  OBVIOUS
<1>5. PICK fee : fee = << Operation("Fee", decideFeePayer(tx), -tx.fee, Native) >>
  OBVIOUS
<1>6. /\ first \in Seq(Operations)
      /\ Said(first, a, b) = IF TransfersValue(tx)
           THEN Flow(tx.sender, tx.receiver, tx.value, NativeBalance, a, b) ELSE 0
  <2>1. CASE TransfersValue(tx)
    BY <1>1, <1>3, <1>4, <2>1, NativeMovement
  <2>2. CASE ~TransfersValue(tx)
    BY <1>4, <2>2, SaidNothing
  <2> QED BY <2>1, <2>2
<1>7. /\ fee \in Seq(Operations)
      /\ Said(fee, a, b) = Share(decideFeePayer(tx), -tx.fee, NativeBalance, a, b)
  <2>1. -tx.fee \in Int
    BY <1>1
  <2> QED BY <1>1, <1>3, <1>5, <2>1, NativeOperation
<1>8. /\ InnerTxOperations(tx) \in Seq(Operations)
      /\ Said(InnerTxOperations(tx), a, b) = IF MovesInnerValue(tx)
           THEN Flow(tx.inner.sender, tx.inner.receiver, tx.inner.value, NativeBalance, a, b)
           ELSE 0
  <2>1. CASE MovesInnerValue(tx)
    <3>1. InnerTxOperations(tx)
          = Movement("Transfer", tx.inner.sender, tx.inner.receiver, tx.inner.value, Native)
      BY <2>1 DEF InnerTxOperations, MovesInnerValue
    <3> QED BY <1>2, <1>3, <2>1, <3>1, NativeMovement
  <2>2. CASE ~MovesInnerValue(tx)
    <3>1. InnerTxOperations(tx) = <<>>
      BY <2>2 DEF InnerTxOperations, MovesInnerValue
    <3> QED BY <2>2, <3>1, SaidNothing
  <2> QED BY <2>1, <2>2
<1>9. normalTxToRosetta(tx) = (first \o fee) \o InnerTxOperations(tx)
  BY <1>4, <1>5, Zenon DEF normalTxToRosetta
<1>10. /\ first \o fee \in Seq(Operations)
       /\ Said(first \o fee, a, b) = Said(first, a, b) + Said(fee, a, b)
  BY <1>6, <1>7, SaidConcat
<1>11. PICK start, inner : start = first \o fee /\ inner = InnerTxOperations(tx)
  OBVIOUS
<1>12. /\ start \in Seq(Operations) /\ inner \in Seq(Operations)
       /\ Said(start, a, b) = Said(first, a, b) + Said(fee, a, b)
  BY <1>8, <1>10, <1>11, Zenon
<1>13. /\ start \o inner \in Seq(Operations)
       /\ Said(start \o inner, a, b) = Said(start, a, b) + Said(inner, a, b)
  BY <1>12, SaidConcat
<1>14. /\ normalTxToRosetta(tx) \in Seq(Operations)
       /\ Said(normalTxToRosetta(tx), a, b)
          = (Said(first, a, b) + Said(fee, a, b)) + Said(InnerTxOperations(tx), a, b)
  BY <1>9, <1>11, <1>12, <1>13, Zenon
<1> QED BY <1>6, <1>7, <1>8, <1>14, Zenon

\* What rewardTxToRosettaTx says.
LEMMA RewardIs ==
  ASSUME NEW tx \in ApiTransactions, NEW a, NEW b
  PROVE  /\ rewardTxToRosettaTx(tx) \in Seq(Operations)
         /\ Said(rewardTxToRosettaTx(tx), a, b)
              = Share(tx.receiver, tx.value, NativeBalance, a, b)
<1>1. tx.receiver \in Accounts /\ tx.value \in Int
  BY ApiTransactionIs
<1>2. "Reward" \in OperationTypes
  BY DEF OperationTypes
<1> QED BY <1>1, <1>2, NativeOperation DEF rewardTxToRosettaTx

HoldsRewards(scr, block) ==
  /\ ~IsReleaseSpicaActive(scr.epoch)
  /\ doesContractResultHoldRewardsOfClaimDeveloperRewards(scr, block)

\* What unsignedTxToRosettaTx says.
LEMMA UnsignedIs ==
  ASSUME NEW scr \in ApiTransactions, scr.type = "unsigned", NEW block, NEW a, NEW b
  PROVE  /\ unsignedTxToRosettaTx(scr, block) \in Seq(Operations)
         /\ Said(unsignedTxToRosettaTx(scr, block), a, b)
              = IF isSmartContractResultIneffectiveRefund(scr) THEN 0
                ELSE IF scr.isRefund \/ HoldsRewards(scr, block)
                     THEN Share(scr.receiver, scr.value, NativeBalance, a, b)
                     ELSE Flow(scr.sender, scr.receiver, scr.value, NativeBalance, a, b)
<1>1. scr.sender \in Accounts /\ scr.receiver \in Accounts /\ scr.value \in Int
  BY ApiTransactionIs
<1>2. /\ "FeeRefundAsSmartContractResult" \in OperationTypes /\ "SmartContractResult" \in OperationTypes
      /\ "DeveloperRewardsAsSmartContractResult" \in OperationTypes
  BY DEF OperationTypes
<1>3. CASE isSmartContractResultIneffectiveRefund(scr)
  <2>1. scr.isRefund
    BY <1>3 DEF isSmartContractResultIneffectiveRefund
  <2>2. unsignedTxToRosettaTx(scr, block) = <<>>
    BY <1>3, <2>1 DEF unsignedTxToRosettaTx
  <2> QED BY <1>3, <2>2, SaidNothing
<1>4. CASE scr.isRefund /\ ~isSmartContractResultIneffectiveRefund(scr)
  <2>1. unsignedTxToRosettaTx(scr, block)
        = << Operation("FeeRefundAsSmartContractResult", scr.receiver, scr.value, Native) >>
    BY <1>4 DEF unsignedTxToRosettaTx
  <2> QED BY <1>1, <1>2, <1>4, <2>1, NativeOperation
<1>5. CASE ~scr.isRefund /\ HoldsRewards(scr, block)
  <2>0. ~isSmartContractResultIneffectiveRefund(scr)
    BY <1>5 DEF isSmartContractResultIneffectiveRefund
  <2>1. unsignedTxToRosettaTx(scr, block)
        = << Operation("DeveloperRewardsAsSmartContractResult", scr.receiver, scr.value, Native) >>
    BY <1>5, <2>0 DEF unsignedTxToRosettaTx, HoldsRewards
  <2> QED BY <1>1, <1>2, <1>5, <2>0, <2>1, NativeOperation
<1>6. CASE ~scr.isRefund /\ ~HoldsRewards(scr, block)
  <2>0. ~isSmartContractResultIneffectiveRefund(scr)
    BY <1>6 DEF isSmartContractResultIneffectiveRefund
  <2>1. unsignedTxToRosettaTx(scr, block)
        = Movement("SmartContractResult", scr.sender, scr.receiver, scr.value, Native)
    BY <1>6, <2>0 DEF unsignedTxToRosettaTx, HoldsRewards
  <2>2. /\ unsignedTxToRosettaTx(scr, block) \in Seq(Operations)
        /\ Said(unsignedTxToRosettaTx(scr, block), a, b)
             = Flow(scr.sender, scr.receiver, scr.value, NativeBalance, a, b)
    BY <1>1, <1>2, <2>1, NativeMovement
  <2> QED BY <1>6, <2>0, <2>2, Zenon
<1> QED BY <1>3, <1>4, <1>5, <1>6

\* What invalidTxToRosettaTx says: the failed movement counts for nothing.
LEMMA InvalidIs ==
  ASSUME NEW tx \in ApiTransactions, tx.type = "invalid", NEW a, NEW b
  PROVE  /\ invalidTxToRosettaTx(tx) \in Seq(Operations)
         /\ FeeOfInvalidTx(tx) \in Nat
         /\ Said(invalidTxToRosettaTx(tx), a, b)
              = Share(decideFeePayer(tx), -FeeOfInvalidTx(tx), NativeBalance, a, b)
<1>1. /\ tx.sender \in Accounts /\ tx.receiver \in Accounts /\ tx.value \in Int /\ tx.fee \in Nat
      /\ tx.dataLength \in Nat /\ decideFeePayer(tx) \in Accounts
  BY ApiTransactionIs, FeePayerIsAccount
<1>2. "Transfer" \in OperationTypes /\ "FeeOfInvalidTransaction" \in OperationTypes /\ Native \in Currencies
  BY CurrenciesAre DEF OperationTypes
<1>3. FeeOfInvalidTx(tx) \in Nat
  <2>1. /\ networkConfig.GasPrice \in Nat /\ networkConfig.MinGasLimit \in Nat
        /\ networkConfig.GasPerDataByte \in Nat /\ networkConfig.ExtraGasLimitGuardedTx \in Nat
        /\ networkConfig.ExtraGasLimitRelayedTxV3 \in Nat
    BY AmountAssumption
  <2>2. \A m, n \in Nat : m * n \in Nat /\ m + n \in Nat
    OBVIOUS
  <2>3. networkConfig.GasPerDataByte * tx.dataLength \in Nat
    BY <1>1, <2>1, <2>2
  <2>4. PICK gas : gas = networkConfig.MinGasLimit
          + networkConfig.GasPerDataByte * tx.dataLength
          + (IF tx.isGuarded THEN networkConfig.ExtraGasLimitGuardedTx ELSE 0)
          + (IF IsRelayedTxV3(tx) THEN networkConfig.ExtraGasLimitRelayedTxV3 ELSE 0)
    OBVIOUS
  <2>5. gas \in Nat
    BY <2>1, <2>3, <2>4
  <2>6. ComputeTransactionFeeForMoveBalance(tx) = networkConfig.GasPrice * gas
    BY <2>4, Zenon DEF ComputeTransactionFeeForMoveBalance
  <2>7. ComputeTransactionFeeForMoveBalance(tx) \in Nat
    BY <2>1, <2>2, <2>5, <2>6
  <2> QED BY <1>1, <2>7 DEF FeeOfInvalidTx
<1>4. PICK from, to : /\ from = [Operation("Transfer", tx.sender, -tx.value, Native)
                                   EXCEPT !.status = "Failure"]
                      /\ to = [Operation("Transfer", tx.receiver, tx.value, Native)
                                   EXCEPT !.status = "Failure"]
  OBVIOUS
<1>5. /\ from \in Operations /\ to \in Operations
      /\ from.status = "Failure" /\ to.status = "Failure"
  <2>1. -tx.value \in Int
    BY <1>1
  <2>2. \A account \in Accounts : \A value \in Int :
          LET op == [Operation("Transfer", account, value, Native) EXCEPT !.status = "Failure"]
          IN  op \in Operations /\ op.status = "Failure"
    BY <1>2 DEF Operation, Operations
  <2> QED BY <1>1, <1>4, <2>1, <2>2
<1>6. PICK fee : fee = << Operation("FeeOfInvalidTransaction", decideFeePayer(tx),
                                    -FeeOfInvalidTx(tx), Native) >>
  OBVIOUS
<1>7. /\ fee \in Seq(Operations)
      /\ Said(fee, a, b) = Share(decideFeePayer(tx), -FeeOfInvalidTx(tx), NativeBalance, a, b)
  <2>1. -FeeOfInvalidTx(tx) \in Int
    BY <1>3
  <2> QED BY <1>1, <1>2, <1>6, <2>1, NativeOperation
<1>8. <<from, to>> \in Seq(Operations) /\ Said(<<from, to>>, a, b) = 0
  <2>1. ShareOf(a, b)[from] = 0 /\ ShareOf(a, b)[to] = 0
    BY <1>5 DEF ShareOf
  <2>2. Said(<<from, to>>, a, b) = ShareOf(a, b)[from] + ShareOf(a, b)[to]
    <3>1. ShareOf(a, b) \in [Operations -> Int]
      BY ShareType
    <3> QED BY <1>5, <3>1, SumFew, ZenonT(40) DEF Said
  <2> QED BY <1>5, <2>1, <2>2
<1>9. invalidTxToRosettaTx(tx) = <<from, to>> \o fee
  <2>1. PICK failed : failed = Movement("Transfer", tx.sender, tx.receiver, tx.value, Native)
    OBVIOUS
  <2>2. /\ failed[1] = Operation("Transfer", tx.sender, -tx.value, Native)
        /\ failed[2] = Operation("Transfer", tx.receiver, tx.value, Native)
    BY <2>1 DEF Movement
  <2>3. [i \in 1 .. 2 |-> [failed[i] EXCEPT !.status = "Failure"]] = <<from, to>>
    BY <1>4, <2>2
  <2> QED BY <1>6, <2>1, <2>3, Zenon DEF invalidTxToRosettaTx
<1>10. PICK failed : failed = <<from, to>>
  OBVIOUS
<1>101. failed \in Seq(Operations) /\ Said(failed, a, b) = 0
  BY <1>8, <1>10, Zenon
<1>102. /\ failed \o fee \in Seq(Operations)
        /\ Said(failed \o fee, a, b) = Said(failed, a, b) + Said(fee, a, b)
  BY <1>7, <1>101, SaidConcat
<1>11. Said(fee, a, b) \in Int
  BY <1>7, ShareType
<1>12. 0 + Said(fee, a, b) = Said(fee, a, b)
  BY <1>11
<1>13. invalidTxToRosettaTx(tx) = failed \o fee
  BY <1>9, <1>10, Zenon
<1> QED BY <1>3, <1>7, <1>13, <1>101, <1>102, <1>12, Zenon

-----------------------------------------------------------------------------
(* The operations given by events *)

\* A token, as an event tells it.
LEMMA TokenIs ==
  ASSUME NEW token \in Tokens
  PROVE  /\ InEvent(token).identifier = token.identifier
         /\ InEvent(token).value = token.value
         /\ token.value \in Int /\ -token.value \in Int /\ token.value \in Nat
         /\ token.identifier # nativeAsESDTIdentifier
<1>1. token.value \in Nat /\ token.identifier # nativeAsESDTIdentifier
  BY CurrencyAssumption
<1>2. token.value \in Int /\ -token.value \in Int
  BY <1>1
<1>3. InEvent(token).identifier = token.identifier /\ InEvent(token).value = token.value
  BY DEF InEvent
<1> QED BY <1>1, <1>2, <1>3, Zenon

\* The native currency, as an event tells it among tokens.
LEMMA NativeTokenIs ==
  /\ InEvent(NativeToken).identifier = nativeAsESDTIdentifier
  /\ InEvent(NativeToken).value = Amount /\ NativeToken.value = Amount
  /\ Amount \in Int
  /\ BalanceOf(NativeToken) = NativeBalance
<1>1. InEvent(NativeToken).identifier = nativeAsESDTIdentifier
  BY DEF InEvent, NativeToken
<1>2. InEvent(NativeToken).value = Amount /\ NativeToken.value = Amount
  BY DEF InEvent, NativeToken
<1>3. BalanceOf(NativeToken) = NativeBalance
  BY DEF BalanceOf, NativeToken
<1>4. Amount \in Int
  BY AmountAssumption
<1> QED BY <1>1, <1>2, <1>3, <1>4, Zenon

\* The balance of a token is served when the token is enabled.
LEMMA ServedBalancesAre ==
  /\ NativeBalance \in ServedBalances
  /\ \A token \in Tokens :
       BalanceOf(token) \in ServedBalances <=> token.identifier \in customCurrencies
<1>1. NativeBalance \in ServedBalances
  BY DEF ServedBalances
<1>2. ASSUME NEW token \in Tokens, token.identifier \in customCurrencies
      PROVE  BalanceOf(token) \in ServedBalances
  BY <1>2, Zenon DEF ServedBalances
<1>3. ASSUME NEW token \in Tokens, BalanceOf(token) \in ServedBalances
      PROVE  token.identifier \in customCurrencies
  <2>1. /\ BalanceOf(token) = [identifier |-> token.identifier, nonce |-> token.nonce]
        /\ BalanceOf(token) # NativeBalance
    BY AskedBalanceOfToken
  <2>2. PICK other \in Tokens : other.identifier \in customCurrencies
                                /\ BalanceOf(other) = BalanceOf(token)
    BY <1>3, <2>1 DEF ServedBalances
  <2>3. BalanceOf(other) = [identifier |-> other.identifier, nonce |-> other.nonce]
    BY AskedBalanceOfToken
  <2>4. other.identifier = token.identifier
    BY <2>1, <2>2, <2>3
  <2> QED BY <2>2, <2>4
<1> QED BY <1>1, <1>2, <1>3

\* A token that is not enabled is not in the balances that are served.
LEMMA FlowElsewhere ==
  ASSUME NEW from, NEW to, NEW value \in Int, NEW balance, NEW a, NEW b, balance # b
  PROVE  /\ Flow(from, to, value, balance, a, b) = 0
         /\ Share(from, value, balance, a, b) = 0
BY DEF Flow, Share

\* What OperationsOfTransfer says of one token, enabled or not.
LEMMA TransferIs ==
  ASSUME NEW event, event.address \in Accounts, event.receiver \in Accounts,
         NEW token \in Tokens \cup {NativeToken}, NEW a, NEW b \in ServedBalances
  PROVE  /\ OperationsOfTransfer(event, InEvent(token)) \in Seq(Operations)
         /\ Said(OperationsOfTransfer(event, InEvent(token)), a, b)
              = Flow(event.address, event.receiver, token.value, BalanceOf(token), a, b)
<1>1. "Transfer" \in OperationTypes /\ "CustomTransfer" \in OperationTypes
  BY DEF OperationTypes
<1>2. CASE token = NativeToken
  <2>1. OperationsOfTransfer(event, InEvent(token))
        = Movement("Transfer", event.address, event.receiver, Amount, Native)
    BY <1>2, NativeTokenIs, Zenon DEF OperationsOfTransfer
  <2>2. /\ Movement("Transfer", event.address, event.receiver, Amount, Native) \in Seq(Operations)
        /\ Said(Movement("Transfer", event.address, event.receiver, Amount, Native), a, b)
             = Flow(event.address, event.receiver, Amount, NativeBalance, a, b)
    BY <1>1, NativeTokenIs, NativeMovement
  <2> QED BY <1>2, <2>1, <2>2, NativeTokenIs, Zenon
<1>3. CASE token \in Tokens /\ token.identifier \in customCurrencies
  <2>1. PICK currency : currency = ExtendedIdentifier(InEvent(token))
    OBVIOUS
  <2>2. currency \in Currencies /\ Asked(currency) = BalanceOf(token)
    <3>1. token \in EnabledTokens
      BY <1>3 DEF EnabledTokens
    <3>2. ExtendedIdentifier(InEvent(token)) \in Currencies
      BY <3>1, CurrenciesAre
    <3>3. Asked(ExtendedIdentifier(InEvent(token))) = BalanceOf(token)
      BY <1>3, AskedBalanceOfToken
    <3> QED BY <2>1, <3>2, <3>3, Zenon
  <2>3. /\ InEvent(token).identifier = token.identifier
        /\ InEvent(token).value = token.value
        /\ token.value \in Int
        /\ token.identifier # nativeAsESDTIdentifier
    BY <1>3, TokenIs
  <2>4. OperationsOfTransfer(event, InEvent(token))
        = Movement("CustomTransfer", event.address, event.receiver, token.value, currency)
    BY <1>3, <2>1, <2>3, Zenon DEF OperationsOfTransfer
  <2>5. /\ Movement("CustomTransfer", event.address, event.receiver, token.value, currency)
             \in Seq(Operations)
        /\ Said(Movement("CustomTransfer", event.address, event.receiver, token.value, currency),
                a, b)
             = Share(event.address, -token.value, Asked(currency), a, b)
               + Share(event.receiver, token.value, Asked(currency), a, b)
    BY <1>1, <2>2, <2>3, MovementIs
  <2> QED BY <2>2, <2>4, <2>5, Zenon DEF Flow
<1>4. CASE token \in Tokens /\ token.identifier \notin customCurrencies
  <2>3. /\ InEvent(token).identifier = token.identifier
        /\ token.value \in Int
        /\ token.identifier # nativeAsESDTIdentifier
    BY <1>4, TokenIs
  <2>4. OperationsOfTransfer(event, InEvent(token)) = <<>>
    BY <1>4, <2>3, Zenon DEF OperationsOfTransfer
  <2>5. BalanceOf(token) # b
    BY <1>4, ServedBalancesAre
  <2>6. Flow(event.address, event.receiver, token.value, BalanceOf(token), a, b) = 0
    BY <2>3, <2>5, FlowElsewhere
  <2> QED BY <2>4, <2>6, SaidNothing
<1> QED BY <1>2, <1>3, <1>4

\* What OperationsOfSupply says of one token, enabled or not.
LEMMA SupplyIs ==
  ASSUME NEW account \in Accounts, NEW token \in Tokens, NEW sign \in {-1, 1},
         NEW a, NEW b \in ServedBalances
  PROVE  /\ OperationsOfSupply(account, InEvent(token), sign) \in Seq(Operations)
         /\ Said(OperationsOfSupply(account, InEvent(token), sign), a, b)
              = Share(account, sign * token.value, BalanceOf(token), a, b)
         /\ sign * token.value \in Int
<1>1. "CustomTransfer" \in OperationTypes
  BY DEF OperationTypes
<1>2. /\ InEvent(token).identifier = token.identifier
      /\ InEvent(token).value = token.value
      /\ token.value \in Int
  BY TokenIs
<1>3. sign * token.value \in Int
  BY <1>2
<1>4. PICK value : value = sign * token.value
  OBVIOUS
<1>5. value \in Int
  BY <1>3, <1>4
<1>6. CASE token.identifier \in customCurrencies
  <2>1. PICK currency : currency = ExtendedIdentifier(InEvent(token))
    OBVIOUS
  <2>2. currency \in Currencies /\ Asked(currency) = BalanceOf(token)
    <3>1. token \in EnabledTokens
      BY <1>6 DEF EnabledTokens
    <3>2. ExtendedIdentifier(InEvent(token)) \in Currencies
      BY <3>1, CurrenciesAre
    <3>3. Asked(ExtendedIdentifier(InEvent(token))) = BalanceOf(token)
      BY AskedBalanceOfToken
    <3> QED BY <2>1, <3>2, <3>3, Zenon
  <2>3. OperationsOfSupply(account, InEvent(token), sign)
        = << Operation("CustomTransfer", account, value, currency) >>
    BY <1>2, <1>4, <1>6, <2>1, Zenon DEF OperationsOfSupply
  <2>4. /\ << Operation("CustomTransfer", account, value, currency) >> \in Seq(Operations)
        /\ Said(<< Operation("CustomTransfer", account, value, currency) >>, a, b)
             = Share(account, value, Asked(currency), a, b)
    BY <1>1, <1>5, <2>2, OneOperation
  <2> QED BY <1>3, <1>4, <2>2, <2>3, <2>4, Zenon
<1>7. CASE token.identifier \notin customCurrencies
  <2>1. OperationsOfSupply(account, InEvent(token), sign) = <<>>
    BY <1>2, <1>7, Zenon DEF OperationsOfSupply
  <2>2. BalanceOf(token) # b
    BY <1>7, ServedBalancesAre
  <2>3. Share(account, value, BalanceOf(token), a, b) = 0
    BY <2>2 DEF Share
  <2> QED BY <1>3, <1>4, <2>1, <2>3, SaidNothing, Zenon
<1> QED BY <1>6, <1>7

OrdinaryEvents(ep) == {event \in ReadableEvents(ep) : event.identifier # "signalError"}

\* The fields of an event that can be read.
LEMMA EventIs ==
  ASSUME NEW ep, NEW event \in ReadableEvents(ep)
  PROVE  /\ event.identifier \in Identifiers /\ event.address \in Accounts /\ event.value \in Int
         /\ event.identifier \in TransferEvents \cup {"transferValueOnly", "ClaimDeveloperRewards"}
              => event.receiver \in Accounts
         /\ HasRightTopics(event)
            \/ (event.identifier = "transferValueOnly" /\ ~IsReleaseSiriusActive(ep))
<1>1. event.identifier \in Identifiers /\ event.address \in Accounts /\ event.value \in Int
  BY DEF ReadableEvents, ApiEvents
<1>2. IsReadable(event, ep)
  BY DEF ReadableEvents
<1> QED BY <1>1, <1>2, Zenon DEF IsReadable

\* The tokens that such an event tells.
LEMMA EventTokensAre ==
  ASSUME NEW ep, NEW event \in ReadableEvents(ep)
  PROVE  /\ event.tokens \in Seq({InEvent(token) : token \in Tokens \cup {NativeToken}})
         /\ event.identifier \in BurnEvents \cup MintEvents =>
              /\ SupplyAccount(event) \in Accounts
              /\ \E token \in Tokens : event.tokens[1] = InEvent(token)
<1>1. event.tokens \in Seq({InEvent(token) : token \in Tokens \cup {NativeToken}})
  BY Zenon DEF ReadableEvents, ApiEvents
<1>2. IsReadable(event, ep)
  BY DEF ReadableEvents
<1> QED BY <1>1, <1>2, Zenon DEF IsReadable

\* The operations of several transfers.
LEMMA TransfersAre ==
  ASSUME NEW ep, NEW event \in ReadableEvents(ep), event.receiver \in Accounts
  PROVE  [i \in DOMAIN event.tokens |-> OperationsOfTransfer(event, event.tokens[i])]
           \in Seq(Seq(Operations))
<1>1. PICK SS : SS = Seq(Operations)
  OBVIOUS
<1>2. PICK TT : TT = {InEvent(token) : token \in Tokens \cup {NativeToken}}
  OBVIOUS
<1>3. event.tokens \in Seq(TT) /\ event.address \in Accounts
  BY <1>2, EventTokensAre, EventIs
<1>4. \A t \in TT : OperationsOfTransfer(event, t) \in SS
  <2>1. NativeBalance \in ServedBalances
    BY ServedBalancesAre
  <2>2. \A token \in Tokens \cup {NativeToken} :
          OperationsOfTransfer(event, InEvent(token)) \in Seq(Operations)
    BY <1>3, <2>1, TransferIs
  <2> QED BY <1>1, <1>2, <2>2, Zenon
<1>5. [i \in DOMAIN event.tokens |-> OperationsOfTransfer(event, event.tokens[i])] \in Seq(SS)
  BY <1>3, <1>4
<1> QED BY <1>1, <1>5, Zenon

\* What one event is turned into are operations.
LEMMA OperationsOfEventAre ==
  ASSUME NEW tx \in ApiTransactions, NEW event \in OrdinaryEvents(tx.epoch)
  PROVE  OperationsOfEvent(tx, event) \in Seq(Operations)
<1>1. event \in ReadableEvents(tx.epoch) /\ event.identifier # "signalError"
  BY DEF OrdinaryEvents
<1>2. /\ event.identifier \in Identifiers /\ event.address \in Accounts /\ event.value \in Int
      /\ event.identifier \in TransferEvents \cup {"transferValueOnly", "ClaimDeveloperRewards"}
           => event.receiver \in Accounts
  BY <1>1, EventIs
<1>3. tx.receiver \in Accounts /\ tx.value \in Int
  BY ApiTransactionIs
<1>4. "Transfer" \in OperationTypes /\ "DeveloperRewards" \in OperationTypes
  BY DEF OperationTypes
<1>5. <<>> \in Seq(Operations)
  OBVIOUS
<1>6. CASE event.identifier = "SCDeploy"
  <2>1. Movement("Transfer", tx.receiver, event.address, tx.value, Native) \in Seq(Operations)
    BY <1>2, <1>3, <1>4, NativeMovement
  <2>2. OperationsOfEvent(tx, event) = IF tx.receiver = systemContractDeployAddress
          THEN Movement("Transfer", tx.receiver, event.address, tx.value, Native) ELSE <<>>
    BY <1>6 DEF OperationsOfEvent, TransferEvents, BurnEvents, MintEvents
  <2> QED BY <1>5, <2>1, <2>2, Zenon
<1>7. CASE event.identifier = "transferValueOnly"
  <2>1. Movement("Transfer", event.address, event.receiver, event.value, Native)
          \in Seq(Operations)
    BY <1>2, <1>4, <1>7, NativeMovement
  <2>2. OperationsOfEvent(tx, event)
        = IF IsReleaseSiriusActive(tx.epoch) /\ IsEffectiveTransferValueOnly(event)
          THEN Movement("Transfer", event.address, event.receiver, event.value, Native) ELSE <<>>
    BY <1>7 DEF OperationsOfEvent, TransferEvents, BurnEvents, MintEvents
  <2> QED BY <1>5, <2>1, <2>2, Zenon
<1>8. CASE event.identifier \in TransferEvents
  <2>1. OperationsOfEvent(tx, event)
        = FlattenSeq([i \in DOMAIN event.tokens |-> OperationsOfTransfer(event, event.tokens[i])])
    BY <1>8 DEF OperationsOfEvent, TransferEvents, BurnEvents, MintEvents
  <2>2. PICK seqs :
          seqs = [i \in DOMAIN event.tokens |-> OperationsOfTransfer(event, event.tokens[i])]
    OBVIOUS
  <2>3. seqs \in Seq(Seq(Operations))
    BY <1>1, <1>2, <1>8, <2>2, TransfersAre
  <2>4. FlattenSeq(seqs) \in Seq(Operations)
    BY <1>5, <2>3, FlattenAppend
  <2> QED BY <2>1, <2>2, <2>4, Zenon
<1>9. CASE event.identifier \in BurnEvents \cup MintEvents
  <2>1. PICK token \in Tokens : event.tokens[1] = InEvent(token)
    BY <1>1, <1>9, EventTokensAre
  <2>2. SupplyAccount(event) \in Accounts
    BY <1>1, <1>9, EventTokensAre
  <2>3. NativeBalance \in ServedBalances
    BY ServedBalancesAre
  <2>4. /\ OperationsOfSupply(SupplyAccount(event), InEvent(token), -1) \in Seq(Operations)
        /\ OperationsOfSupply(SupplyAccount(event), InEvent(token), 1) \in Seq(Operations)
    <3>1. -1 \in {-1, 1} /\ 1 \in {-1, 1}
      OBVIOUS
    <3> QED BY <2>2, <2>3, <3>1, SupplyIs
  <2>5. OperationsOfEvent(tx, event)
        \in {OperationsOfSupply(SupplyAccount(event), event.tokens[1], -1),
             OperationsOfSupply(SupplyAccount(event), event.tokens[1], 1)}
    BY <1>9 DEF OperationsOfEvent, TransferEvents, BurnEvents, MintEvents
  <2> QED BY <2>1, <2>4, <2>5, Zenon
<1>10. CASE event.identifier = "ClaimDeveloperRewards"
  <2>1. << Operation("DeveloperRewards", event.receiver, event.value, Native) >>
          \in Seq(Operations)
    BY <1>2, <1>4, <1>10, NativeOperation
  <2>2. OperationsOfEvent(tx, event) = IF IsReleaseSpicaActive(tx.epoch)
          THEN << Operation("DeveloperRewards", event.receiver, event.value, Native) >> ELSE <<>>
    BY <1>10 DEF OperationsOfEvent, TransferEvents, BurnEvents, MintEvents
  <2> QED BY <1>5, <2>1, <2>2, Zenon
<1> QED BY <1>1, <1>2, <1>6, <1>7, <1>8, <1>9, <1>10, Zenon DEF Identifiers

\* Of the events of a transaction, those of one kind.
LEMMA EventsOfOneKind ==
  ASSUME NEW S, NEW tx, tx.events \in Seq(S), NEW identifier
  PROVE  findManyEventsByIdentifier(tx, identifier)
           \in Seq({event \in S : event.identifier = identifier})
<1> DEFINE K == {event \in S : event.identifier = identifier}
           SS == Seq(K)
           One(event) == IF event.identifier = identifier THEN <<event>> ELSE <<>>
           seqs == [i \in DOMAIN tx.events |-> One(tx.events[i])]
<1>1. findManyEventsByIdentifier(tx, identifier) = FlattenSeq(seqs)
  BY Zenon DEF findManyEventsByIdentifier, Select
<1>2. \A event \in S : One(event) \in SS
  OBVIOUS
<1>3. seqs \in Seq(SS)
  <2> HIDE DEF SS, One
  <2> QED BY <1>2
<1>4. FlattenSeq(seqs) \in Seq(K)
  <2>1. <<>> \in Seq(K)
    OBVIOUS
  <2> HIDE DEF K, seqs
  <2> QED BY <1>3, <2>1, FlattenAppend
<1> QED BY <1>1, <1>4, Zenon

\* Without events, there are none of a kind.
LEMMA NoEventOfOneKind ==
  ASSUME NEW tx, tx.events = <<>>, NEW identifier
  PROVE  findManyEventsByIdentifier(tx, identifier) = <<>>
<1> DEFINE One(e) == IF e.identifier = identifier THEN <<e>> ELSE <<>>
           seqs == [i \in DOMAIN tx.events |-> One(tx.events[i])]
<1>1. findManyEventsByIdentifier(tx, identifier) = FlattenSeq(seqs)
  BY Zenon DEF findManyEventsByIdentifier, Select
<1>2. seqs = <<>>
  <2> HIDE DEF One
  <2> QED OBVIOUS
<1>3. FlattenSeq(<<>>) = <<>>
  BY DEF FlattenSeq
<1> QED BY <1>1, <1>2, <1>3, Zenon

\* Of one event, there is one of its kind and none of another.
LEMMA OneEventOfOneKind ==
  ASSUME NEW tx, NEW event, tx.events = <<event>>, NEW identifier
  PROVE  findManyEventsByIdentifier(tx, identifier)
           = IF event.identifier = identifier THEN <<event>> ELSE <<>>
<1> DEFINE One(e) == IF e.identifier = identifier THEN <<e>> ELSE <<>>
           seqs == [i \in DOMAIN tx.events |-> One(tx.events[i])]
<1>1. findManyEventsByIdentifier(tx, identifier) = FlattenSeq(seqs)
  BY Zenon DEF findManyEventsByIdentifier, Select
<1>2. One(event) \in Seq({event})
  <2>1. PICK S : S = {event}
    OBVIOUS
  <2>2. <<event>> \in Seq(S) /\ <<>> \in Seq(S)
    BY <2>1
  <2>3. One(event) \in Seq(S)
    BY <2>2
  <2> QED BY <2>1, <2>3, Zenon
<1>3. seqs = <<One(event)>>
  <2> HIDE DEF One
  <2> QED OBVIOUS
<1>4. FlattenSeq(<<One(event)>>) = One(event)
  <2> HIDE DEF One
  <2> QED BY <1>2, FlattenFew
<1> QED BY <1>1, <1>3, <1>4, Zenon

\* One event is an error when it is a signalError.
LEMMA SignalErrorIs ==
  ASSUME NEW tx, NEW event, tx.events = <<event>>
  PROVE  hasAnySignalError(tx) <=> event.identifier = "signalError"
<1>1. findManyEventsByIdentifier(tx, "signalError")
        = IF event.identifier = "signalError" THEN <<event>> ELSE <<>>
  BY OneEventOfOneKind
<1>2. <<event>> # <<>>
  OBVIOUS
<1> QED BY <1>1, <1>2, Zenon DEF hasAnySignalError

\* Without events, there is no error.
LEMMA NoSignalError ==
  ASSUME NEW tx, tx.events = <<>>
  PROVE  ~hasAnySignalError(tx)
BY NoEventOfOneKind DEF hasAnySignalError

\* Every identifier but signalError has one place in the order of events.
LEMMA EventOrderIs ==
  /\ DOMAIN EventOrder = 1 .. 12
  /\ \A k \in 1 .. 12 : EventOrder[k] # "signalError"
  /\ \A j, k \in 1 .. 12 : EventOrder[j] = EventOrder[k] => j = k
  /\ \A identifier \in Identifiers \ {"signalError"} : \E k \in 1 .. 12 : EventOrder[k] = identifier
<1>1. DOMAIN EventOrder = 1 .. 12
  BY DEF EventOrder
<1>2. \A k \in 1 .. 12 : EventOrder[k] \in Identifiers /\ EventOrder[k] # "signalError"
  BY DEF EventOrder, Identifiers, TransferEvents, BurnEvents, MintEvents
<1>3. \A j, k \in 1 .. 12 : EventOrder[j] = EventOrder[k] => j = k
  BY DEF EventOrder
<1>4. \A identifier \in Identifiers \ {"signalError"} : \E k \in 1 .. 12 : EventOrder[k] = identifier
  <2>1. /\ EventOrder[1] = "SCDeploy" /\ EventOrder[2] = "transferValueOnly"
        /\ EventOrder[3] = "ESDTTransfer" /\ EventOrder[4] = "ESDTNFTTransfer"
        /\ EventOrder[5] = "MultiESDTNFTTransfer" /\ EventOrder[6] = "ESDTLocalBurn"
        /\ EventOrder[7] = "ESDTLocalMint" /\ EventOrder[8] = "ESDTWipe"
        /\ EventOrder[9] = "ESDTNFTCreate" /\ EventOrder[10] = "ESDTNFTBurn"
        /\ EventOrder[11] = "ESDTNFTAddQuantity" /\ EventOrder[12] = "ClaimDeveloperRewards"
    BY DEF EventOrder
  <2> QED BY <2>1 DEF Identifiers, TransferEvents, BurnEvents, MintEvents
<1> QED BY <1>1, <1>2, <1>3, <1>4

\* The events of a transaction that give operations, in the order in which they are handled.
Ordered(tx) ==
  FlattenSeq([k \in DOMAIN EventOrder |-> findManyEventsByIdentifier(tx, EventOrder[k])])

\* The events, ordered by their identifiers, are among the events.
LEMMA OrderedIs ==
  ASSUME NEW ep, NEW tx, tx.events \in Seq(ReadableEvents(ep))
  PROVE  Ordered(tx) \in Seq(OrdinaryEvents(ep))
<1> DEFINE SS == Seq(OrdinaryEvents(ep))
           seqs == [k \in DOMAIN EventOrder |-> findManyEventsByIdentifier(tx, EventOrder[k])]
<1>1. ASSUME NEW k \in 1 .. 12
      PROVE  findManyEventsByIdentifier(tx, EventOrder[k]) \in SS
  <2>1. PICK identifier : identifier = EventOrder[k]
    OBVIOUS
  <2>2. identifier # "signalError"
    BY <2>1, EventOrderIs
  <2>3. PICK K : K = {event \in ReadableEvents(ep) : event.identifier = identifier}
    OBVIOUS
  <2>4. findManyEventsByIdentifier(tx, identifier) \in Seq(K)
    BY <2>3, EventsOfOneKind
  <2>5. K \subseteq OrdinaryEvents(ep)
    BY <2>2, <2>3 DEF OrdinaryEvents
  <2>6. findManyEventsByIdentifier(tx, identifier) \in Seq(OrdinaryEvents(ep))
    BY <2>4, <2>5
  <2> QED BY <2>1, <2>6, Zenon
<1>2. DOMAIN EventOrder = 1 .. 12
  BY EventOrderIs
<1>3. seqs \in Seq(SS)
  <2> HIDE DEF SS
  <2> QED BY <1>1, <1>2
<1>4. FlattenSeq(seqs) \in Seq(OrdinaryEvents(ep))
  <2>1. <<>> \in Seq(OrdinaryEvents(ep))
    OBVIOUS
  <2> HIDE DEF seqs
  <2> QED BY <1>3, <2>1, FlattenAppend
<1> QED BY <1>4 DEF Ordered

\* One event that is not an error is handled, and nothing else.
LEMMA OrderedOne ==
  ASSUME NEW ep, NEW tx, NEW event \in OrdinaryEvents(ep), tx.events = <<event>>
  PROVE  Ordered(tx) = <<event>>
<1> DEFINE T == {event}
           seqs == [k \in DOMAIN EventOrder |-> findManyEventsByIdentifier(tx, EventOrder[k])]
<1>1. event.identifier \in Identifiers \ {"signalError"}
  BY EventIs DEF OrdinaryEvents
<1>2. PICK m \in 1 .. 12 : EventOrder[m] = event.identifier
  BY <1>1, EventOrderIs
<1>3. DOMAIN EventOrder = 1 .. 12
  BY EventOrderIs
<1>4. \A k \in 1 .. 12 : seqs[k] = IF k = m THEN <<event>> ELSE <<>>
  <2> TAKE k \in 1 .. 12
  <2>1. seqs[k] = findManyEventsByIdentifier(tx, EventOrder[k])
    BY <1>3
  <2>2. findManyEventsByIdentifier(tx, EventOrder[k])
        = IF event.identifier = EventOrder[k] THEN <<event>> ELSE <<>>
    BY OneEventOfOneKind
  <2>3. event.identifier = EventOrder[k] <=> k = m
    BY <1>2, EventOrderIs
  <2> HIDE DEF seqs
  <2> QED BY <2>1, <2>2, <2>3
<1>5. /\ DOMAIN seqs = 1 .. 12 /\ seqs[m] = <<event>>
      /\ \A k \in DOMAIN seqs : k # m => seqs[k] = <<>>
  <2>1. DOMAIN seqs = 1 .. 12
    BY <1>3
  <2> HIDE DEF seqs
  <2> QED BY <1>4, <2>1
<1>6. seqs \in Seq(Seq(T))
  <2>1. PICK SS : SS = Seq(T)
    OBVIOUS
  <2>2. <<event>> \in SS /\ <<>> \in SS
    BY <2>1
  <2>3. \A k \in 1 .. 12 : seqs[k] \in SS
    <3> HIDE DEF seqs
    <3> QED BY <1>4, <2>2
  <2>4. seqs = [k \in 1 .. 12 |-> seqs[k]]
    BY <1>3
  <2>5. seqs \in Seq(SS)
    <3> HIDE DEF seqs
    <3> QED BY <2>3, <2>4
  <2> QED BY <2>1, <2>5, Zenon
<1>7. FlattenSeq(seqs) = seqs[m]
  <2> HIDE DEF seqs, T
  <2> QED BY <1>5, <1>6, FlattenOneOf
<1> QED BY <1>5, <1>7, Zenon DEF Ordered

\* No events, in order.
LEMMA OrderedNone ==
  ASSUME NEW tx, tx.events = <<>>
  PROVE  Ordered(tx) = <<>>
<1> DEFINE seqs == [k \in DOMAIN EventOrder |-> findManyEventsByIdentifier(tx, EventOrder[k])]
<1>1. DOMAIN EventOrder = 1 .. 12
  BY EventOrderIs
<1>2. \A k \in 1 .. 12 : findManyEventsByIdentifier(tx, EventOrder[k]) = <<>>
  BY NoEventOfOneKind
<1>3. /\ DOMAIN seqs = 1 .. 12 /\ 1 \in DOMAIN seqs
      /\ \A k \in DOMAIN seqs : seqs[k] = <<>>
  BY <1>1, <1>2
<1>4. seqs \in Seq(Seq({}))
  <2>1. PICK SS : SS = Seq({})
    OBVIOUS
  <2>2. <<>> \in SS
    BY <2>1
  <2>3. seqs \in Seq(SS)
    BY <1>1, <1>2, <2>2
  <2> QED BY <2>1, <2>3, Zenon
<1>5. FlattenSeq(seqs) = seqs[1]
  <2> HIDE DEF seqs
  <2> QED BY <1>3, <1>4, FlattenOneOf
<1> QED BY <1>3, <1>5, Zenon DEF Ordered

\* What the events of a transaction are turned into are operations.
LEMMA EventOperationsAre ==
  ASSUME NEW tx \in ApiTransactions
  PROVE  EventOperations(tx) \in Seq(Operations)
<1>1. <<>> \in Seq(Operations)
  OBVIOUS
<1> DEFINE SS == Seq(Operations)
           seqs == [i \in DOMAIN Ordered(tx) |-> OperationsOfEvent(tx, Ordered(tx)[i])]
<1>2. EventOperations(tx) = IF hasAnySignalError(tx) THEN <<>> ELSE FlattenSeq(seqs)
  BY Zenon DEF EventOperations, Ordered
<1>3. Ordered(tx) \in Seq(OrdinaryEvents(tx.epoch))
  BY IdentityIs, OrderedIs
<1>4. \A event \in OrdinaryEvents(tx.epoch) : OperationsOfEvent(tx, event) \in SS
  BY OperationsOfEventAre
<1>5. seqs \in Seq(SS)
  <2> HIDE DEF SS
  <2> QED BY <1>3, <1>4
<1>6. FlattenSeq(seqs) \in Seq(Operations)
  <2> HIDE DEF seqs
  <2> QED BY <1>1, <1>5, FlattenAppend
<1> QED BY <1>1, <1>2, <1>6, Zenon

\* The operations of a transaction with no event, an error, one other event.
LEMMA OperationsOfOneEvent ==
  ASSUME NEW tx \in ApiTransactions
  PROVE  /\ tx.events = <<>> => EventOperations(tx) = <<>>
         /\ hasAnySignalError(tx) => EventOperations(tx) = <<>>
         /\ \A event \in OrdinaryEvents(tx.epoch) :
              tx.events = <<event>> => EventOperations(tx) = OperationsOfEvent(tx, event)
<1> DEFINE seqs == [i \in DOMAIN Ordered(tx) |-> OperationsOfEvent(tx, Ordered(tx)[i])]
<1>1. EventOperations(tx) = IF hasAnySignalError(tx) THEN <<>> ELSE FlattenSeq(seqs)
  BY Zenon DEF EventOperations, Ordered
<1>2. ASSUME tx.events = <<>> PROVE FlattenSeq(seqs) = <<>>
  <2>1. Ordered(tx) = <<>>
    BY <1>2, OrderedNone
  <2>2. seqs = <<>>
    BY <2>1
  <2>3. FlattenSeq(<<>>) = <<>>
    BY DEF FlattenSeq
  <2> QED BY <2>2, <2>3, Zenon
<1>3. ASSUME NEW event \in OrdinaryEvents(tx.epoch), tx.events = <<event>>
      PROVE  EventOperations(tx) = OperationsOfEvent(tx, event)
  <2>1. Ordered(tx) = <<event>>
    BY <1>3, OrderedOne
  <2>2. seqs = <<OperationsOfEvent(tx, event)>>
    BY <2>1
  <2>3. OperationsOfEvent(tx, event) \in Seq(Operations)
    BY OperationsOfEventAre
  <2>4. FlattenSeq(<<OperationsOfEvent(tx, event)>>) = OperationsOfEvent(tx, event)
    BY <2>3, FlattenFew
  <2>5. ~hasAnySignalError(tx)
    <3>1. event.identifier # "signalError"
      BY DEF OrdinaryEvents
    <3> QED BY <1>3, <3>1, SignalErrorIs
  <2> QED BY <1>1, <2>2, <2>4, <2>5, Zenon
<1> QED BY <1>1, <1>2, <1>3, Zenon

-----------------------------------------------------------------------------
(* The transactions of a block that are kept *)

\* Positions and elements of a sequence.
LEMMA ElementsOf ==
  ASSUME NEW S, NEW s \in Seq(S)
  PROVE  DOMAIN s = 1 .. Len(s) /\ Len(s) \in Nat /\ \A i \in DOMAIN s : s[i] \in S
OBVIOUS

Mapped(f, s) == [i \in DOMAIN s |-> f[s[i]]]

\* A function, applied to each element.
LEMMA MappedIs ==
  ASSUME NEW S, NEW T, NEW f \in [S -> T], NEW s \in Seq(S)
  PROVE  /\ Mapped(f, s) \in Seq(T)
         /\ DOMAIN Mapped(f, s) = DOMAIN s
         /\ Len(Mapped(f, s)) = Len(s)
         /\ \A i \in DOMAIN s : Mapped(f, s)[i] = f[s[i]]
BY DEF Mapped

Composed(S, f, weight) == [x \in S |-> weight[f[x]]]

\* The sum over mapped elements is a sum over the elements.
LEMMA SumMap ==
  ASSUME NEW S, NEW f, NEW w, NEW s \in Seq(S)
  PROVE  SumOf(Mapped(f, s), w) = SumOf(s, Composed(S, f, w))
<1> DEFINE m == [i \in DOMAIN s |-> f[s[i]]]
           v == [x \in S |-> w[f[x]]]
<1>1. \A i \in DOMAIN s : s[i] \in S
  BY ElementsOf
<1>2. [i \in DOMAIN m |-> w[m[i]]] = [i \in DOMAIN s |-> v[s[i]]]
  BY <1>1
<1> QED BY <1>2, Zenon DEF SumOf, Composed, Mapped

\* Equal weights make equal sums.
LEMMA SumSame ==
  ASSUME NEW S, NEW s \in Seq(S), NEW w, NEW v, \A x \in Range(s) : w[x] = v[x]
  PROVE  SumOf(s, w) = SumOf(s, v)
<1>1. \A i \in DOMAIN s : s[i] \in Range(s)
  BY DEF Range
<1>2. [i \in DOMAIN s |-> w[s[i]]] = [i \in DOMAIN s |-> v[s[i]]]
  BY <1>1
<1> QED BY <1>2, Zenon DEF SumOf

\* Two filters, one after the other, are one.
LEMMA ChosenTwice ==
  ASSUME NEW S, NEW p \in [S -> BOOLEAN], NEW q \in [S -> BOOLEAN], NEW r \in [S -> BOOLEAN],
         \A x \in S : r[x] <=> p[x] /\ q[x],
         NEW s \in Seq(S)
  PROVE  Chosen(Chosen(s, p), q) = Chosen(s, r)
<1> DEFINE T == {t \in Seq(S) : Chosen(Chosen(t, p), q) = Chosen(t, r)}
<1>1. <<>> \in T
  <2>1. Chosen(<<>>, p) = <<>> /\ Chosen(<<>>, q) = <<>> /\ Chosen(<<>>, r) = <<>>
    BY DEF Chosen, FlattenSeq
  <2>2. <<>> \in Seq(S)
    OBVIOUS
  <2> QED BY <2>1, <2>2
<1>2. ASSUME NEW t \in Seq(S), NEW x \in S, t \in T
      PROVE  Append(t, x) \in T
  <2>1. Append(t, x) \in Seq(S)
    OBVIOUS
  <2>2. /\ Chosen(t, p) \in Seq(S)
        /\ Chosen(Append(t, x), p) = IF p[x] THEN Append(Chosen(t, p), x) ELSE Chosen(t, p)
    BY ChosenAppend
  <2>3. Chosen(Append(t, x), r) = IF r[x] THEN Append(Chosen(t, r), x) ELSE Chosen(t, r)
    BY ChosenAppend
  <2>4. Chosen(Append(Chosen(t, p), x), q)
        = IF q[x] THEN Append(Chosen(Chosen(t, p), q), x) ELSE Chosen(Chosen(t, p), q)
    BY <2>2, ChosenAppend
  <2>5. r[x] <=> p[x] /\ q[x]
    OBVIOUS
  <2>6. Chosen(Chosen(t, p), q) = Chosen(t, r)
    BY <1>2
  <2>7. Chosen(Chosen(Append(t, x), p), q) = Chosen(Append(t, x), r)
    BY <2>2, <2>3, <2>4, <2>5, <2>6, Zenon
  <2> QED BY <2>1, <2>7
<1>3. \A t \in Seq(S) : t \in T
  <2>1. \A t \in Seq(S) : \A x \in S : t \in T => Append(t, x) \in T
    BY <1>2
  <2> HIDE DEF T
  <2> QED BY <1>1, <2>1, SeqInduction
<1> QED BY <1>3

Keeps(invalid) ==
  [ tx \in ApiTransactions |->
      /\ ~(tx.type = "unsigned" /\ tx.original \in invalid)
      /\ ~(isRelayedV1Transaction(tx) /\ tx.hash \in invalid) ]
Kept(block) ==
  filterOutIntrashardRelayedTransactionAlreadyHeldInInvalidMiniblock(
    filterOutIntrashardContractResultsWhoseOriginalTransactionIsInInvalidMiniblock(block))

\* The hashes of the invalid transactions of a block.
LEMMA InvalidHashes ==
  ASSUME NEW block
  PROVE  HashesOfInvalid(block) = {tx.hash : tx \in {t \in Range(block) : t.type = "invalid"}}
BY DEF HashesOfInvalid, Range

\* Both filters on transactions, as one choice.
LEMMA KeptIs ==
  ASSUME NEW block \in Seq(ApiTransactions)
  PROVE  Kept(block) = Chosen(block, Keeps(HashesOfInvalid(block)))
<1> DEFINE p == [tx \in ApiTransactions |->
                   ~(tx.type = "unsigned" /\ tx.original \in HashesOfInvalid(block))]
           q == [tx \in ApiTransactions |->
                   ~(isRelayedV1Transaction(tx) /\ tx.hash \in HashesOfInvalid(block))]
           results == filterOutIntrashardContractResultsWhoseOriginalTransactionIsInInvalidMiniblock(block)
<1>1. p \in [ApiTransactions -> BOOLEAN] /\ q \in [ApiTransactions -> BOOLEAN]
  OBVIOUS
<1>2. results = Chosen(block, p)
  <2> DEFINE One(tx) == IF ~(tx.type = "unsigned" /\ tx.original \in HashesOfInvalid(block))
                        THEN <<tx>> ELSE <<>>
             Other(tx) == IF p[tx] THEN <<tx>> ELSE <<>>
  <2>1. \A tx \in ApiTransactions : One(tx) = Other(tx)
    OBVIOUS
  <2>2. [i \in DOMAIN block |-> One(block[i])] = [i \in DOMAIN block |-> Other(block[i])]
    <3> HIDE DEF One, Other
    <3> QED BY <2>1, ElementsOf
  <2> QED BY <2>2, Zenon DEF Select, Chosen,
             filterOutIntrashardContractResultsWhoseOriginalTransactionIsInInvalidMiniblock
<1>3. /\ results \in Seq(ApiTransactions)
      /\ Range(results) = {tx \in Range(block) : p[tx]}
  <2> HIDE DEF p, results
  <2> QED BY <1>1, <1>2, ChosenRange
<1>4. HashesOfInvalid(results) = HashesOfInvalid(block)
  <2>1. \A tx \in Range(block) : tx \in ApiTransactions /\ (tx.type = "invalid" => p[tx])
    <3>1. \A tx \in Range(block) : tx \in ApiTransactions
      BY ElementsOf DEF Range
    <3>2. \A tx \in ApiTransactions : tx.type = "invalid" => p[tx]
      OBVIOUS
    <3> QED BY <3>1, <3>2
  <2> HIDE DEF p, results
  <2> QED BY <1>3, <2>1, InvalidHashes
<1>5. Kept(block) = Chosen(results, q)
  <2> DEFINE One(tx) == IF ~(isRelayedV1Transaction(tx) /\ tx.hash \in HashesOfInvalid(results))
                        THEN <<tx>> ELSE <<>>
             Other(tx) == IF q[tx] THEN <<tx>> ELSE <<>>
  <2>1. \A tx \in ApiTransactions : One(tx) = Other(tx)
    BY <1>4
  <2>2. [i \in DOMAIN results |-> One(results[i])] = [i \in DOMAIN results |-> Other(results[i])]
    <3> HIDE DEF One, Other, results
    <3> QED BY <1>3, <2>1, ElementsOf
  <2> QED BY <2>2, Zenon DEF Select, Chosen, Kept,
             filterOutIntrashardRelayedTransactionAlreadyHeldInInvalidMiniblock
<1>6. \A tx \in ApiTransactions : Keeps(HashesOfInvalid(block))[tx] <=> p[tx] /\ q[tx]
  BY DEF Keeps
<1>7. Keeps(HashesOfInvalid(block)) \in [ApiTransactions -> BOOLEAN]
  BY DEF Keeps
<1> HIDE DEF p, q, results
<1>8. Chosen(Chosen(block, p), q) = Chosen(block, Keeps(HashesOfInvalid(block)))
  BY <1>1, <1>6, <1>7, ChosenTwice
<1> QED BY <1>2, <1>5, <1>8, Zenon

\* What is left of a block after both filters.
LEMMA KeptRange ==
  ASSUME NEW block \in Seq(ApiTransactions)
  PROVE  /\ Kept(block) \in Seq(ApiTransactions)
         /\ Range(Kept(block)) = {tx \in Range(block) : Keeps(HashesOfInvalid(block))[tx]}
<1>1. Keeps(HashesOfInvalid(block)) \in [ApiTransactions -> BOOLEAN]
  BY DEF Keeps
<1> QED BY <1>1, KeptIs, ChosenRange

-----------------------------------------------------------------------------
(* A block can be transformed *)

\* The operations of a transaction that its events do not give.
MainOperations(tx, block) ==
  CASE tx.type = "normal" -> normalTxToRosetta(tx)
    [] tx.type = "reward" -> rewardTxToRosettaTx(tx)
    [] tx.type = "unsigned" -> unsignedTxToRosettaTx(tx, block)
    [] tx.type = "invalid" -> invalidTxToRosettaTx(tx)

\* The operations of a transaction, but for those of its events.
LEMMA MainOperationsAre ==
  ASSUME NEW tx \in ApiTransactions, NEW block
  PROVE  /\ MainOperations(tx, block) \in Seq(Operations)
         /\ tx.type = "normal" => MainOperations(tx, block) = normalTxToRosetta(tx)
         /\ tx.type = "reward" => MainOperations(tx, block) = rewardTxToRosettaTx(tx)
         /\ tx.type = "unsigned" => MainOperations(tx, block) = unsignedTxToRosettaTx(tx, block)
         /\ tx.type = "invalid" => MainOperations(tx, block) = invalidTxToRosettaTx(tx)
<1>1. tx.type = "normal" => normalTxToRosetta(tx) \in Seq(Operations)
  BY NormalIs
<1>2. rewardTxToRosettaTx(tx) \in Seq(Operations)
  BY RewardIs
<1>3. tx.type = "unsigned" => unsignedTxToRosettaTx(tx, block) \in Seq(Operations)
  BY UnsignedIs
<1>4. tx.type = "invalid" => invalidTxToRosettaTx(tx) \in Seq(Operations)
  BY InvalidIs
<1>5. /\ tx.type = "normal" => MainOperations(tx, block) = normalTxToRosetta(tx)
      /\ tx.type = "reward" => MainOperations(tx, block) = rewardTxToRosettaTx(tx)
      /\ tx.type = "unsigned" => MainOperations(tx, block) = unsignedTxToRosettaTx(tx, block)
      /\ tx.type = "invalid" => MainOperations(tx, block) = invalidTxToRosettaTx(tx)
  BY DEF MainOperations
<1>6. tx.type \in KnownTypes
  BY ApiTransactionIs
<1> QED BY <1>1, <1>2, <1>3, <1>4, <1>5, <1>6 DEF KnownTypes

\* A transaction says what its own operations and those of its events say.
LEMMA TxOperationsAre ==
  ASSUME NEW tx \in ApiTransactions, NEW block, NEW a, NEW b
  PROVE  /\ TxOperations(tx, block) \in Seq(Operations)
         /\ Said(TxOperations(tx, block), a, b)
              = Said(MainOperations(tx, block), a, b) + Said(EventOperations(tx), a, b)
         /\ txToRosettaTx(tx, block) = [hash |-> tx.hash, operations |-> TxOperations(tx, block)]
<1>1. PICK main, other : main = MainOperations(tx, block) /\ other = EventOperations(tx)
  OBVIOUS
<1>2. main \in Seq(Operations) /\ other \in Seq(Operations)
  BY <1>1, MainOperationsAre, EventOperationsAre
<1>3. txToRosettaTx(tx, block) = [hash |-> tx.hash, operations |-> main \o other]
  BY <1>1, Zenon DEF txToRosettaTx, MainOperations
<1>4. PICK both : both = main \o other
  OBVIOUS
<1>5. txToRosettaTx(tx, block) = [hash |-> tx.hash, operations |-> both]
  BY <1>3, <1>4, Zenon
<1>6. TxOperations(tx, block) = both
  BY <1>5 DEF TxOperations
<1>7. both \in Seq(Operations) /\ Said(both, a, b) = Said(main, a, b) + Said(other, a, b)
  BY <1>2, <1>4, SaidConcat
<1> QED BY <1>1, <1>5, <1>6, <1>7, Zenon

\* No transaction of the protocol makes txToRosettaTx fail.
LEMMA CanBeTransformed ==
  ASSUME NEW tx \in ApiTransactions
  PROVE  ~CannotTransform(tx)
<1>1. tx.type \in KnownTypes
  BY ApiTransactionIs
<1>2. ~CannotParseRelayedV1(tx)
  <2>1. ASSUME isRelayedV1Transaction(tx)
        PROVE  "sender" \in DOMAIN tx.inner
    <3>1. tx.processing = "RelayedTx"
      BY <2>1 DEF isRelayedV1Transaction
    <3>2. /\ tx.inner \in {NoInner} \cup [sender : Accounts, receiver : Accounts, value : Nat]
          /\ tx.inner # NoInner
      BY <3>1 DEF ApiTransactions
    <3> QED BY <3>2
  <2> QED BY <2>1 DEF CannotParseRelayedV1
<1>3. ~CannotRecognizeEvent(tx)
  <2>1. \A i \in DOMAIN tx.events : tx.events[i] \in ReadableEvents(tx.epoch)
    BY IdentityIs, ElementsOf
  <2>2. \A i \in DOMAIN tx.events :
          \/ HasRightTopics(tx.events[i])
          \/ tx.events[i].identifier = "transferValueOnly" /\ ~IsReleaseSiriusActive(tx.epoch)
    BY <2>1, EventIs
  <2>3. \A i \in DOMAIN tx.events : ~CannotDecodeSender(tx.events[i])
    <3>1. \A i \in DOMAIN tx.events : tx.events[i].address \in Accounts
      BY <2>1, EventIs
    <3> QED BY <3>1, AccountAssumption, Zenon DEF CannotDecodeSender
  <2> QED BY <2>2, <2>3, Zenon DEF CannotRecognizeEvent
<1> QED BY <1>1, <1>2, <1>3, Zenon DEF CannotTransform

ApiReceipts ==
  [hash : Nat \X {8, 9}, data : {"refundedGas", "other"}, sender : Accounts, value : Nat]
IsGasRefund == [receipt \in ApiReceipts |-> receipt.data = "refundedGas"]
Refunds(rs) == Chosen(rs, IsGasRefund)

RosettaTransactions == [hash : Nat \X Nat, operations : Seq(Operations)]
ShownTransaction(block) == [tx \in ApiTransactions |-> txToRosettaTx(tx, block)]
ShownRefund ==
  [ receipt \in ApiReceipts |->
      [hash |-> receipt.hash, operations |-> refundReceiptToRosettaTx(receipt)] ]

\* Each transaction is shown as a Rosetta transaction.
LEMMA ShownTransactionIs ==
  ASSUME NEW block
  PROVE  ShownTransaction(block) \in [ApiTransactions -> RosettaTransactions]
<1>1. ASSUME NEW tx \in ApiTransactions
      PROVE  txToRosettaTx(tx, block) \in RosettaTransactions
  <2>1. PICK ops, hash : ops = TxOperations(tx, block) /\ hash = tx.hash
    OBVIOUS
  <2>2. ops \in Seq(Operations) /\ txToRosettaTx(tx, block) = [hash |-> hash, operations |-> ops]
    BY <2>1, TxOperationsAre
  <2>3. hash \in Nat \X Nat
    BY <2>1, IdentityIs
  <2> QED BY <2>2, <2>3 DEF RosettaTransactions
<1> QED BY <1>1 DEF ShownTransaction

\* What refundReceiptToRosettaTx says.
LEMMA RefundIs ==
  ASSUME NEW receipt \in ApiReceipts, NEW a, NEW b
  PROVE  /\ refundReceiptToRosettaTx(receipt) \in Seq(Operations)
         /\ Said(refundReceiptToRosettaTx(receipt), a, b)
              = Share(receipt.sender, receipt.value, NativeBalance, a, b)
         /\ ShownRefund[receipt] = [hash |-> receipt.hash,
                                    operations |-> refundReceiptToRosettaTx(receipt)]
<1>1. receipt.sender \in Accounts /\ receipt.value \in Int
  BY DEF ApiReceipts
<1>2. "FeeRefund" \in OperationTypes
  BY DEF OperationTypes
<1>3. ShownRefund[receipt] = [hash |-> receipt.hash,
                              operations |-> refundReceiptToRosettaTx(receipt)]
  BY DEF ShownRefund
<1> QED BY <1>1, <1>2, <1>3, NativeOperation DEF refundReceiptToRosettaTx

\* Each receipt has a form as a Rosetta transaction.
LEMMA ShownRefundIs ==
  /\ ShownRefund \in [ApiReceipts -> RosettaTransactions]
  /\ IsGasRefund \in [ApiReceipts -> BOOLEAN]
<1>1. ASSUME NEW receipt \in ApiReceipts
      PROVE  [hash |-> receipt.hash, operations |-> refundReceiptToRosettaTx(receipt)]
               \in RosettaTransactions
  <2>1. PICK ops, hash : ops = refundReceiptToRosettaTx(receipt) /\ hash = receipt.hash
    OBVIOUS
  <2>2. ops \in Seq(Operations)
    BY <2>1, RefundIs
  <2>3. hash \in Nat \X Nat
    BY <2>1 DEF ApiReceipts
  <2>4. [hash |-> hash, operations |-> ops] \in RosettaTransactions
    BY <2>2, <2>3 DEF RosettaTransactions
  <2> QED BY <2>1, <2>4, Zenon
<1> QED BY <1>1 DEF ShownRefund, IsGasRefund

\* The transactions of a block before their operations are filtered.
LEMMA RosettaTxsAre ==
  ASSUME NEW block \in Seq(ApiTransactions), NEW rs \in Seq(ApiReceipts)
  PROVE  /\ RosettaTxs(block, rs) = Mapped(ShownTransaction(Kept(block)), Kept(block))
                                    \o Mapped(ShownRefund, Refunds(rs))
         /\ Mapped(ShownTransaction(Kept(block)), Kept(block)) \in Seq(RosettaTransactions)
         /\ Mapped(ShownRefund, Refunds(rs)) \in Seq(RosettaTransactions)
         /\ Refunds(rs) \in Seq(ApiReceipts)
<1> DEFINE kept == Kept(block)
           refunds == Select(rs, LAMBDA receipt : receipt.data = "refundedGas")
<1>1. kept \in Seq(ApiTransactions)
  BY KeptRange
<1>2. [i \in DOMAIN kept |-> txToRosettaTx(kept[i], kept)]
      = Mapped(ShownTransaction(kept), kept)
  <2>1. \A tx \in ApiTransactions : ShownTransaction(kept)[tx] = txToRosettaTx(tx, kept)
    BY DEF ShownTransaction
  <2>2. \A i \in DOMAIN kept : kept[i] \in ApiTransactions
    BY <1>1, ElementsOf
  <2> HIDE DEF kept
  <2> QED BY <2>1, <2>2 DEF Mapped
<1>3. refunds = Refunds(rs)
  <2> DEFINE One(receipt) == IF receipt.data = "refundedGas" THEN <<receipt>> ELSE <<>>
             Other(receipt) == IF IsGasRefund[receipt] THEN <<receipt>> ELSE <<>>
  <2>1. \A receipt \in ApiReceipts : One(receipt) = Other(receipt)
    BY DEF IsGasRefund
  <2>2. [i \in DOMAIN rs |-> One(rs[i])] = [i \in DOMAIN rs |-> Other(rs[i])]
    <3> HIDE DEF One, Other
    <3> QED BY <2>1, ElementsOf
  <2> QED BY <2>2, Zenon DEF Select, Chosen, Refunds
<1>4. Refunds(rs) \in Seq(ApiReceipts)
  BY ShownRefundIs, ChosenRange DEF Refunds
<1>5. [i \in DOMAIN Refunds(rs) |->
         [hash |-> Refunds(rs)[i].hash, operations |-> refundReceiptToRosettaTx(Refunds(rs)[i])]]
      = Mapped(ShownRefund, Refunds(rs))
  <2> DEFINE Shown(receipt) ==
        [hash |-> receipt.hash, operations |-> refundReceiptToRosettaTx(receipt)]
  <2>1. \A receipt \in ApiReceipts : ShownRefund[receipt] = Shown(receipt)
    BY DEF ShownRefund
  <2>2. \A i \in DOMAIN Refunds(rs) : Refunds(rs)[i] \in ApiReceipts
    BY <1>4, ElementsOf
  <2>3. [i \in DOMAIN Refunds(rs) |-> Shown(Refunds(rs)[i])] = Mapped(ShownRefund, Refunds(rs))
    <3> HIDE DEF Shown
    <3> QED BY <2>1, <2>2 DEF Mapped
  <2> QED BY <2>3
<1>6. RosettaTxs(block, rs)
      = [i \in DOMAIN kept |-> txToRosettaTx(kept[i], kept)]
        \o [i \in DOMAIN refunds |->
              [hash |-> refunds[i].hash, operations |-> refundReceiptToRosettaTx(refunds[i])]]
  BY Zenon DEF RosettaTxs, Kept
<1>7. RosettaTxs(block, rs) = Mapped(ShownTransaction(kept), kept) \o Mapped(ShownRefund, Refunds(rs))
  <2> HIDE DEF kept, refunds
  <2> QED BY <1>2, <1>3, <1>5, <1>6, Zenon
<1>8. /\ Mapped(ShownTransaction(kept), kept) \in Seq(RosettaTransactions)
      /\ Mapped(ShownRefund, Refunds(rs)) \in Seq(RosettaTransactions)
  <2> HIDE DEF kept
  <2>1. PICK f : f = ShownTransaction(kept)
    OBVIOUS
  <2>2. f \in [ApiTransactions -> RosettaTransactions]
    BY <2>1, ShownTransactionIs
  <2>3. Mapped(f, kept) \in Seq(RosettaTransactions)
    BY <1>1, <2>2, MappedIs
  <2>4. Mapped(ShownRefund, Refunds(rs)) \in Seq(RosettaTransactions)
    BY <1>4, ShownRefundIs, MappedIs
  <2> QED BY <2>1, <2>3, <2>4, Zenon
<1> QED BY <1>4, <1>7, <1>8

\* A block of such transactions is not one that transformBlockTxs fails on.
LEMMA BlockCanBeServed ==
  ASSUME NEW block \in Seq(ApiTransactions), NEW rs \in Seq(ApiReceipts)
  PROVE  ~TransformFails(block, rs)
<1>1. \A tx \in Range(Kept(block)) : ~CannotTransform(tx)
  <2>1. \A tx \in Range(Kept(block)) : tx \in ApiTransactions
    BY KeptRange, ElementsOf DEF Range
  <2> QED BY <2>1, CanBeTransformed
<1>2. PICK all : all = RosettaTxs(block, rs)
  OBVIOUS
<1>3. all \in Seq(RosettaTransactions)
  <2>1. PICK s, t : /\ s = Mapped(ShownTransaction(Kept(block)), Kept(block))
                    /\ t = Mapped(ShownRefund, Refunds(rs))
    OBVIOUS
  <2>2. all = s \o t /\ s \in Seq(RosettaTransactions) /\ t \in Seq(RosettaTransactions)
    BY <1>2, <2>1, RosettaTxsAre
  <2> QED BY <2>2
<1>4. \A rosettaTx \in Range(all) : rosettaTx.operations \in Seq(Operations)
  <2>1. \A rosettaTx \in Range(all) : rosettaTx \in RosettaTransactions
    BY <1>3, ElementsOf DEF Range
  <2>2. \A rosettaTx \in RosettaTransactions : rosettaTx.operations \in Seq(Operations)
    BY DEF RosettaTransactions
  <2> QED BY <2>1, <2>2
<1>5. \A rosettaTx \in Range(all) : \A op \in Range(rosettaTx.operations) : HasPubKey(op.account)
  <2>1. \A operations \in Seq(Operations) : \A op \in Range(operations) : op \in Operations
    BY ElementsOf DEF Range
  <2>2. \A op \in Operations : HasPubKey(op.account)
    <3>1. \A op \in Operations : op.account \in Accounts
      BY DEF Operations
    <3> QED BY <3>1, AccountAssumption
  <2> QED BY <1>4, <2>1, <2>2
<1> QED BY <1>1, <1>2, <1>5, Zenon DEF TransformFails, Kept

-----------------------------------------------------------------------------
(* What the served block says of a balance *)

KeptOperation == [op \in Operations |-> IsAddressObserved(op.account) /\ op.value # 0]
Defaulted ==
  [op \in Operations |-> IF op.status = "" THEN [op EXCEPT !.status = "Success"] ELSE op]
FinishedOperations(operations) == Mapped(Defaulted, Chosen(operations, KeptOperation))
Finished ==
  [ rosettaTx \in RosettaTransactions |->
      [hash |-> rosettaTx.hash, operations |-> FinishedOperations(rosettaTx.operations)] ]
HasOperations == [rosettaTx \in RosettaTransactions |-> rosettaTx.operations # <<>>]

\* What the successful operations say.
SuccessOf(a, b) ==
  [ op \in Operations |->
      IF op.status = "Success" /\ op.account = a /\ Asked(op.currency) = b THEN op.value ELSE 0 ]

\* The two choices that are made among operations and transactions.
LEMMA KeptOperationIs ==
  /\ KeptOperation \in [Operations -> BOOLEAN]
  /\ Defaulted \in [Operations -> Operations]
  /\ HasOperations \in [RosettaTransactions -> BOOLEAN]
<1>1. KeptOperation \in [Operations -> BOOLEAN]
  <2>1. \A op \in Operations : (IsAddressObserved(op.account) /\ op.value # 0) \in BOOLEAN
    OBVIOUS
  <2> QED BY <2>1, Zenon DEF KeptOperation
<1>2. ASSUME NEW op \in Operations
      PROVE  (IF op.status = "" THEN [op EXCEPT !.status = "Success"] ELSE op) \in Operations
  BY DEF Operations
<1>3. Defaulted \in [Operations -> Operations]
  BY <1>2 DEF Defaulted
<1>4. HasOperations \in [RosettaTransactions -> BOOLEAN]
  BY DEF HasOperations
<1> QED BY <1>1, <1>3, <1>4

\* The filters on operations and the default status, as one choice and one map.
LEMMA FinishedOperationsAre ==
  ASSUME NEW operations \in Seq(Operations)
  PROVE  /\ applyDefaultStatusOnOperations(KeepOperations(operations))
              = FinishedOperations(operations)
         /\ FinishedOperations(operations) \in Seq(Operations)
         /\ Chosen(operations, KeptOperation) \in Seq(Operations)
<1>1. KeepOperations(operations) = Chosen(operations, KeptOperation)
  <2> DEFINE One(op) == IF IsAddressObserved(op.account) /\ op.value # 0 THEN <<op>> ELSE <<>>
             Other(op) == IF KeptOperation[op] THEN <<op>> ELSE <<>>
  <2>1. \A op \in Operations : One(op) = Other(op)
    BY Zenon DEF KeptOperation
  <2>2. [i \in DOMAIN operations |-> One(operations[i])]
        = [i \in DOMAIN operations |-> Other(operations[i])]
    <3> HIDE DEF One, Other
    <3> QED BY <2>1, ElementsOf
  <2> QED BY <2>2, Zenon DEF Select, Chosen, KeepOperations
<1>2. PICK kept : kept = Chosen(operations, KeptOperation)
  OBVIOUS
<1>3. kept \in Seq(Operations)
  BY <1>2, KeptOperationIs, ChosenRange
<1>4. applyDefaultStatusOnOperations(kept) = Mapped(Defaulted, kept)
  <2> DEFINE One(op) == IF op.status = "" THEN [op EXCEPT !.status = "Success"] ELSE op
  <2>1. \A op \in Operations : Defaulted[op] = One(op)
    BY DEF Defaulted
  <2>2. [i \in DOMAIN kept |-> One(kept[i])] = [i \in DOMAIN kept |-> Defaulted[kept[i]]]
    <3> HIDE DEF One
    <3> QED BY <1>3, <2>1, ElementsOf
  <2> QED BY <2>2, Zenon DEF applyDefaultStatusOnOperations, Mapped
<1>5. Mapped(Defaulted, kept) \in Seq(Operations)
  BY <1>3, KeptOperationIs, MappedIs
<1> QED BY <1>1, <1>2, <1>3, <1>4, <1>5, Zenon DEF FinishedOperations

\* A transaction with its operations filtered is one.
LEMMA FinishedIs ==
  Finished \in [RosettaTransactions -> RosettaTransactions]
<1>1. ASSUME NEW rosettaTx \in RosettaTransactions
      PROVE  [hash |-> rosettaTx.hash, operations |-> FinishedOperations(rosettaTx.operations)]
               \in RosettaTransactions
  <2>1. PICK ops : ops = FinishedOperations(rosettaTx.operations)
    OBVIOUS
  <2>2. ops \in Seq(Operations)
    <3>1. rosettaTx.operations \in Seq(Operations)
      BY DEF RosettaTransactions
    <3> QED BY <2>1, <3>1, FinishedOperationsAre
  <2>3. [hash |-> rosettaTx.hash, operations |-> ops] \in RosettaTransactions
    BY <2>2 DEF RosettaTransactions
  <2> QED BY <2>1, <2>3, Zenon
<1> QED BY <1>1 DEF Finished

\* transformBlockTxs, as maps and choices.
LEMMA TransformedIs ==
  ASSUME NEW block \in Seq(ApiTransactions), NEW rs \in Seq(ApiReceipts)
  PROVE  /\ RosettaTxs(block, rs) \in Seq(RosettaTransactions)
         /\ transformBlockTxs(block, rs)
              = Chosen(Mapped(Finished, RosettaTxs(block, rs)), HasOperations)
         /\ Mapped(Finished, RosettaTxs(block, rs)) \in Seq(RosettaTransactions)
         /\ transformBlockTxs(block, rs) \in Seq(RosettaTransactions)
<1>1. PICK all : all = RosettaTxs(block, rs)
  OBVIOUS
<1>2. all \in Seq(RosettaTransactions)
  <2>1. PICK s, t : /\ s = Mapped(ShownTransaction(Kept(block)), Kept(block))
                    /\ t = Mapped(ShownRefund, Refunds(rs))
    OBVIOUS
  <2>2. all = s \o t /\ s \in Seq(RosettaTransactions) /\ t \in Seq(RosettaTransactions)
    BY <1>1, <2>1, RosettaTxsAre
  <2> QED BY <2>2
<1> DEFINE Finish(r) == [r EXCEPT !.operations = applyDefaultStatusOnOperations(KeepOperations(@))]
           finished == [i \in DOMAIN all |-> Finish(all[i])]
<1>3. finished = Mapped(Finished, all)
  <2>1. ASSUME NEW r \in RosettaTransactions
        PROVE  Finish(r) = Finished[r]
    <3>1. r.operations \in Seq(Operations)
      BY DEF RosettaTransactions
    <3>2. PICK ops : ops = FinishedOperations(r.operations)
      OBVIOUS
    <3>3. applyDefaultStatusOnOperations(KeepOperations(r.operations)) = ops
      BY <3>1, <3>2, FinishedOperationsAre
    <3>4. Finish(r) = [r EXCEPT !.operations = ops]
      BY <3>3
    <3>5. [r EXCEPT !.operations = ops] = [hash |-> r.hash, operations |-> ops]
      BY DEF RosettaTransactions
    <3>6. Finished[r] = [hash |-> r.hash, operations |-> ops]
      BY <3>2 DEF Finished
    <3> QED BY <3>4, <3>5, <3>6, Zenon
  <2> HIDE DEF Finish
  <2> QED BY <1>2, <2>1, ElementsOf DEF Mapped
<1>4. finished \in Seq(RosettaTransactions)
  <2>1. Mapped(Finished, all) \in Seq(RosettaTransactions)
    BY <1>2, FinishedIs, MappedIs
  <2> HIDE DEF finished
  <2> QED BY <1>3, <2>1
<1>5. filterOutRosettaTransactionsWithNoOperations(finished) = Chosen(finished, HasOperations)
  <2> DEFINE One(r) == IF r.operations # <<>> THEN <<r>> ELSE <<>>
             Other(r) == IF HasOperations[r] THEN <<r>> ELSE <<>>
  <2>1. \A r \in RosettaTransactions : One(r) = Other(r)
    BY DEF HasOperations
  <2> HIDE DEF finished
  <2>2. [i \in DOMAIN finished |-> One(finished[i])]
        = [i \in DOMAIN finished |-> Other(finished[i])]
    <3> HIDE DEF One, Other
    <3> QED BY <1>4, <2>1, ElementsOf
  <2> QED BY <2>2, Zenon DEF Select, Chosen, filterOutRosettaTransactionsWithNoOperations
<1>6. transformBlockTxs(block, rs) = filterOutRosettaTransactionsWithNoOperations(finished)
  BY <1>1, Zenon DEF transformBlockTxs
<1> HIDE DEF finished
<1>7. Chosen(finished, HasOperations) \in Seq(RosettaTransactions)
  BY <1>4, KeptOperationIs, ChosenRange
<1> QED BY <1>1, <1>2, <1>3, <1>4, <1>5, <1>6, <1>7, Zenon

\* Of an observed account, nothing is lost or added when operations are left out or given a
\* status.
LEMMA FinishedSum ==
  ASSUME NEW a, IsAddressObserved(a), NEW b, NEW operations \in Seq(Operations)
  PROVE  /\ SumOf(FinishedOperations(operations), SuccessOf(a, b)) = Said(operations, a, b)
         /\ SuccessOf(a, b) \in [Operations -> Int]
<1> DEFINE kept == Chosen(operations, KeptOperation)
           v == [op \in Operations |-> SuccessOf(a, b)[Defaulted[op]]]
           w == [op \in Operations |-> IF KeptOperation[op] THEN v[op] ELSE 0]
<1>1. SuccessOf(a, b) \in [Operations -> Int]
  <2>1. ASSUME NEW op \in Operations
        PROVE  (IF op.status = "Success" /\ op.account = a /\ Asked(op.currency) = b
                THEN op.value ELSE 0) \in Int
    <3>1. op.value \in Int
      BY DEF Operations
    <3> QED BY <3>1
  <2> QED BY <2>1 DEF SuccessOf
<1>2. kept \in Seq(Operations)
  BY FinishedOperationsAre
<1>3. v \in [Operations -> Int]
  BY <1>1, KeptOperationIs
<1>4. SumOf(FinishedOperations(operations), SuccessOf(a, b)) = SumOf(kept, v)
  <2>1. PICK s, f, weight : s = kept /\ f = Defaulted /\ weight = SuccessOf(a, b)
    OBVIOUS
  <2>2. /\ s \in Seq(Operations) /\ f \in [Operations -> Operations]
        /\ weight \in [Operations -> Int]
    <3> HIDE DEF kept
    <3> QED BY <1>1, <1>2, <2>1, KeptOperationIs
  <2>3. SumOf(Mapped(f, s), weight)
        = SumOf(s, Composed(Operations, f, weight))
    BY <2>2, SumMap
  <2> QED BY <2>1, <2>3, Zenon DEF FinishedOperations, kept, Composed
<1>5. SumOf(kept, v) = SumOf(operations, w)
  <2>1. PICK p, weight : p = KeptOperation /\ weight = v
    OBVIOUS
  <2>2. p \in [Operations -> BOOLEAN] /\ weight \in [Operations -> Int]
    <3> HIDE DEF v
    <3> QED BY <1>3, <2>1, KeptOperationIs
  <2>3. SumOf(Chosen(operations, p), weight)
        = SumOf(operations, [op \in Operations |-> IF p[op] THEN weight[op] ELSE 0])
    BY <2>2, ChosenSum, SMTT(40)
  <2> HIDE DEF v
  <2> QED BY <2>1, <2>3, Zenon
<1>6. w = ShareOf(a, b)
  <2>1. ASSUME NEW op \in Operations
        PROVE  w[op] = ShareOf(a, b)[op]
    <3>1. op.status \in {"", "Success", "Failure"} /\ op.value \in Int
      BY DEF Operations
    <3>2. PICK other : other = Defaulted[op]
      OBVIOUS
    <3>3. /\ other \in Operations
          /\ other.account = op.account /\ other.value = op.value /\ other.currency = op.currency
          /\ other.status = IF op.status = "" THEN "Success" ELSE op.status
      BY <3>2, KeptOperationIs DEF Defaulted, Operations
    <3>4. v[op] = IF op.status # "Failure" /\ op.account = a /\ Asked(op.currency) = b
                  THEN op.value ELSE 0
      <4>1. v[op] = SuccessOf(a, b)[other]
        BY <3>2
      <4>2. other.status = "Success" <=> op.status # "Failure"
        BY <3>1, <3>3
      <4>3. SuccessOf(a, b)[other]
            = IF other.status = "Success" /\ other.account = a /\ Asked(other.currency) = b
              THEN other.value ELSE 0
        BY <3>3 DEF SuccessOf
      <4> HIDE DEF v
      <4> QED BY <3>3, <4>1, <4>2, <4>3, Zenon
    <3>5. w[op] = IF IsAddressObserved(op.account) /\ op.value # 0 THEN v[op] ELSE 0
      <4> HIDE DEF v
      <4> QED BY DEF KeptOperation
    <3>6. ShareOf(a, b)[op]
          = IF op.status # "Failure" /\ op.account = a /\ Asked(op.currency) = b
            THEN op.value ELSE 0
      BY DEF ShareOf, Share
    <3> HIDE DEF v, w
    <3> QED BY <3>1, <3>4, <3>5, <3>6
  <2>2. ShareOf(a, b) = [op \in Operations |-> ShareOf(a, b)[op]]
    BY DEF ShareOf
  <2>3. w = [op \in Operations |-> w[op]]
    OBVIOUS
  <2> HIDE DEF w
  <2> QED BY <2>1, <2>2, <2>3
<1> HIDE DEF kept, v, w
<1> QED BY <1>1, <1>4, <1>5, <1>6, Zenon DEF Said

\* The hashes of the transactions of a block that claim developer rewards.
Claims(block) ==
  { tx.hash : tx \in {t \in Range(block) : /\ t.processing = "BuiltInFunctionCall"
                                           /\ t.operation = "ClaimDeveloperRewards"} }

\* A result holds rewards when its original is a claim of the block.
LEMMA HoldsRewardsOfClaim ==
  ASSUME NEW scr, NEW block
  PROVE  doesContractResultHoldRewardsOfClaimDeveloperRewards(scr, block)
           <=> scr.dataLength = 0 /\ scr.nonce = 0 /\ scr.original \in Claims(block)
<1>1. scr.original \in Claims(block)
      <=> \E i \in DOMAIN block : /\ block[i].processing = "BuiltInFunctionCall"
                                  /\ block[i].operation = "ClaimDeveloperRewards"
                                  /\ block[i].hash = scr.original
  BY DEF Claims, Range
<1> QED BY <1>1, Zenon DEF doesContractResultHoldRewardsOfClaimDeveloperRewards

\* What the operations of a transaction are depends on nothing else of its block.
LEMMA SameClaims ==
  ASSUME NEW tx, NEW block, NEW other,
         tx.original \in Claims(block) <=> tx.original \in Claims(other)
  PROVE  TxOperations(tx, block) = TxOperations(tx, other)
<1>1. doesContractResultHoldRewardsOfClaimDeveloperRewards(tx, block)
      <=> doesContractResultHoldRewardsOfClaimDeveloperRewards(tx, other)
  BY HoldsRewardsOfClaim, Zenon
<1>2. unsignedTxToRosettaTx(tx, block) = unsignedTxToRosettaTx(tx, other)
  BY <1>1, Zenon DEF unsignedTxToRosettaTx
<1>3. txToRosettaTx(tx, block) = txToRosettaTx(tx, other)
  BY <1>2, Zenon DEF txToRosettaTx
<1> QED BY <1>3, Zenon DEF TxOperations

\* The filters keep every claim.
LEMMA KeptClaims ==
  ASSUME NEW block \in Seq(ApiTransactions)
  PROVE  Claims(Kept(block)) = Claims(block)
<1>1. Range(Kept(block)) = {tx \in Range(block) : Keeps(HashesOfInvalid(block))[tx]}
  BY KeptRange
<1>2. ASSUME NEW tx \in Range(block), tx.processing = "BuiltInFunctionCall",
             tx.operation = "ClaimDeveloperRewards"
      PROVE  Keeps(HashesOfInvalid(block))[tx]
  <2>1. tx \in ApiTransactions
    BY ElementsOf DEF Range
  <2>2. tx.type # "unsigned"
    BY <1>2, <2>1, ApiTransactionIs
  <2>3. ~isRelayedV1Transaction(tx)
    BY <1>2 DEF isRelayedV1Transaction
  <2> QED BY <2>1, <2>2, <2>3 DEF Keeps
<1> QED BY <1>1, <1>2, Zenon DEF Claims

TxWeight(block, a, b) ==
  [ tx \in ApiTransactions |->
      IF Keeps(HashesOfInvalid(block))[tx] THEN Said(TxOperations(tx, block), a, b) ELSE 0 ]
ReceiptWeight(a, b) ==
  [ receipt \in ApiReceipts |->
      IF receipt.data = "refundedGas"
      THEN Share(receipt.sender, receipt.value, NativeBalance, a, b) ELSE 0 ]

\* What a transaction or a receipt says of a balance is an integer.
LEMMA WeightsAre ==
  ASSUME NEW block, NEW a, NEW b
  PROVE  /\ TxWeight(block, a, b) \in [ApiTransactions -> Int]
         /\ ReceiptWeight(a, b) \in [ApiReceipts -> Int]
<1>1. ASSUME NEW tx \in ApiTransactions
      PROVE  Said(TxOperations(tx, block), a, b) \in Int
  BY TxOperationsAre, ShareType
<1>2. ASSUME NEW receipt \in ApiReceipts
      PROVE  Share(receipt.sender, receipt.value, NativeBalance, a, b) \in Int
  <2>1. receipt.value \in Int
    BY DEF ApiReceipts
  <2> QED BY <2>1, ShareIsInt
<1> QED BY <1>1, <1>2 DEF TxWeight, ReceiptWeight

Where(S, p, w) == [x \in S |-> IF p[x] THEN w[x] ELSE 0]

\* ChosenSum, with its weight named.
LEMMA SumWhere ==
  ASSUME NEW S, NEW p \in [S -> BOOLEAN], NEW w \in [S -> Int], NEW s \in Seq(S)
  PROVE  SumOf(Chosen(s, p), w) = SumOf(s, Where(S, p, w))
<1>1. SumOf(Chosen(s, p), w) = SumOf(s, [x \in S |-> IF p[x] THEN w[x] ELSE 0])
  BY ChosenSum
<1> QED BY <1>1, Zenon DEF Where

\* What is said by the transactions that are kept.
LEMMA KeptSum ==
  ASSUME NEW block \in Seq(ApiTransactions), NEW a, NEW b, NEW w \in [RosettaTransactions -> Int],
         \A r \in RosettaTransactions : w[r] = Said(r.operations, a, b)
  PROVE  SumOf(Mapped(ShownTransaction(Kept(block)), Kept(block)), w)
           = SumOf(block, TxWeight(block, a, b))
<1>1. PICK kept, f, v, p :
        /\ kept = Kept(block) /\ f = ShownTransaction(kept)
        /\ v = Composed(ApiTransactions, f, w) /\ p = Keeps(HashesOfInvalid(block))
  OBVIOUS
<1>2. kept \in Seq(ApiTransactions) /\ kept = Chosen(block, p)
  BY <1>1, KeptRange, KeptIs
<1>3. f \in [ApiTransactions -> RosettaTransactions] /\ p \in [ApiTransactions -> BOOLEAN]
  BY <1>1, ShownTransactionIs DEF Keeps
<1>4. v \in [ApiTransactions -> Int]
  BY <1>1, <1>3 DEF Composed
<1>5. SumOf(Mapped(f, kept), w) = SumOf(kept, v)
  BY <1>1, <1>2, SumMap, Zenon
<1>6. SumOf(kept, v) = SumOf(block, Where(ApiTransactions, p, v))
  BY <1>2, <1>3, <1>4, SumWhere
<1>7. Where(ApiTransactions, p, v) = TxWeight(block, a, b)
  <2>1. ASSUME NEW tx \in ApiTransactions
        PROVE  v[tx] = Said(TxOperations(tx, block), a, b)
    <3>1. v[tx] = w[f[tx]]
      BY <1>1 DEF Composed
    <3>2. f[tx] = txToRosettaTx(tx, kept)
      BY <1>1 DEF ShownTransaction
    <3>3. f[tx].operations = TxOperations(tx, kept) /\ f[tx] \in RosettaTransactions
      BY <1>3, <3>2 DEF TxOperations
    <3>4. TxOperations(tx, kept) = TxOperations(tx, block)
      BY <1>1, KeptClaims, SameClaims
    <3> QED BY <3>1, <3>3, <3>4
  <2> QED BY <1>1, <2>1 DEF Where, TxWeight
<1> QED BY <1>1, <1>5, <1>6, <1>7, Zenon

\* What is said by the receipts that are kept.
LEMMA RefundSum ==
  ASSUME NEW rs \in Seq(ApiReceipts), NEW a, NEW b, NEW w \in [RosettaTransactions -> Int],
         \A r \in RosettaTransactions : w[r] = Said(r.operations, a, b)
  PROVE  SumOf(Mapped(ShownRefund, Refunds(rs)), w) = SumOf(rs, ReceiptWeight(a, b))
<1>1. PICK kept, v : kept = Refunds(rs) /\ v = Composed(ApiReceipts, ShownRefund, w)
  OBVIOUS
<1>2. kept \in Seq(ApiReceipts) /\ kept = Chosen(rs, IsGasRefund)
  BY <1>1, ShownRefundIs, ChosenRange DEF Refunds
<1>3. v \in [ApiReceipts -> Int]
  BY <1>1, ShownRefundIs DEF Composed
<1>4. SumOf(Mapped(ShownRefund, kept), w) = SumOf(kept, v)
  BY <1>1, <1>2, SumMap, Zenon
<1>5. SumOf(kept, v) = SumOf(rs, Where(ApiReceipts, IsGasRefund, v))
  BY <1>2, <1>3, ShownRefundIs, SumWhere
<1>6. Where(ApiReceipts, IsGasRefund, v) = ReceiptWeight(a, b)
  <2>1. ASSUME NEW receipt \in ApiReceipts
        PROVE  v[receipt] = Share(receipt.sender, receipt.value, NativeBalance, a, b)
    <3>1. v[receipt] = w[ShownRefund[receipt]]
      BY <1>1 DEF Composed
    <3>2. ShownRefund[receipt] \in RosettaTransactions
      BY ShownRefundIs
    <3>3. ShownRefund[receipt].operations = refundReceiptToRosettaTx(receipt)
      BY DEF ShownRefund
    <3>4. Said(refundReceiptToRosettaTx(receipt), a, b)
          = Share(receipt.sender, receipt.value, NativeBalance, a, b)
      BY RefundIs
    <3> QED BY <3>1, <3>2, <3>3, <3>4
  <2> QED BY <2>1 DEF Where, ReceiptWeight, IsGasRefund
<1> QED BY <1>1, <1>4, <1>5, <1>6, Zenon

OperationsOf == [r \in RosettaTransactions |-> r.operations]
SumsOfSuccess(a, b) == [operations \in Seq(Operations) |-> SumOf(operations, SuccessOf(a, b))]

\* The operations that are served say, of an observed account, what those of the transactions
\* that are kept and of the receipts say.
LEMMA ServedSum ==
  ASSUME NEW block \in Seq(ApiTransactions), NEW rs \in Seq(ApiReceipts),
         NEW a, IsAddressObserved(a), NEW b
  PROVE  /\ SumOf(FlattenSeq(Mapped(OperationsOf, transformBlockTxs(block, rs))), SuccessOf(a, b))
              = SumOf(block, TxWeight(block, a, b)) + SumOf(rs, ReceiptWeight(a, b))
         /\ FlattenSeq(Mapped(OperationsOf, transformBlockTxs(block, rs))) \in Seq(Operations)
<1>1. PICK s, t, all, finished, served :
        /\ s = Mapped(ShownTransaction(Kept(block)), Kept(block))
        /\ t = Mapped(ShownRefund, Refunds(rs))
        /\ all = RosettaTxs(block, rs) /\ finished = Mapped(Finished, all)
        /\ served = transformBlockTxs(block, rs)
  OBVIOUS
<1>2. PICK w0, w1, w2, w3, w4 :
        /\ w0 = SuccessOf(a, b) /\ w1 = SumsOfSuccess(a, b)
        /\ w2 = Composed(RosettaTransactions, OperationsOf, w1)
        /\ w3 = Where(RosettaTransactions, HasOperations, w2)
        /\ w4 = Composed(RosettaTransactions, Finished, w3)
  OBVIOUS
<1>3. /\ s \in Seq(RosettaTransactions) /\ t \in Seq(RosettaTransactions) /\ all = s \o t
      /\ all \in Seq(RosettaTransactions) /\ finished \in Seq(RosettaTransactions)
      /\ served \in Seq(RosettaTransactions) /\ served = Chosen(finished, HasOperations)
  <2>1. s \in Seq(RosettaTransactions) /\ t \in Seq(RosettaTransactions) /\ all = s \o t
    BY <1>1, RosettaTxsAre
  <2>2. /\ all \in Seq(RosettaTransactions) /\ finished \in Seq(RosettaTransactions)
        /\ served \in Seq(RosettaTransactions) /\ served = Chosen(finished, HasOperations)
    BY <1>1, TransformedIs
  <2> QED BY <2>1, <2>2
<1>4. OperationsOf \in [RosettaTransactions -> Seq(Operations)]
  BY DEF OperationsOf, RosettaTransactions
<1>5. Mapped(OperationsOf, served) \in Seq(Seq(Operations))
  <2>1. PICK SS : SS = Seq(Operations)
    OBVIOUS
  <2>2. OperationsOf \in [RosettaTransactions -> SS]
    BY <1>4, <2>1
  <2>3. Mapped(OperationsOf, served) \in Seq(SS)
    BY <1>3, <2>2, MappedIs
  <2> QED BY <2>1, <2>3, Zenon
<1>6. w0 \in [Operations -> Int]
  BY <1>2, FinishedSum, SaidNothing
<1>7. w1 \in [Seq(Operations) -> Int] /\ \A ops \in Seq(Operations) : w1[ops] = SumOf(ops, w0)
  <2>1. \A ops \in Seq(Operations) : SumOf(ops, w0) \in Int
    BY <1>6, SumInt
  <2> QED BY <1>2, <2>1 DEF SumsOfSuccess
<1>8. w2 \in [RosettaTransactions -> Int]
      /\ \A r \in RosettaTransactions : w2[r] = SumOf(r.operations, w0)
  <2>1. \A r \in RosettaTransactions :
          OperationsOf[r] = r.operations /\ r.operations \in Seq(Operations)
    BY <1>4 DEF OperationsOf
  <2>2. w2 \in [RosettaTransactions -> Int]
    BY <1>2, <1>4, <1>7 DEF Composed
  <2>3. \A r \in RosettaTransactions : w2[r] = w1[OperationsOf[r]]
    BY <1>2 DEF Composed
  <2> QED BY <1>7, <2>1, <2>2, <2>3
<1>9. w3 \in [RosettaTransactions -> Int]
      /\ \A r \in RosettaTransactions : w3[r] = SumOf(r.operations, w0)
  <2>1. w3 \in [RosettaTransactions -> Int]
    BY <1>2, <1>8 DEF Where
  <2>2. SumOf(<<>>, w0) = 0
    BY SumEmpty
  <2>3. \A r \in RosettaTransactions :
          w3[r] = IF r.operations # <<>> THEN SumOf(r.operations, w0) ELSE 0
    BY <1>2, <1>8 DEF Where, HasOperations
  <2> QED BY <2>1, <2>2, <2>3
<1>10. w4 \in [RosettaTransactions -> Int]
       /\ \A r \in RosettaTransactions : w4[r] = Said(r.operations, a, b)
  <2>1. w4 \in [RosettaTransactions -> Int]
    BY <1>2, <1>9, FinishedIs DEF Composed
  <2>2. ASSUME NEW r \in RosettaTransactions
        PROVE  w4[r] = Said(r.operations, a, b)
    <3>1. r.operations \in Seq(Operations)
      BY DEF RosettaTransactions
    <3>2. PICK other : other = Finished[r]
      OBVIOUS
    <3>3. other \in RosettaTransactions /\ other.operations = FinishedOperations(r.operations)
      BY <3>2, FinishedIs DEF Finished
    <3>4. w4[r] = w3[other]
      BY <1>2, <3>2 DEF Composed
    <3>5. w3[other] = SumOf(FinishedOperations(r.operations), w0)
      BY <1>9, <3>3
    <3>6. SumOf(FinishedOperations(r.operations), w0) = Said(r.operations, a, b)
      BY <1>2, <3>1, FinishedSum
    <3> QED BY <3>4, <3>5, <3>6, Zenon
  <2> QED BY <2>1, <2>2
<1>11. SumOf(FlattenSeq(Mapped(OperationsOf, served)), w0) = SumOf(Mapped(OperationsOf, served), w1)
  <2>1. PICK ss : ss = Mapped(OperationsOf, served)
    OBVIOUS
  <2>2. ss \in Seq(Seq(Operations))
    BY <1>5, <2>1
  <2>3. SumOf(FlattenSeq(ss), w0) = SumOf(ss, [ops \in Seq(Operations) |-> SumOf(ops, w0)])
    BY <1>6, <2>2, SumFlatten
  <2> QED BY <1>2, <2>1, <2>3, Zenon DEF SumsOfSuccess
<1>12. SumOf(Mapped(OperationsOf, served), w1) = SumOf(served, w2)
  <2>1. SumOf(Mapped(OperationsOf, served), w1)
        = SumOf(served, Composed(RosettaTransactions, OperationsOf, w1))
    BY <1>3, SumMap
  <2> QED BY <1>2, <2>1, Zenon
<1>13. SumOf(served, w2) = SumOf(finished, w3)
  BY <1>2, <1>3, <1>8, KeptOperationIs, SumWhere
<1>14. SumOf(finished, w3) = SumOf(all, w4)
  <2>1. SumOf(Mapped(Finished, all), w3)
        = SumOf(all, Composed(RosettaTransactions, Finished, w3))
    BY <1>3, SumMap, ZenonT(40)
  <2> QED BY <1>1, <1>2, <2>1, Zenon
<1>15. SumOf(all, w4) = SumOf(s, w4) + SumOf(t, w4)
  BY <1>3, <1>10, SumConcat
<1>16. SumOf(s, w4) = SumOf(block, TxWeight(block, a, b))
  BY <1>1, <1>10, KeptSum
<1>17. SumOf(t, w4) = SumOf(rs, ReceiptWeight(a, b))
  BY <1>1, <1>10, RefundSum
<1>18. FlattenSeq(Mapped(OperationsOf, served)) \in Seq(Operations)
  <2>1. PICK ss : ss = Mapped(OperationsOf, served)
    OBVIOUS
  <2>2. ss \in Seq(Seq(Operations)) /\ <<>> \in Seq(Operations)
    BY <1>5, <2>1
  <2>3. FlattenSeq(ss) \in Seq(Operations)
    BY <2>2, FlattenAppend
  <2> QED BY <2>1, <2>3, Zenon
<1> QED BY <1>1, <1>2, <1>11, <1>12, <1>13, <1>14, <1>15, <1>16, <1>17, <1>18, Zenon

-----------------------------------------------------------------------------
(* The properties of the block, in terms of its transactions *)

Balances == {NativeBalance} \cup {BalanceOf(token) : token \in Tokens}
Changes == [account : Accounts, balance : Balances, value : Int]
ChangeWeight(a, b) == [c \in Changes |-> Share(c.account, c.value, c.balance, a, b)]

\* What a change does to a balance is an integer.
LEMMA ChangeWeightIs ==
  ASSUME NEW a, NEW b
  PROVE  ChangeWeight(a, b) \in [Changes -> Int]
<1>1. ASSUME NEW c \in Changes
      PROVE  Share(c.account, c.value, c.balance, a, b) \in Int
  <2>1. c.value \in Int
    BY DEF Changes
  <2> QED BY <2>1, ShareIsInt
<1> QED BY <1>1 DEF ChangeWeight

\* All operations that are served, in one sequence.
LEMMA ServedOperationsAre ==
  ServedOperations = FlattenSeq(Mapped(OperationsOf, transformBlockTxs(txs, receipts)))
    \/ txs \notin Seq(ApiTransactions) \/ receipts \notin Seq(ApiReceipts)
<1> SUFFICES ASSUME txs \in Seq(ApiTransactions), receipts \in Seq(ApiReceipts)
             PROVE  ServedOperations
                      = FlattenSeq(Mapped(OperationsOf, transformBlockTxs(txs, receipts)))
  OBVIOUS
<1>1. PICK served : served = transformBlockTxs(txs, receipts)
  OBVIOUS
<1>2. served \in Seq(RosettaTransactions)
  BY <1>1, TransformedIs
<1>3. [i \in DOMAIN served |-> served[i].operations] = Mapped(OperationsOf, served)
  BY <1>2, ElementsOf DEF Mapped, OperationsOf
<1> QED BY <1>1, <1>3, Zenon DEF ServedOperations, Served

\* What remains to be shown of an account and a balance.
Explains(block, rs, cs, a, b) ==
  SumOf(block, TxWeight(block, a, b)) + SumOf(rs, ReceiptWeight(a, b))
    = SumOf(cs, ChangeWeight(a, b))

\* Reconciled, from what transactions, receipts and changes sum up to.
LEMMA ReconciledWhen ==
  ASSUME txs \in Seq(ApiTransactions), receipts \in Seq(ApiReceipts), changes \in Seq(Changes),
         \A a \in Accounts : \A b \in ServedBalances :
           IsAddressObserved(a) => Explains(txs, receipts, changes, a, b)
  PROVE  Reconciled
<1> SUFFICES ASSUME NEW a \in Accounts, IsAddressObserved(a), NEW b \in ServedBalances
             PROVE  Total([i \in DOMAIN ServedOperations |->
                             IF /\ ServedOperations[i].status = "Success"
                                /\ ServedOperations[i].account = a
                                /\ AskedBalance(ServedOperations[i]) = b
                             THEN ServedOperations[i].value ELSE 0])
                    = Total([i \in DOMAIN changes |->
                               IF changes[i].account = a /\ changes[i].balance = b
                               THEN changes[i].value ELSE 0])
  BY Zenon DEF Reconciled
<1>1. PICK ops : ops = ServedOperations
  OBVIOUS
<1>2. ops = FlattenSeq(Mapped(OperationsOf, transformBlockTxs(txs, receipts)))
  BY <1>1, ServedOperationsAre
<1>3. ops \in Seq(Operations)
  BY <1>2, ServedSum
<1>4. Total([i \in DOMAIN ops |->
               IF ops[i].status = "Success" /\ ops[i].account = a /\ AskedBalance(ops[i]) = b
               THEN ops[i].value ELSE 0])
      = SumOf(ops, SuccessOf(a, b))
  <2> DEFINE One(op) == IF op.status = "Success" /\ op.account = a /\ AskedBalance(op) = b
                        THEN op.value ELSE 0
  <2>1. \A op \in Operations : SuccessOf(a, b)[op] = One(op)
    BY DEF SuccessOf, AskedBalance, Asked
  <2>2. [i \in DOMAIN ops |-> One(ops[i])] = [i \in DOMAIN ops |-> SuccessOf(a, b)[ops[i]]]
    <3> HIDE DEF One
    <3> QED BY <1>3, <2>1, ElementsOf
  <2> QED BY <2>2, Zenon DEF SumOf
<1>5. Total([i \in DOMAIN changes |->
               IF changes[i].account = a /\ changes[i].balance = b THEN changes[i].value ELSE 0])
      = SumOf(changes, ChangeWeight(a, b))
  <2> DEFINE One(c) == IF c.account = a /\ c.balance = b THEN c.value ELSE 0
  <2>1. \A c \in Changes : ChangeWeight(a, b)[c] = One(c)
    BY DEF ChangeWeight, Share
  <2>2. [i \in DOMAIN changes |-> One(changes[i])]
        = [i \in DOMAIN changes |-> ChangeWeight(a, b)[changes[i]]]
    <3> HIDE DEF One
    <3> QED BY <2>1, ElementsOf
  <2> QED BY <2>2, Zenon DEF SumOf
<1>6. SumOf(ops, SuccessOf(a, b))
      = SumOf(txs, TxWeight(txs, a, b)) + SumOf(receipts, ReceiptWeight(a, b))
  BY <1>2, ServedSum
<1>7. Explains(txs, receipts, changes, a, b)
  OBVIOUS
<1> QED BY <1>1, <1>4, <1>5, <1>6, <1>7, Zenon DEF Explains

HashOf == [tx \in ApiTransactions |-> tx.hash]
HashOfReceipt == [receipt \in ApiReceipts |-> receipt.hash]
HashOfShown == [r \in RosettaTransactions |-> r.hash]

\* The transactions that are shown have different hashes.
LEMMA ServedHashes ==
  ASSUME NEW block \in Seq(ApiTransactions), NEW rs \in Seq(ApiReceipts),
         Distinct(block, Keeps(HashesOfInvalid(block)), HashOf),
         Distinct(rs, IsGasRefund, HashOfReceipt)
  PROVE  \A i, j \in DOMAIN transformBlockTxs(block, rs) :
           transformBlockTxs(block, rs)[i].hash = transformBlockTxs(block, rs)[j].hash => i = j
<1>1. PICK kept, refunds, s, t, all, finished, served :
        /\ kept = Kept(block) /\ refunds = Refunds(rs)
        /\ s = Mapped(ShownTransaction(kept), kept) /\ t = Mapped(ShownRefund, refunds)
        /\ all = RosettaTxs(block, rs) /\ finished = Mapped(Finished, all)
        /\ served = transformBlockTxs(block, rs)
  OBVIOUS
<1>2. /\ s \in Seq(RosettaTransactions) /\ t \in Seq(RosettaTransactions) /\ all = s \o t
      /\ refunds \in Seq(ApiReceipts)
  BY <1>1, RosettaTxsAre
<1>3. /\ all \in Seq(RosettaTransactions) /\ finished \in Seq(RosettaTransactions)
      /\ served \in Seq(RosettaTransactions) /\ served = Chosen(finished, HasOperations)
  BY <1>1, TransformedIs
<1>4. kept \in Seq(ApiTransactions) /\ kept = Chosen(block, Keeps(HashesOfInvalid(block)))
  BY <1>1, KeptRange, KeptIs
<1>5. \A i, j \in DOMAIN kept : kept[i].hash = kept[j].hash => i = j
  <2>1. Keeps(HashesOfInvalid(block)) \in [ApiTransactions -> BOOLEAN]
    BY DEF Keeps
  <2>2. \A i, j \in DOMAIN kept : HashOf[kept[i]] = HashOf[kept[j]] => i = j
    BY <1>4, <2>1, ChosenDistinct
  <2>3. \A i \in DOMAIN kept : HashOf[kept[i]] = kept[i].hash
    BY <1>4, ElementsOf DEF HashOf
  <2> QED BY <2>2, <2>3
<1>6. \A i, j \in DOMAIN refunds : refunds[i].hash = refunds[j].hash => i = j
  <2>1. refunds = Chosen(rs, IsGasRefund)
    BY <1>1 DEF Refunds
  <2>2. \A i, j \in DOMAIN refunds : HashOfReceipt[refunds[i]] = HashOfReceipt[refunds[j]] => i = j
    BY <2>1, ShownRefundIs, ChosenDistinct
  <2>3. \A i \in DOMAIN refunds : HashOfReceipt[refunds[i]] = refunds[i].hash
    BY <1>2, ElementsOf DEF HashOfReceipt
  <2> QED BY <2>2, <2>3
<1>7. /\ DOMAIN s = DOMAIN kept
      /\ \A i \in DOMAIN s : s[i].hash = kept[i].hash /\ s[i].hash[2] \in {0, 1}
  <2>1. DOMAIN s = DOMAIN kept /\ \A i \in DOMAIN kept : s[i] = ShownTransaction(kept)[kept[i]]
    BY <1>1 DEF Mapped
  <2>2. \A tx \in ApiTransactions : ShownTransaction(kept)[tx].hash = tx.hash
    BY DEF ShownTransaction, txToRosettaTx
  <2>3. \A tx \in ApiTransactions : tx.hash[2] \in {0, 1}
    BY IdentityIs
  <2>4. \A i \in DOMAIN kept : kept[i] \in ApiTransactions
    BY <1>4, ElementsOf
  <2> QED BY <2>1, <2>2, <2>3, <2>4
<1>8. /\ DOMAIN t = DOMAIN refunds
      /\ \A i \in DOMAIN t : t[i].hash = refunds[i].hash /\ t[i].hash[2] \in {8, 9}
  <2>1. DOMAIN t = DOMAIN refunds /\ \A i \in DOMAIN refunds : t[i] = ShownRefund[refunds[i]]
    BY <1>1 DEF Mapped
  <2>2. \A receipt \in ApiReceipts : ShownRefund[receipt].hash = receipt.hash
    BY DEF ShownRefund
  <2>3. \A receipt \in ApiReceipts : receipt.hash[2] \in {8, 9}
    BY DEF ApiReceipts
  <2>4. \A i \in DOMAIN refunds : refunds[i] \in ApiReceipts
    BY <1>2, ElementsOf
  <2> QED BY <2>1, <2>2, <2>3, <2>4
<1>9. \A i, j \in DOMAIN all : all[i].hash = all[j].hash => i = j
  <2>1. /\ DOMAIN s = 1 .. Len(s) /\ DOMAIN t = 1 .. Len(t) /\ Len(s) \in Nat /\ Len(t) \in Nat
        /\ DOMAIN all = 1 .. Len(s) + Len(t)
        /\ \A i \in DOMAIN all : all[i] = IF i <= Len(s) THEN s[i] ELSE t[i - Len(s)]
    BY <1>2
  <2> SUFFICES ASSUME NEW i \in DOMAIN all, NEW j \in DOMAIN all, all[i].hash = all[j].hash
               PROVE  i = j
    OBVIOUS
  <2>2. CASE i <= Len(s) /\ j <= Len(s)
    BY <1>5, <1>7, <2>1, <2>2
  <2>3. CASE i > Len(s) /\ j > Len(s)
    <3>1. i - Len(s) \in DOMAIN t /\ j - Len(s) \in DOMAIN t
      BY <2>1, <2>3
    <3>2. all[i] = t[i - Len(s)] /\ all[j] = t[j - Len(s)]
      BY <2>1, <2>3
    <3>3. i - Len(s) = j - Len(s)
      BY <1>6, <1>8, <3>1, <3>2
    <3> QED BY <2>1, <3>3
  <2>4. ASSUME NEW m \in 1 .. Len(s), NEW n \in 1 .. Len(t)
        PROVE  s[m].hash # t[n].hash
    <3>1. s[m].hash[2] \in {0, 1}
      BY <1>7, <2>1
    <3>2. t[n].hash[2] \in {8, 9}
      BY <1>8, <2>1
    <3>3. PICK x, y : x = s[m].hash /\ y = t[n].hash
      OBVIOUS
    <3>4. x[2] # y[2]
      BY <3>1, <3>2, <3>3
    <3> QED BY <3>3, <3>4
  <2>5. CASE i <= Len(s) /\ j > Len(s)
    <3>1. i \in 1 .. Len(s) /\ j - Len(s) \in 1 .. Len(t)
      BY <2>1, <2>5
    <3> QED BY <2>1, <2>4, <2>5, <3>1
  <2>6. CASE i > Len(s) /\ j <= Len(s)
    <3>1. j \in 1 .. Len(s) /\ i - Len(s) \in 1 .. Len(t)
      BY <2>1, <2>6
    <3> QED BY <2>1, <2>4, <2>6, <3>1
  <2> QED BY <2>1, <2>2, <2>3, <2>5, <2>6
<1>10. Distinct(finished, HasOperations, HashOfShown)
  <2>1. DOMAIN finished = DOMAIN all /\ \A i \in DOMAIN all : finished[i] = Finished[all[i]]
    BY <1>1 DEF Mapped
  <2>2. \A r \in RosettaTransactions : Finished[r] \in RosettaTransactions
                                       /\ Finished[r].hash = r.hash
    BY FinishedIs DEF Finished
  <2>3. \A i \in DOMAIN all : HashOfShown[finished[i]] = all[i].hash
    BY <1>3, <2>1, <2>2, ElementsOf DEF HashOfShown
  <2> QED BY <1>9, <2>1, <2>3 DEF Distinct
<1>11. \A i, j \in DOMAIN served : HashOfShown[served[i]] = HashOfShown[served[j]] => i = j
  BY <1>3, <1>10, KeptOperationIs, ChosenDistinct
<1>12. \A i \in DOMAIN served : HashOfShown[served[i]] = served[i].hash
  BY <1>3, ElementsOf DEF HashOfShown
<1> QED BY <1>1, <1>11, <1>12

\* Every operation that is served has passed the filters.
LEMMA ServedOperationIs ==
  ASSUME NEW block \in Seq(ApiTransactions), NEW rs \in Seq(ApiReceipts),
         NEW r \in Range(transformBlockTxs(block, rs))
  PROVE  /\ r.operations # <<>>
         /\ r.operations \in Seq(Operations)
         /\ \A op \in Range(r.operations) :
              op \in Operations /\ op.value # 0 /\ IsAddressObserved(op.account)
<1>1. PICK all, finished, served :
        /\ all = RosettaTxs(block, rs) /\ finished = Mapped(Finished, all)
        /\ served = transformBlockTxs(block, rs)
  OBVIOUS
<1>2. /\ all \in Seq(RosettaTransactions) /\ finished \in Seq(RosettaTransactions)
      /\ served = Chosen(finished, HasOperations)
  BY <1>1, TransformedIs
<1>3. r \in Range(finished) /\ HasOperations[r]
  BY <1>1, <1>2, KeptOperationIs, ChosenRange
<1>4. r \in RosettaTransactions
  BY <1>2, <1>3, ElementsOf DEF Range
<1>5. r.operations # <<>> /\ r.operations \in Seq(Operations)
  BY <1>3, <1>4 DEF HasOperations, RosettaTransactions
<1>6. PICK i \in DOMAIN finished : r = finished[i]
  BY <1>3 DEF Range
<1>7. DOMAIN finished = DOMAIN all /\ finished[i] = Finished[all[i]]
  <2>1. DOMAIN finished = DOMAIN all
    BY <1>1 DEF Mapped
  <2> QED BY <1>1, <1>6, <2>1 DEF Mapped
<1>8. PICK source : source = all[i]
  OBVIOUS
<1>9. source \in RosettaTransactions
  BY <1>2, <1>7, <1>8, ElementsOf
<1>10. PICK ops : ops = source.operations
  OBVIOUS
<1>11. ops \in Seq(Operations)
  BY <1>9, <1>10 DEF RosettaTransactions
<1>12. r.operations = FinishedOperations(ops)
  BY <1>6, <1>7, <1>8, <1>9, <1>10 DEF Finished
<1>13. PICK kept : kept = Chosen(ops, KeptOperation)
  OBVIOUS
<1>14. kept \in Seq(Operations) /\ r.operations = Mapped(Defaulted, kept)
  BY <1>11, <1>12, <1>13, FinishedOperationsAre DEF FinishedOperations
<1>15. ASSUME NEW op \in Range(r.operations)
       PROVE  op \in Operations /\ op.value # 0 /\ IsAddressObserved(op.account)
  <2>1. PICK j \in DOMAIN kept : op = Defaulted[kept[j]]
    BY <1>14 DEF Range, Mapped
  <2>2. PICK x : x = kept[j]
    OBVIOUS
  <2>3. x \in Range(kept) /\ x \in Operations
    BY <1>14, <2>2, ElementsOf DEF Range
  <2>4. KeptOperation[x]
    BY <1>11, <1>13, <2>3, KeptOperationIs, ChosenRange
  <2>5. x.value # 0 /\ IsAddressObserved(x.account)
    BY <2>3, <2>4, Zenon DEF KeptOperation
  <2>6. op \in Operations /\ op.value = x.value /\ op.account = x.account
    <3>1. op = Defaulted[x]
      BY <2>1, <2>2
    <3>2. op \in Operations
      BY <2>3, <3>1, KeptOperationIs
    <3>3. op = IF x.status = "" THEN [x EXCEPT !.status = "Success"] ELSE x
      BY <2>3, <3>1 DEF Defaulted
    <3>4. op.value = x.value /\ op.account = x.account
      BY <2>3, <3>3 DEF Operations
    <3> QED BY <3>2, <3>4
  <2> QED BY <2>5, <2>6, Zenon
<1> QED BY <1>5, <1>15

\* BlockIsAcceptable, from the distinct hashes of what is kept.
LEMMA AcceptableWhen ==
  ASSUME txs \in Seq(ApiTransactions), receipts \in Seq(ApiReceipts),
         Distinct(txs, Keeps(HashesOfInvalid(txs)), HashOf),
         Distinct(receipts, IsGasRefund, HashOfReceipt)
  PROVE  BlockIsAcceptable
<1>1. PICK served : served = Served
  OBVIOUS
<1>2. served = transformBlockTxs(txs, receipts)
  BY <1>1, Zenon DEF Served
<1>3. \A i, j \in DOMAIN served : served[i].hash = served[j].hash => i = j
  BY <1>2, ServedHashes
<1>4. \A r \in Range(served) :
        /\ r.operations # <<>>
        /\ \A op \in Range(r.operations) :
             op \in Operations /\ op.value # 0 /\ IsAddressObserved(op.account)
  BY <1>2, ServedOperationIs
<1>5. \A op \in Operations : op.currency \in Currencies /\ AskedBalance(op) = Asked(op.currency)
  BY DEF Operations, AskedBalance, Asked
<1>6. \A op \in Operations : AskedBalance(op) \in ServedBalances
  BY <1>5, CurrenciesAreServed
<1>7. \A op, other \in Operations : AskedBalance(op) = AskedBalance(other) => op.currency = other.currency
  BY <1>5, CurrenciesAreServed
<1>8. \A op \in Range(ServedOperations) : op \in Operations
  <2>1. PICK ops : ops = ServedOperations
    OBVIOUS
  <2>2. ops = FlattenSeq(Mapped(OperationsOf, transformBlockTxs(txs, receipts)))
    BY <2>1, ServedOperationsAre
  <2>3. ops \in Seq(Operations)
    <3>1. served \in Seq(RosettaTransactions)
      BY <1>2, TransformedIs
    <3>2. PICK SS : SS = Seq(Operations)
      OBVIOUS
    <3>3. OperationsOf \in [RosettaTransactions -> SS]
      BY <3>2 DEF OperationsOf, RosettaTransactions
    <3>4. Mapped(OperationsOf, served) \in Seq(SS)
      BY <3>1, <3>3, MappedIs
    <3>5. PICK ss : ss = Mapped(OperationsOf, served)
      OBVIOUS
    <3>6. ss \in Seq(Seq(Operations)) /\ <<>> \in Seq(Operations)
      BY <3>2, <3>4, <3>5
    <3>7. FlattenSeq(ss) \in Seq(Operations)
      BY <3>6, FlattenAppend
    <3> QED BY <1>2, <2>2, <3>5, <3>7, Zenon
  <2> QED BY <2>1, <2>3, ElementsOf DEF Range
<1>9. \A i \in DOMAIN served : served[i] \in Range(served)
  BY DEF Range
<1>10. \A op, other \in Range(ServedOperations) :
         AskedBalance(op) = AskedBalance(other) => op.currency = other.currency
  BY <1>7, <1>8
<1>11. \A i \in DOMAIN served :
         /\ served[i].operations # <<>>
         /\ \A op \in Range(served[i].operations) :
              op.value # 0 /\ IsAddressObserved(op.account) /\ AskedBalance(op) \in ServedBalances
  BY <1>4, <1>6, <1>9
<1> QED BY <1>1, <1>3, <1>10, <1>11, Zenon DEF BlockIsAcceptable

-----------------------------------------------------------------------------
(* One execution after another *)

Here == {a \in Accounts : a.shard = 0}

HashesBetween(sequence, low, high) == \A x \in Range(sequence) : x.hash[1] \in low .. high

\* Executions whose hashes are between two bounds, and explain the changes they made.
IsReconciledBlock(low, high, block, rs, cs) ==
  /\ block \in Seq(ApiTransactions) /\ rs \in Seq(ApiReceipts) /\ cs \in Seq(Changes)
  /\ HashesBetween(block, low, high) /\ HashesBetween(rs, low, high)
  /\ Distinct(block, Keeps(HashesOfInvalid(block)), HashOf)
  /\ Distinct(rs, IsGasRefund, HashOfReceipt)
  /\ \A a \in Here : \A b \in ServedBalances : Explains(block, rs, cs, a, b)

\* A transaction and its original are told from those of other executions by their hashes.
LEMMA Apart ==
  ASSUME NEW tx \in ApiTransactions, NEW H,
         \A h \in H : h \in Nat \X {0, 1} /\ h[1] # tx.hash[1] /\ h[1] # 0
  PROVE  tx.hash \notin H /\ tx.original \notin H
<1>1. tx.hash \notin H
  OBVIOUS
<1>2. tx.original \in {<<>>, <<0, 0>>, <<tx.hash[1], 0>>}
  BY IdentityIs
<1>3. <<>> \notin H
  <2>1. <<>> \notin Nat \X {0, 1}
    OBVIOUS
  <2> QED BY <2>1
<1>4. <<0, 0>> \notin H
  OBVIOUS
<1>5. <<tx.hash[1], 0>> \notin H
  OBVIOUS
<1> QED BY <1>1, <1>2, <1>3, <1>4, <1>5

\* The hashes that the filters look for belong to the executions of the block.
LEMMA HashSets ==
  ASSUME NEW block \in Seq(ApiTransactions), NEW low, NEW high,
         HashesBetween(block, low, high)
  PROVE  /\ \A h \in HashesOfInvalid(block) : h \in Nat \X {0, 1} /\ h[1] \in low .. high
         /\ \A h \in Claims(block) : h \in Nat \X {0, 1} /\ h[1] \in low .. high
<1>1. \A tx \in Range(block) : tx.hash \in Nat \X {0, 1}
  BY ElementsOf, IdentityIs DEF Range
<1>2. \A h \in HashesOfInvalid(block) : \E tx \in Range(block) : h = tx.hash
  BY InvalidHashes
<1>3. \A h \in Claims(block) : \E tx \in Range(block) : h = tx.hash
  BY DEF Claims
<1> QED BY <1>1, <1>2, <1>3 DEF HashesBetween

\* The hashes that the filters look for, in two blocks together.
LEMMA HashSetsConcat ==
  ASSUME NEW block \in Seq(ApiTransactions), NEW new \in Seq(ApiTransactions)
  PROVE  /\ HashesOfInvalid(block \o new) = HashesOfInvalid(block) \cup HashesOfInvalid(new)
         /\ Claims(block \o new) = Claims(block) \cup Claims(new)
<1>1. PICK both : both = block \o new
  OBVIOUS
<1>2. Range(both) = Range(block) \cup Range(new)
  BY <1>1, RangeConcat
<1>3. HashesOfInvalid(both) = HashesOfInvalid(block) \cup HashesOfInvalid(new)
  BY <1>2, InvalidHashes
<1>4. Claims(both) = Claims(block) \cup Claims(new)
  BY <1>2 DEF Claims
<1> QED BY <1>1, <1>3, <1>4

\* What a transaction says does not change when hashes are added that are not its own.
LEMMA SameWeight ==
  ASSUME NEW tx \in ApiTransactions, NEW block, NEW other,
         tx.original \in HashesOfInvalid(block) <=> tx.original \in HashesOfInvalid(other),
         tx.hash \in HashesOfInvalid(block) <=> tx.hash \in HashesOfInvalid(other),
         tx.original \in Claims(block) <=> tx.original \in Claims(other),
         NEW a, NEW b
  PROVE  /\ Keeps(HashesOfInvalid(block))[tx] <=> Keeps(HashesOfInvalid(other))[tx]
         /\ TxWeight(block, a, b)[tx] = TxWeight(other, a, b)[tx]
<1>1. Keeps(HashesOfInvalid(block))[tx] <=> Keeps(HashesOfInvalid(other))[tx]
  BY DEF Keeps
<1>2. TxOperations(tx, block) = TxOperations(tx, other)
  BY SameClaims, Zenon
<1> QED BY <1>1, <1>2, Zenon DEF TxWeight

Agree(sequence, w, v) == \A x \in Range(sequence) : w[x] = v[x]

\* What each of two parts of a block says does not depend on the other.
LEMMA WeightsOfParts ==
  ASSUME NEW n \in Nat, NEW block \in Seq(ApiTransactions), NEW new \in Seq(ApiTransactions),
         NEW both, both = block \o new,
         HashesBetween(block, 1, n), HashesBetween(new, n + 1, n + 1),
         NEW a, NEW b
  PROVE  /\ \A tx \in Range(block) :
              Keeps(HashesOfInvalid(both))[tx] <=> Keeps(HashesOfInvalid(block))[tx]
         /\ \A tx \in Range(new) :
              Keeps(HashesOfInvalid(both))[tx] <=> Keeps(HashesOfInvalid(new))[tx]
         /\ Agree(block, TxWeight(both, a, b), TxWeight(block, a, b))
         /\ Agree(new, TxWeight(both, a, b), TxWeight(new, a, b))
<1>1. both = block \o new
  OBVIOUS
<1>2. /\ HashesOfInvalid(both) = HashesOfInvalid(block) \cup HashesOfInvalid(new)
      /\ Claims(both) = Claims(block) \cup Claims(new)
  BY <1>1, HashSetsConcat
<1>3. \A h \in HashesOfInvalid(block) \cup Claims(block) : h \in Nat \X {0, 1} /\ h[1] \in 1 .. n
  BY HashSets
<1>4. \A h \in HashesOfInvalid(new) \cup Claims(new) :
        h \in Nat \X {0, 1} /\ h[1] \in n + 1 .. n + 1
  BY HashSets
<1>5. ASSUME NEW tx \in Range(block)
      PROVE  /\ Keeps(HashesOfInvalid(both))[tx] <=> Keeps(HashesOfInvalid(block))[tx]
             /\ TxWeight(both, a, b)[tx] = TxWeight(block, a, b)[tx]
  <2>1. tx \in ApiTransactions /\ tx.hash[1] \in 1 .. n
    BY ElementsOf DEF Range, HashesBetween
  <2>2. \A h \in HashesOfInvalid(new) \cup Claims(new) :
          h \in Nat \X {0, 1} /\ h[1] # tx.hash[1] /\ h[1] # 0
    BY <1>4, <2>1
  <2>3. /\ tx.hash \notin HashesOfInvalid(new) \cup Claims(new)
        /\ tx.original \notin HashesOfInvalid(new) \cup Claims(new)
    BY <2>1, <2>2, Apart
  <2>4. /\ tx.original \in HashesOfInvalid(both) <=> tx.original \in HashesOfInvalid(block)
        /\ tx.hash \in HashesOfInvalid(both) <=> tx.hash \in HashesOfInvalid(block)
        /\ tx.original \in Claims(both) <=> tx.original \in Claims(block)
    BY <1>2, <2>3
  <2> QED BY <2>1, <2>4, SameWeight
<1>6. ASSUME NEW tx \in Range(new)
      PROVE  /\ Keeps(HashesOfInvalid(both))[tx] <=> Keeps(HashesOfInvalid(new))[tx]
             /\ TxWeight(both, a, b)[tx] = TxWeight(new, a, b)[tx]
  <2>1. tx \in ApiTransactions /\ tx.hash[1] \in n + 1 .. n + 1
    BY ElementsOf DEF Range, HashesBetween
  <2>2. \A h \in HashesOfInvalid(block) \cup Claims(block) :
          h \in Nat \X {0, 1} /\ h[1] # tx.hash[1] /\ h[1] # 0
    BY <1>3, <2>1
  <2>3. /\ tx.hash \notin HashesOfInvalid(block) \cup Claims(block)
        /\ tx.original \notin HashesOfInvalid(block) \cup Claims(block)
    BY <2>1, <2>2, Apart
  <2>4. /\ tx.original \in HashesOfInvalid(both) <=> tx.original \in HashesOfInvalid(new)
        /\ tx.hash \in HashesOfInvalid(both) <=> tx.hash \in HashesOfInvalid(new)
        /\ tx.original \in Claims(both) <=> tx.original \in Claims(new)
    BY <1>2, <2>3
  <2> QED BY <2>1, <2>4, SameWeight, ZenonT(40)
<1> QED BY <1>5, <1>6, Zenon DEF Agree

\* Two sequences without repetitions, and no element in both.
LEMMA DistinctConcat ==
  ASSUME NEW S, NEW s \in Seq(S), NEW t \in Seq(S), NEW p, NEW q, NEW r, NEW key,
         Distinct(s, p, key), Distinct(t, q, key),
         \A x \in Range(s) : r[x] <=> p[x],
         \A x \in Range(t) : r[x] <=> q[x],
         \A x \in Range(s) : \A y \in Range(t) : key[x] # key[y]
  PROVE  Distinct(s \o t, r, key)
<1>1. PICK all : all = s \o t
  OBVIOUS
<1>2. /\ DOMAIN s = 1 .. Len(s) /\ DOMAIN t = 1 .. Len(t) /\ Len(s) \in Nat /\ Len(t) \in Nat
      /\ DOMAIN all = 1 .. Len(s) + Len(t)
      /\ \A i \in DOMAIN all : all[i] = IF i <= Len(s) THEN s[i] ELSE t[i - Len(s)]
  BY <1>1
<1>3. /\ \A i \in DOMAIN s : s[i] \in Range(s)
      /\ \A i \in DOMAIN t : t[i] \in Range(t)
  BY DEF Range
<1>4. SUFFICES ASSUME NEW i \in DOMAIN all, NEW j \in DOMAIN all,
                      r[all[i]], r[all[j]], key[all[i]] = key[all[j]]
               PROVE  i = j
  BY <1>1 DEF Distinct
<1>5. CASE i <= Len(s) /\ j <= Len(s)
  <2>1. /\ i \in DOMAIN s /\ j \in DOMAIN s /\ all[i] = s[i] /\ all[j] = s[j]
    BY <1>2, <1>5
  <2>2. p[s[i]] /\ p[s[j]]
    BY <1>3, <1>4, <2>1
  <2> QED BY <1>4, <2>1, <2>2 DEF Distinct
<1>6. CASE i > Len(s) /\ j > Len(s)
  <2>1. PICK k, m : k = i - Len(s) /\ m = j - Len(s)
    OBVIOUS
  <2>2. k \in DOMAIN t /\ m \in DOMAIN t /\ all[i] = t[k] /\ all[j] = t[m]
    BY <1>2, <1>6, <2>1
  <2>3. q[t[k]] /\ q[t[m]]
    BY <1>3, <1>4, <2>2
  <2>4. k = m
    BY <1>4, <2>2, <2>3 DEF Distinct
  <2> QED BY <1>2, <2>1, <2>4
<1>7. CASE i <= Len(s) /\ j > Len(s)
  <2>1. i \in DOMAIN s /\ j - Len(s) \in DOMAIN t /\ all[i] = s[i] /\ all[j] = t[j - Len(s)]
    BY <1>2, <1>7
  <2> QED BY <1>3, <1>4, <2>1
<1>8. CASE i > Len(s) /\ j <= Len(s)
  <2>1. j \in DOMAIN s /\ i - Len(s) \in DOMAIN t /\ all[j] = s[j] /\ all[i] = t[i - Len(s)]
    BY <1>2, <1>8
  <2> QED BY <1>3, <1>4, <2>1
<1> QED BY <1>2, <1>5, <1>6, <1>7, <1>8

\* A block is explained when its executions are, for their hashes tell them apart.
LEMMA ExplainsBoth ==
  ASSUME NEW n \in Nat, NEW block, NEW new, NEW rs, NEW newRs, NEW cs, NEW newCs,
         IsReconciledBlock(1, n, block, rs, cs),
         IsReconciledBlock(n + 1, n + 1, new, newRs, newCs),
         NEW a \in Here, NEW b \in ServedBalances
  PROVE  Explains(block \o new, rs \o newRs, cs \o newCs, a, b)
<1>1. /\ block \in Seq(ApiTransactions) /\ rs \in Seq(ApiReceipts) /\ cs \in Seq(Changes)
      /\ new \in Seq(ApiTransactions) /\ newRs \in Seq(ApiReceipts) /\ newCs \in Seq(Changes)
  BY DEF IsReconciledBlock
<1>2. HashesBetween(block, 1, n) /\ HashesBetween(new, n + 1, n + 1)
  BY DEF IsReconciledBlock
<1>3. Explains(block, rs, cs, a, b) /\ Explains(new, newRs, newCs, a, b)
  BY Zenon DEF IsReconciledBlock
<1>4. PICK both, w, v, u, rw, cw :
        /\ both = block \o new /\ w = TxWeight(both, a, b)
        /\ v = TxWeight(block, a, b) /\ u = TxWeight(new, a, b)
        /\ rw = ReceiptWeight(a, b) /\ cw = ChangeWeight(a, b)
  OBVIOUS
<1>5. /\ w \in [ApiTransactions -> Int] /\ v \in [ApiTransactions -> Int]
      /\ u \in [ApiTransactions -> Int] /\ rw \in [ApiReceipts -> Int]
      /\ cw \in [Changes -> Int]
  BY <1>4, WeightsAre, ChangeWeightIs
<1>6. SumOf(both, w) = SumOf(block, w) + SumOf(new, w)
  BY <1>1, <1>4, <1>5, SumConcat, ZenonT(40)
<1>7. SumOf(block, w) = SumOf(block, v) /\ SumOf(new, w) = SumOf(new, u)
  <2>1. /\ \A tx \in Range(block) : w[tx] = v[tx]
        /\ \A tx \in Range(new) : w[tx] = u[tx]
    <3>1. /\ Agree(block, TxWeight(both, a, b), TxWeight(block, a, b))
          /\ Agree(new, TxWeight(both, a, b), TxWeight(new, a, b))
      BY <1>1, <1>2, <1>4, WeightsOfParts
    <3> QED BY <1>4, <3>1, Zenon DEF Agree
  <2>2. SumOf(block, w) = SumOf(block, v)
    BY <1>1, <2>1, SumSame
  <2>3. SumOf(new, w) = SumOf(new, u)
    BY <1>1, <2>1, SumSame
  <2> QED BY <2>2, <2>3
<1>8. SumOf(rs \o newRs, rw) = SumOf(rs, rw) + SumOf(newRs, rw)
  BY <1>1, <1>5, SumConcat
<1>9. SumOf(cs \o newCs, cw) = SumOf(cs, cw) + SumOf(newCs, cw)
  BY <1>1, <1>5, SumConcat
<1>10. /\ SumOf(block, v) \in Int /\ SumOf(new, u) \in Int
       /\ SumOf(rs, rw) \in Int /\ SumOf(newRs, rw) \in Int
       /\ SumOf(cs, cw) \in Int /\ SumOf(newCs, cw) \in Int
  BY <1>1, <1>5, SumInt
<1>11. /\ SumOf(block, v) + SumOf(rs, rw) = SumOf(cs, cw)
       /\ SumOf(new, u) + SumOf(newRs, rw) = SumOf(newCs, cw)
  BY <1>3, <1>4, Zenon DEF Explains
<1>12. SumOf(both, w) + SumOf(rs \o newRs, rw) = SumOf(cs \o newCs, cw)
  <2>1. (SumOf(block, v) + SumOf(new, u)) + (SumOf(rs, rw) + SumOf(newRs, rw))
        = SumOf(cs, cw) + SumOf(newCs, cw)
    BY <1>10, <1>11
  <2> QED BY <1>6, <1>7, <1>8, <1>9, <2>1, Zenon
<1> QED BY <1>4, <1>12, Zenon DEF Explains

\* The next execution leaves the others as they are.
LEMMA NextExecution ==
  ASSUME NEW n \in Nat, NEW block, NEW new, NEW rs, NEW newRs, NEW cs, NEW newCs,
         IsReconciledBlock(1, n, block, rs, cs),
         IsReconciledBlock(n + 1, n + 1, new, newRs, newCs)
  PROVE  IsReconciledBlock(1, n + 1, block \o new, rs \o newRs, cs \o newCs)
<1>1. /\ block \in Seq(ApiTransactions) /\ rs \in Seq(ApiReceipts) /\ cs \in Seq(Changes)
      /\ new \in Seq(ApiTransactions) /\ newRs \in Seq(ApiReceipts) /\ newCs \in Seq(Changes)
  BY DEF IsReconciledBlock
<1>2. /\ HashesBetween(block, 1, n) /\ HashesBetween(new, n + 1, n + 1)
      /\ HashesBetween(rs, 1, n) /\ HashesBetween(newRs, n + 1, n + 1)
  BY DEF IsReconciledBlock
<1>3. PICK all, allRs, allCs : all = block \o new /\ allRs = rs \o newRs /\ allCs = cs \o newCs
  OBVIOUS
<1>4. all \in Seq(ApiTransactions) /\ allRs \in Seq(ApiReceipts) /\ allCs \in Seq(Changes)
  BY <1>1, <1>3
<1>5. Range(all) = Range(block) \cup Range(new) /\ Range(allRs) = Range(rs) \cup Range(newRs)
  BY <1>1, <1>3, RangeConcat
<1>6. HashesBetween(all, 1, n + 1) /\ HashesBetween(allRs, 1, n + 1)
  <2>1. \A m \in 1 .. n : m \in 1 .. n + 1
    OBVIOUS
  <2>2. \A m \in n + 1 .. n + 1 : m \in 1 .. n + 1
    OBVIOUS
  <2> QED BY <1>2, <1>5, <2>1, <2>2 DEF HashesBetween
<1>7. \A x \in 1 .. n : \A y \in n + 1 .. n + 1 : x # y
  OBVIOUS
<1>8. Distinct(all, Keeps(HashesOfInvalid(all)), HashOf)
  <2>1. PICK p, q, r : /\ p = Keeps(HashesOfInvalid(block)) /\ q = Keeps(HashesOfInvalid(new))
                       /\ r = Keeps(HashesOfInvalid(all))
    OBVIOUS
  <2>2. Distinct(block, p, HashOf) /\ Distinct(new, q, HashOf)
    BY <2>1, Zenon DEF IsReconciledBlock
  <2>3. /\ \A tx \in Range(block) : r[tx] <=> p[tx]
        /\ \A tx \in Range(new) : r[tx] <=> q[tx]
    BY <1>1, <1>2, <1>3, <2>1, WeightsOfParts
  <2>4. \A tx \in Range(block) : \A other \in Range(new) : HashOf[tx] # HashOf[other]
    <3>1. \A tx \in Range(block) \cup Range(new) : tx \in ApiTransactions
      BY <1>1, ElementsOf DEF Range
    <3>2. \A tx \in ApiTransactions : HashOf[tx] = tx.hash
      BY DEF HashOf
    <3>3. \A tx \in Range(block) : \A other \in Range(new) : tx.hash[1] # other.hash[1]
      BY <1>2, <1>7 DEF HashesBetween
    <3>4. \A tx \in Range(block) : \A other \in Range(new) : tx.hash # other.hash
      BY <3>3
    <3> QED BY <3>1, <3>2, <3>4
  <2> QED BY <1>1, <1>3, <2>1, <2>2, <2>3, <2>4, DistinctConcat
<1>9. Distinct(allRs, IsGasRefund, HashOfReceipt)
  <2>1. Distinct(rs, IsGasRefund, HashOfReceipt) /\ Distinct(newRs, IsGasRefund, HashOfReceipt)
    BY Zenon DEF IsReconciledBlock
  <2>2. \A receipt \in Range(rs) : \A other \in Range(newRs) :
          HashOfReceipt[receipt] # HashOfReceipt[other]
    <3>1. \A receipt \in Range(rs) \cup Range(newRs) : receipt \in ApiReceipts
      BY <1>1, ElementsOf DEF Range
    <3>2. \A receipt \in ApiReceipts : HashOfReceipt[receipt] = receipt.hash
      BY DEF HashOfReceipt
    <3>3. \A receipt \in Range(rs) : \A other \in Range(newRs) : receipt.hash[1] # other.hash[1]
      BY <1>2, <1>7 DEF HashesBetween
    <3>4. \A receipt \in Range(rs) : \A other \in Range(newRs) : receipt.hash # other.hash
      BY <3>3
    <3> QED BY <3>1, <3>2, <3>4
  <2> QED BY <1>1, <1>3, <2>1, <2>2, DistinctConcat
<1>10. \A a \in Here : \A b \in ServedBalances : Explains(all, allRs, allCs, a, b)
  BY <1>3, ExplainsBoth
<1> QED BY <1>3, <1>4, <1>6, <1>8, <1>9, <1>10, Zenon DEF IsReconciledBlock

\* The inductive invariant: every execution so far is explained, at every account of the
\* shard, whatever is observed of it.
IInv ==
  /\ config \in Configs /\ epoch \in Epochs /\ executed \in Nat
  /\ IsReconciledBlock(1, executed, txs, receipts, changes)

\* What each action has to show of the transactions, receipts and changes that it adds.
LEMMA ExecutionKeepsIInv ==
  ASSUME IInv, NEW newTxs, NEW newReceipts, NEW newChanges,
         Execute(newTxs, newReceipts, newChanges),
         IsReconciledBlock(executed + 1, executed + 1, newTxs, newReceipts, newChanges)
  PROVE  IInv'
<1>1. /\ config' = config /\ epoch' = epoch /\ executed' = executed + 1
      /\ txs' = txs \o newTxs /\ receipts' = receipts \o newReceipts
      /\ changes' = changes \o newChanges
  BY DEF Execute
<1>2. /\ config \in Configs /\ epoch \in Epochs /\ executed \in Nat
      /\ IsReconciledBlock(1, executed, txs, receipts, changes)
  BY DEF IInv
<1>3. IsReconciledBlock(1, executed + 1, txs \o newTxs, receipts \o newReceipts,
                        changes \o newChanges)
  BY <1>2, NextExecution
<1>4. executed + 1 \in Nat
  BY <1>2
<1> QED BY <1>1, <1>2, <1>3, <1>4, Zenon DEF IInv

\* The empty block is explained.
LEMMA InitIInv ==
  Init => IInv
<1> SUFFICES ASSUME Init PROVE IInv
  OBVIOUS
<1>1. /\ config \in Configs /\ epoch \in Epochs /\ executed = 0
      /\ txs = <<>> /\ receipts = <<>> /\ changes = <<>>
  BY DEF Init
<1>2. /\ <<>> \in Seq(ApiTransactions) /\ <<>> \in Seq(ApiReceipts) /\ <<>> \in Seq(Changes)
      /\ Range(<<>>) = {}
  BY DEF Range
<1>3. /\ \A p, key : Distinct(<<>>, p, key)
      /\ HashesBetween(<<>>, 1, 0)
  BY <1>2 DEF Distinct, HashesBetween
<1>4. \A a \in Here : \A b \in ServedBalances : Explains(<<>>, <<>>, <<>>, a, b)
  <2>1. \A w : SumOf(<<>>, w) = 0
    BY SumEmpty
  <2>2. 0 + 0 = 0
    OBVIOUS
  <2> QED BY <2>1, <2>2, Zenon DEF Explains
<1>5. IsReconciledBlock(1, 0, <<>>, <<>>, <<>>)
  BY <1>2, <1>3, <1>4, Zenon DEF IsReconciledBlock
<1> QED BY <1>1, <1>5 DEF IInv

\* The three properties follow from the inductive invariant.
LEMMA IInvImplies ==
  IInv => BlockIsServed /\ Reconciled /\ BlockIsAcceptable
<1> SUFFICES ASSUME IInv PROVE BlockIsServed /\ Reconciled /\ BlockIsAcceptable
  OBVIOUS
<1>1. config \in Configs /\ IsReconciledBlock(1, executed, txs, receipts, changes)
  BY DEF IInv
<1>2. txs \in Seq(ApiTransactions) /\ receipts \in Seq(ApiReceipts) /\ changes \in Seq(Changes)
  BY <1>1 DEF IsReconciledBlock
<1>3. BlockIsServed
  BY <1>2, BlockCanBeServed DEF BlockIsServed
<1>4. \A a \in Accounts : IsAddressObserved(a) => a \in Here
  BY <1>1, BlockAssumption DEF IsAddressObserved, Here
<1>5. \A a \in Here : \A b \in ServedBalances : Explains(txs, receipts, changes, a, b)
  BY <1>1, Zenon DEF IsReconciledBlock
<1>6. Reconciled
  BY <1>2, <1>4, <1>5, ReconciledWhen
<1>7. /\ Distinct(txs, Keeps(HashesOfInvalid(txs)), HashOf)
      /\ Distinct(receipts, IsGasRefund, HashOfReceipt)
  BY <1>1, Zenon DEF IsReconciledBlock
<1>8. BlockIsAcceptable
  BY <1>2, <1>7, AcceptableWhen
<1> QED BY <1>3, <1>6, <1>8

-----------------------------------------------------------------------------
(* Blocks of one execution *)

ReceiptsAre(n, rs) ==
  rs \in Seq(ApiReceipts) /\ HashesBetween(rs, n, n) /\ Distinct(rs, IsGasRefund, HashOfReceipt)

\* No receipts are those of any execution.
LEMMA NoReceipts ==
  ASSUME NEW n
  PROVE  ReceiptsAre(n, <<>>)
BY DEF ReceiptsAre, HashesBetween, Distinct, Range

\* `said' is what the transactions of an execution say of a balance.
Balanced(said, rs, cs, a, b) ==
  said + SumOf(rs, ReceiptWeight(a, b)) = SumOf(cs, ChangeWeight(a, b))

\* The sum over two transactions.
LEMMA SumOfTransactions ==
  ASSUME NEW w \in [ApiTransactions -> Int], NEW x \in ApiTransactions, NEW y \in ApiTransactions
  PROVE  SumOf(<<x, y>>, w) = w[x] + w[y]
BY SumFew

\* An execution of one transaction, possibly with receipts.
LEMMA OneTransaction ==
  ASSUME NEW n \in Nat, NEW x \in ApiTransactions, x.hash[1] = n,
         NEW rs, ReceiptsAre(n, rs), NEW cs \in Seq(Changes),
         \A a \in Here : \A b \in ServedBalances :
           Balanced(Said(TxOperations(x, <<x>>), a, b), rs, cs, a, b)
  PROVE  IsReconciledBlock(n, n, <<x>>, rs, cs)
<1>1. PICK block : block = <<x>>
  OBVIOUS
<1>2. block \in Seq(ApiTransactions) /\ Range(block) = {x} /\ DOMAIN block = {1}
  BY <1>1 DEF Range
<1>3. HashesBetween(block, n, n)
  BY <1>2 DEF HashesBetween
<1>4. Keeps(HashesOfInvalid(block))[x]
  <2>1. x.type # "invalid" => HashesOfInvalid(block) = {}
    BY <1>2, InvalidHashes
  <2>2. x.type = "invalid" => x.type # "unsigned" /\ ~isRelayedV1Transaction(x)
    BY DEF isRelayedV1Transaction
  <2> QED BY <2>1, <2>2 DEF Keeps
<1>5. Distinct(block, Keeps(HashesOfInvalid(block)), HashOf)
  BY <1>2 DEF Distinct
<1>6. ASSUME NEW a \in Here, NEW b \in ServedBalances
      PROVE  Explains(block, rs, cs, a, b)
  <2>1. TxWeight(block, a, b)[x] = Said(TxOperations(x, block), a, b)
    BY <1>4 DEF TxWeight
  <2>2. PICK w : w = TxWeight(block, a, b)
    OBVIOUS
  <2>3. w \in [ApiTransactions -> Int]
    BY <2>2, WeightsAre
  <2>4. SumOf(<<x>>, w) = w[x]
    BY <2>3, SumFew, ZenonT(40)
  <2>5. Balanced(Said(TxOperations(x, <<x>>), a, b), rs, cs, a, b)
    OBVIOUS
  <2> QED BY <1>1, <2>1, <2>2, <2>4, <2>5, Zenon DEF Balanced, Explains
<1> QED BY <1>1, <1>2, <1>3, <1>5, <1>6, Zenon DEF ReceiptsAre, IsReconciledBlock

\* An execution of two transactions, none of them invalid.
LEMMA TwoTransactions ==
  ASSUME NEW n \in Nat, NEW x \in ApiTransactions, NEW y \in ApiTransactions,
         x.hash[1] = n, y.hash[1] = n, x.hash # y.hash,
         x.type # "invalid", y.type # "invalid",
         NEW rs, ReceiptsAre(n, rs), NEW cs \in Seq(Changes),
         \A a \in Here : \A b \in ServedBalances :
           Balanced(Said(TxOperations(x, <<x, y>>), a, b) + Said(TxOperations(y, <<x, y>>), a, b),
                    rs, cs, a, b)
  PROVE  IsReconciledBlock(n, n, <<x, y>>, rs, cs)
<1>1. PICK block : block = <<x, y>>
  OBVIOUS
<1>2. /\ block \in Seq(ApiTransactions) /\ Range(block) = {x, y}
      /\ DOMAIN block = {1, 2} /\ block[1] = x /\ block[2] = y
  BY <1>1 DEF Range
<1>3. HashesBetween(block, n, n)
  BY <1>2 DEF HashesBetween
<1>4. Keeps(HashesOfInvalid(block))[x] /\ Keeps(HashesOfInvalid(block))[y]
  <2>1. HashesOfInvalid(block) = {}
    BY <1>2, InvalidHashes
  <2> QED BY <2>1 DEF Keeps
<1>5. Distinct(block, Keeps(HashesOfInvalid(block)), HashOf)
  <2>1. HashOf[x] # HashOf[y]
    BY DEF HashOf
  <2> QED BY <1>2, <2>1 DEF Distinct
<1>6. ASSUME NEW a \in Here, NEW b \in ServedBalances
      PROVE  Explains(block, rs, cs, a, b)
  <2>1. /\ TxWeight(block, a, b)[x] = Said(TxOperations(x, block), a, b)
        /\ TxWeight(block, a, b)[y] = Said(TxOperations(y, block), a, b)
    BY <1>4 DEF TxWeight
  <2>2. PICK w : w = TxWeight(block, a, b)
    OBVIOUS
  <2>3. w \in [ApiTransactions -> Int]
    BY <2>2, WeightsAre
  <2>4. SumOf(<<x, y>>, w) = w[x] + w[y]
    BY <2>3, SumOfTransactions
  <2>5. Balanced(Said(TxOperations(x, <<x, y>>), a, b) + Said(TxOperations(y, <<x, y>>), a, b),
                 rs, cs, a, b)
    OBVIOUS
  <2> QED BY <1>1, <2>1, <2>2, <2>4, <2>5, Zenon DEF Balanced, Explains
<1> QED BY <1>1, <1>2, <1>3, <1>5, <1>6, Zenon DEF ReceiptsAre, IsReconciledBlock

\* An invalid transaction, and one that is left out because of it.
LEMMA OneOfTwoTransactions ==
  ASSUME NEW n \in Nat, NEW x \in ApiTransactions, NEW y \in ApiTransactions,
         x.hash[1] = n, y.hash[1] = n, y.type = "invalid",
         (x.type = "unsigned" /\ x.original = y.hash)
           \/ (isRelayedV1Transaction(x) /\ x.hash = y.hash),
         NEW block \in {<<x, y>>, <<y, x>>}, NEW rs, ReceiptsAre(n, rs), NEW cs \in Seq(Changes),
         \A a \in Here : \A b \in ServedBalances :
           Balanced(Said(TxOperations(y, block), a, b), rs, cs, a, b)
  PROVE  IsReconciledBlock(n, n, block, rs, cs)
<1>1. /\ block \in Seq(ApiTransactions) /\ Range(block) = {x, y} /\ DOMAIN block = {1, 2}
      /\ (block[1] = x /\ block[2] = y) \/ (block[1] = y /\ block[2] = x)
  <2>1. CASE block = <<x, y>>
    BY <2>1 DEF Range
  <2>2. CASE block = <<y, x>>
    BY <2>2 DEF Range
  <2> QED BY <2>1, <2>2
<1>2. HashesBetween(block, n, n)
  BY <1>1 DEF HashesBetween
<1>3. ~Keeps(HashesOfInvalid(block))[x] /\ Keeps(HashesOfInvalid(block))[y]
  <2>1. y.hash \in HashesOfInvalid(block)
    BY <1>1, InvalidHashes
  <2>2. y.type # "unsigned" /\ ~isRelayedV1Transaction(y)
    BY DEF isRelayedV1Transaction
  <2> QED BY <2>1, <2>2 DEF Keeps
<1>4. Distinct(block, Keeps(HashesOfInvalid(block)), HashOf)
  BY <1>1, <1>3 DEF Distinct
<1>5. ASSUME NEW a \in Here, NEW b \in ServedBalances
      PROVE  Explains(block, rs, cs, a, b)
  <2>1. /\ TxWeight(block, a, b)[x] = 0
        /\ TxWeight(block, a, b)[y] = Said(TxOperations(y, block), a, b)
    BY <1>3 DEF TxWeight
  <2>2. PICK w : w = TxWeight(block, a, b)
    OBVIOUS
  <2>3. w \in [ApiTransactions -> Int]
    BY <2>2, WeightsAre
  <2>4. SumOf(<<x, y>>, w) = w[x] + w[y] /\ SumOf(<<y, x>>, w) = w[y] + w[x]
    BY <2>3, SumOfTransactions
  <2>5. w[x] = 0 /\ w[y] \in Int
    BY <2>1, <2>2, <2>3
  <2>6. SumOf(block, w) = w[y]
    <3>1. SumOf(<<x, y>>, w) = w[y] /\ SumOf(<<y, x>>, w) = w[y]
      BY <2>4, <2>5
    <3> QED BY <3>1
  <2>7. Balanced(Said(TxOperations(y, block), a, b), rs, cs, a, b)
    OBVIOUS
  <2> QED BY <2>1, <2>2, <2>6, <2>7, Zenon DEF Balanced, Explains
<1> QED BY <1>1, <1>2, <1>4, <1>5, Zenon DEF ReceiptsAre, IsReconciledBlock

\* What one change does to a balance.
LEMMA ChangeIs ==
  ASSUME NEW account \in Accounts, NEW balance \in Balances, NEW value \in Int, NEW a, NEW b
  PROVE  /\ Change(account, balance, value) \in Changes
         /\ ChangeWeight(a, b)[Change(account, balance, value)]
              = Share(account, value, balance, a, b)
<1>1. Change(account, balance, value) \in Changes
  BY DEF Change, Changes
<1> QED BY <1>1 DEF ChangeWeight, Change

\* The same, for the sequence of this change only.
LEMMA OneChange ==
  ASSUME NEW account \in Accounts, NEW balance \in Balances, NEW value \in Int, NEW a, NEW b
  PROVE  /\ << Change(account, balance, value) >> \in Seq(Changes)
         /\ SumOf(<< Change(account, balance, value) >>, ChangeWeight(a, b))
              = Share(account, value, balance, a, b)
<1>1. PICK c, w : c = Change(account, balance, value) /\ w = ChangeWeight(a, b)
  OBVIOUS
<1>2. c \in Changes /\ w[c] = Share(account, value, balance, a, b) /\ w \in [Changes -> Int]
  BY <1>1, ChangeIs, ChangeWeightIs
<1>3. SumOf(<<c>>, w) = w[c]
  BY <1>2, SumFew
<1>4. <<c>> \in Seq(Changes)
  BY <1>2
<1> QED BY <1>1, <1>2, <1>3, <1>4, Zenon

\* What a movement does to a balance.
LEMMA MovedIs ==
  ASSUME NEW from \in Accounts, NEW to \in Accounts, NEW value \in Int,
         NEW balance \in Balances, NEW a, NEW b
  PROVE  /\ Moved(from, to, value, balance) \in Seq(Changes)
         /\ SumOf(Moved(from, to, value, balance), ChangeWeight(a, b))
              = Flow(from, to, value, balance, a, b)
<1>1. PICK c, d, w : /\ c = Change(from, balance, -value) /\ d = Change(to, balance, value)
                     /\ w = ChangeWeight(a, b)
  OBVIOUS
<1>2. -value \in Int
  OBVIOUS
<1>3. c \in Changes /\ w[c] = Share(from, -value, balance, a, b)
  BY <1>1, <1>2, ChangeIs
<1>4. d \in Changes /\ w[d] = Share(to, value, balance, a, b)
  BY <1>1, ChangeIs
<1>5. w \in [Changes -> Int]
  BY <1>1, ChangeWeightIs
<1>6. SumOf(<<c, d>>, w) = w[c] + w[d]
  BY <1>3, <1>4, <1>5, SumFew
<1>7. <<c, d>> \in Seq(Changes)
  BY <1>3, <1>4
<1> QED BY <1>1, <1>3, <1>4, <1>6, <1>7, Zenon DEF Moved, Flow

\* What two sequences of changes do to a balance.
LEMMA ChangesConcat ==
  ASSUME NEW s \in Seq(Changes), NEW t \in Seq(Changes), NEW a, NEW b
  PROVE  /\ s \o t \in Seq(Changes)
         /\ SumOf(s \o t, ChangeWeight(a, b))
              = SumOf(s, ChangeWeight(a, b)) + SumOf(t, ChangeWeight(a, b))
<1>1. ChangeWeight(a, b) \in [Changes -> Int]
  BY ChangeWeightIs
<1>2. s \o t \in Seq(Changes)
  OBVIOUS
<1> QED BY <1>1, <1>2, SumConcat

\* What a fee does to a balance.
LEMMA PaidIs ==
  ASSUME NEW account \in Accounts, NEW fee \in Int, NEW a, NEW b
  PROVE  /\ Paid(account, fee) \in Seq(Changes)
         /\ SumOf(Paid(account, fee), ChangeWeight(a, b))
              = Share(account, -fee, NativeBalance, a, b)
<1>1. -fee \in Int /\ NativeBalance \in Balances
  BY DEF Balances
<1> QED BY <1>1, OneChange DEF Paid

\* A movement, and the fee that is paid for it.
LEMMA MovedAndPaid ==
  ASSUME NEW value \in Int, NEW fee \in Int, NEW from \in Accounts, NEW to \in Accounts,
         NEW payer \in Accounts, NEW a, NEW b
  PROVE  /\ Moved(from, to, value, NativeBalance) \o Paid(payer, fee) \in Seq(Changes)
         /\ SumOf(Moved(from, to, value, NativeBalance) \o Paid(payer, fee), ChangeWeight(a, b))
              = Flow(from, to, value, NativeBalance, a, b)
                + Share(payer, -fee, NativeBalance, a, b)
<1>1. NativeBalance \in Balances
  BY DEF Balances
<1>2. PICK s, t : s = Moved(from, to, value, NativeBalance) /\ t = Paid(payer, fee)
  OBVIOUS
<1>3. /\ s \in Seq(Changes)
      /\ SumOf(s, ChangeWeight(a, b)) = Flow(from, to, value, NativeBalance, a, b)
  BY <1>1, <1>2, MovedIs
<1>4. /\ t \in Seq(Changes)
      /\ SumOf(t, ChangeWeight(a, b)) = Share(payer, -fee, NativeBalance, a, b)
  BY <1>2, PaidIs
<1>5. /\ s \o t \in Seq(Changes)
      /\ SumOf(s \o t, ChangeWeight(a, b))
           = SumOf(s, ChangeWeight(a, b)) + SumOf(t, ChangeWeight(a, b))
  BY <1>3, <1>4, ChangesConcat
<1> QED BY <1>2, <1>3, <1>4, <1>5, Zenon

-----------------------------------------------------------------------------
(* What the transactions of an execution say *)

\* A normal transaction: its value, its fee, the value of its inner one, its events.
LEMMA NormalTransactionSays ==
  ASSUME NEW tx \in ApiTransactions, tx.type = "normal", NEW block, NEW a, NEW b
  PROVE  Said(TxOperations(tx, block), a, b)
           = (IF TransfersValue(tx)
              THEN Flow(tx.sender, tx.receiver, tx.value, NativeBalance, a, b) ELSE 0)
             + Share(decideFeePayer(tx), -tx.fee, NativeBalance, a, b)
             + (IF MovesInnerValue(tx)
                THEN Flow(tx.inner.sender, tx.inner.receiver, tx.inner.value,
                          NativeBalance, a, b) ELSE 0)
             + Said(EventOperations(tx), a, b)
<1>1. MainOperations(tx, block) = normalTxToRosetta(tx)
  BY MainOperationsAre
<1>2. Said(TxOperations(tx, block), a, b)
        = Said(MainOperations(tx, block), a, b) + Said(EventOperations(tx), a, b)
  BY TxOperationsAre
<1> DEFINE said == Said(normalTxToRosetta(tx), a, b)
<1>3. said
        = (IF TransfersValue(tx)
           THEN Flow(tx.sender, tx.receiver, tx.value, NativeBalance, a, b) ELSE 0)
          + Share(decideFeePayer(tx), -tx.fee, NativeBalance, a, b)
          + (IF MovesInnerValue(tx)
             THEN Flow(tx.inner.sender, tx.inner.receiver, tx.inner.value,
                       NativeBalance, a, b) ELSE 0)
  BY NormalIs
<1>4. Said(TxOperations(tx, block), a, b) = said + Said(EventOperations(tx), a, b)
  BY <1>1, <1>2, Zenon
<1> HIDE DEF said
<1> QED BY <1>3, <1>4, Zenon

\* The values of a transaction are integers.
LEMMA ValuesAre ==
  ASSUME NEW tx \in ApiTransactions
  PROVE  tx.value \in Int /\ -tx.fee \in Int
<1>1. tx.value \in Int /\ tx.fee \in Int
  BY ApiTransactionIs
<1>2. \A fee \in Int : -fee \in Int
  OBVIOUS
<1> QED BY <1>1, <1>2, Zenon

\* Movements of nothing, to oneself, and there and back again change nothing.
LEMMA FlowOfNothing ==
  ASSUME NEW from, NEW to, NEW balance, NEW a, NEW b
  PROVE  /\ Flow(from, to, 0, balance, a, b) = 0
         /\ \A value \in Int : Flow(from, from, value, balance, a, b) = 0
         /\ \A value \in Int : Flow(from, to, value, balance, a, b) + Flow(to, from, value, balance, a, b) = 0
<1>1. Flow(from, to, 0, balance, a, b) = 0
  <2> DEFINE Minus(v) == -v
  <2>1. \A v \in Int : Minus(v) \in Int /\ Minus(v) + v = 0
    OBVIOUS
  <2> HIDE DEF Minus
  <2>2. Minus(0) = 0
    BY <2>1
  <2>3. Flow(from, to, 0, balance, a, b)
          = Share(from, Minus(0), balance, a, b) + Share(to, 0, balance, a, b)
    BY Zenon DEF Flow, Minus
  <2>4. Share(from, 0, balance, a, b) = 0 /\ Share(to, 0, balance, a, b) = 0
    BY DEF Share
  <2>5. Flow(from, to, 0, balance, a, b) = 0 + 0
    BY <2>2, <2>3, <2>4, Zenon
  <2> QED BY <2>5
<1>2. ASSUME NEW value \in Int
      PROVE  /\ Flow(from, from, value, balance, a, b) = 0
             /\ Flow(from, to, value, balance, a, b) + Flow(to, from, value, balance, a, b) = 0
  <2>1. PICK minus \in Int : minus = -value
    OBVIOUS
  <2>2. minus + value = 0 /\ value + minus = 0
    BY <2>1
  <2> QED BY <2>1, <2>2 DEF Flow, Share
<1> QED BY <1>1, <1>2

\* A transaction without an error moves its value, and its fee is paid for.
LEMMA SuccessSays ==
  ASSUME NEW tx \in ApiTransactions, tx.type = "normal", ~hasAnySignalError(tx), NEW block,
         NEW a, NEW b
  PROVE  Said(TxOperations(tx, block), a, b)
           = Flow(tx.sender, tx.receiver, tx.value, NativeBalance, a, b)
             + Share(decideFeePayer(tx), -tx.fee, NativeBalance, a, b)
             + Said(EventOperations(tx), a, b)
<1>1. ~MovesInnerValue(tx)
  BY DEF MovesInnerValue, isRelayedV1TransactionCompletelyIntrashardWithSignalError
<1>2. tx.value # 0 => TransfersValue(tx)
  BY DEF TransfersValue, isContractDeploymentWithSignalErrorOrIntrashardContractCallWithSignalError
<1>3. tx.value = 0 => Flow(tx.sender, tx.receiver, tx.value, NativeBalance, a, b) = 0
  BY FlowOfNothing
<1>4. PICK f, s, e, m : /\ f = Flow(tx.sender, tx.receiver, tx.value, NativeBalance, a, b)
                        /\ s = Share(decideFeePayer(tx), -tx.fee, NativeBalance, a, b)
                        /\ e = Said(EventOperations(tx), a, b)
                        /\ m = Flow(tx.inner.sender, tx.inner.receiver, tx.inner.value,
                                    NativeBalance, a, b)
  OBVIOUS
<1>5. f \in Int /\ s \in Int /\ e \in Int
  <2>1. tx.value \in Int /\ -tx.fee \in Int
    BY ValuesAre
  <2>2. EventOperations(tx) \in Seq(Operations)
    BY EventOperationsAre
  <2>3. e \in Int
    BY <1>4, <2>2, ShareType
  <2>4. f \in Int
    BY <1>4, <2>1, FlowIsInt
  <2>5. s \in Int
    BY <1>4, <2>1, ShareIsInt
  <2> QED BY <2>3, <2>4, <2>5
<1>6. Said(TxOperations(tx, block), a, b)
        = (IF TransfersValue(tx) THEN f ELSE 0) + s + (IF MovesInnerValue(tx) THEN m ELSE 0) + e
  BY <1>4, NormalTransactionSays, Zenon
<1>7. (IF TransfersValue(tx) THEN f ELSE 0) = f
  BY <1>2, <1>3, <1>4
<1>8. Said(TxOperations(tx, block), a, b) = f + s + 0 + e
  BY <1>1, <1>6, <1>7, Zenon
<1>9. f + s + 0 + e = f + s + e
  BY <1>5
<1> QED BY <1>4, <1>8, <1>9, Zenon

\* A transaction without events says its value and its fee.
LEMMA QuietSuccessSays ==
  ASSUME NEW tx \in ApiTransactions, tx.type = "normal", tx.events = <<>>, NEW block, NEW a, NEW b
  PROVE  Said(TxOperations(tx, block), a, b)
           = Flow(tx.sender, tx.receiver, tx.value, NativeBalance, a, b)
             + Share(decideFeePayer(tx), -tx.fee, NativeBalance, a, b)
<1>1. ~hasAnySignalError(tx)
  BY NoSignalError
<1>2. Said(EventOperations(tx), a, b) = 0
  <2>1. EventOperations(tx) = <<>>
    BY OperationsOfOneEvent
  <2> QED BY <2>1, SaidNothing
<1>3. /\ Flow(tx.sender, tx.receiver, tx.value, NativeBalance, a, b) \in Int
      /\ Share(decideFeePayer(tx), -tx.fee, NativeBalance, a, b) \in Int
  <2>1. tx.value \in Int /\ -tx.fee \in Int
    BY ValuesAre
  <2> QED BY <2>1, FlowIsInt, ShareIsInt
<1>4. Said(TxOperations(tx, block), a, b)
        = Flow(tx.sender, tx.receiver, tx.value, NativeBalance, a, b)
          + Share(decideFeePayer(tx), -tx.fee, NativeBalance, a, b)
          + Said(EventOperations(tx), a, b)
  BY <1>1, SuccessSays
<1> QED BY <1>2, <1>3, <1>4

\* A contract result without events.
LEMMA ResultSays ==
  ASSUME NEW scr \in ApiTransactions, scr.type = "unsigned", scr.events = <<>>, NEW block,
         NEW a, NEW b
  PROVE  Said(TxOperations(scr, block), a, b)
           = IF isSmartContractResultIneffectiveRefund(scr) THEN 0
             ELSE IF scr.isRefund \/ HoldsRewards(scr, block)
                  THEN Share(scr.receiver, scr.value, NativeBalance, a, b)
                  ELSE Flow(scr.sender, scr.receiver, scr.value, NativeBalance, a, b)
<1>1. Said(TxOperations(scr, block), a, b)
        = Said(MainOperations(scr, block), a, b) + Said(EventOperations(scr), a, b)
  BY TxOperationsAre
<1>2. Said(EventOperations(scr), a, b) = 0
  <2>1. EventOperations(scr) = <<>>
    BY OperationsOfOneEvent
  <2> QED BY <2>1, SaidNothing
<1>3. MainOperations(scr, block) = unsignedTxToRosettaTx(scr, block)
  BY MainOperationsAre
<1>4. unsignedTxToRosettaTx(scr, block) \in Seq(Operations)
  BY UnsignedIs
<1>5. Said(unsignedTxToRosettaTx(scr, block), a, b) \in Int
  BY <1>4, ShareType
<1>6. Said(TxOperations(scr, block), a, b) = Said(unsignedTxToRosettaTx(scr, block), a, b)
  BY <1>1, <1>2, <1>3, <1>5
<1>7. Said(unsignedTxToRosettaTx(scr, block), a, b)
        = IF isSmartContractResultIneffectiveRefund(scr) THEN 0
          ELSE IF scr.isRefund \/ HoldsRewards(scr, block)
               THEN Share(scr.receiver, scr.value, NativeBalance, a, b)
               ELSE Flow(scr.sender, scr.receiver, scr.value, NativeBalance, a, b)
  BY UnsignedIs
<1> QED BY <1>6, <1>7, Zenon

\* An execution without receipts.
LEMMA NoReceiptsSay ==
  ASSUME NEW said \in Int, NEW cs, NEW a, NEW b, said = SumOf(cs, ChangeWeight(a, b))
  PROVE  Balanced(said, <<>>, cs, a, b)
<1>1. SumOf(<<>>, ReceiptWeight(a, b)) = 0
  BY SumEmpty
<1> QED BY <1>1 DEF Balanced

\* The block has an epoch, and counts its executions.
LEMMA InContext ==
  ASSUME IInv
  PROVE  executed \in Nat /\ executed + 1 \in Nat /\ epoch \in Nat
BY BlockAssumption DEF IInv

\* An account has a shard and is an address.
LEMMA AccountIs ==
  ASSUME NEW account \in Accounts
  PROVE  account.shard \in Nat /\ HasPubKey(account) /\ account # NoAddress
BY AccountAssumption

-----------------------------------------------------------------------------
(* The transactions that the executions make *)

Fields ==
  { "type", "hash", "sender", "receiver", "value", "fee", "relayer", "processing", "operation",
    "nonce", "dataLength", "isGuarded", "isRefund", "original", "sourceShard",
    "destinationShard", "epoch", "inner", "events" }

\* A sequence over a part is one over the whole.
LEMMA SequencesOfParts ==
  ASSUME NEW S, NEW T, S \subseteq T, NEW s \in Seq(S)
  PROVE  s \in Seq(T)
OBVIOUS

\* A record with these fields is a transaction of the protocol.
LEMMA IsApiTransaction ==
  ASSUME NEW tx, tx = [f \in Fields |-> tx[f]],
         tx.type \in KnownTypes, tx.hash \in Nat \X {0, 1},
         tx.sender \in Accounts \/ (tx.type = "reward" /\ tx.sender = Metachain),
         tx.receiver \in Accounts, tx.value \in Nat, tx.fee \in Nat,
         tx.relayer \in Accounts \cup {NoAddress}, tx.processing \in ProcessingTypes,
         tx.operation \in {"", "ClaimDeveloperRewards"}, tx.nonce \in Nat, tx.dataLength \in Nat,
         tx.isGuarded \in BOOLEAN, tx.isRefund \in BOOLEAN,
         tx.original \in {<<>>, <<0, 0>>, <<tx.hash[1], 0>>},
         tx.sourceShard \in Nat, tx.destinationShard \in Nat, tx.epoch \in Nat,
         tx.inner \in {NoInner} \cup [sender : Accounts, receiver : Accounts, value : Nat],
         tx.events \in Seq(ReadableEvents(tx.epoch)),
         tx.processing = "RelayedTx" => tx.inner # NoInner,
         tx.type = "unsigned" => tx.operation = ""
  PROVE  tx \in ApiTransactions
<1> DEFINE same == [ type |-> tx.type, hash |-> tx.hash, sender |-> tx.sender,
                     receiver |-> tx.receiver, value |-> tx.value, fee |-> tx.fee,
                     relayer |-> tx.relayer, processing |-> tx.processing,
                     operation |-> tx.operation, nonce |-> tx.nonce,
                     dataLength |-> tx.dataLength, isGuarded |-> tx.isGuarded,
                     isRefund |-> tx.isRefund, original |-> tx.original,
                     sourceShard |-> tx.sourceShard, destinationShard |-> tx.destinationShard,
                     epoch |-> tx.epoch, inner |-> tx.inner, events |-> tx.events ]
<1>1. tx = same
  <2>1. same = [f \in Fields |-> same[f]]
    BY DEF Fields
  <2>2. \A f \in Fields : same[f] = tx[f]
    BY DEF Fields
  <2> HIDE DEF same
  <2> QED BY <2>1, <2>2
<1>2. tx.original \in Seq(Nat)
  <2>1. tx.hash[1] \in Nat
    OBVIOUS
  <2>2. <<>> \in Seq(Nat) /\ <<0, 0>> \in Seq(Nat) /\ <<tx.hash[1], 0>> \in Seq(Nat)
    <3>1. PICK zero \in Nat, one \in Nat : zero = 0 /\ one = tx.hash[1]
      BY <2>1
    <3>2. <<zero, zero>> \in Seq(Nat) /\ <<one, zero>> \in Seq(Nat) /\ <<>> \in Seq(Nat)
      BY TupleFacts
    <3> QED BY <3>1, <3>2, Zenon
  <2> QED BY <2>2, Zenon
<1>3. tx.events \in Seq(ApiEvents)
  <2>1. ReadableEvents(tx.epoch) \subseteq ApiEvents
    BY DEF ReadableEvents
  <2> QED BY <2>1, SequencesOfParts
<1>4. tx.sender \in Accounts \cup {Metachain} /\ (tx.type # "reward" => tx.sender \in Accounts)
  OBVIOUS
<1>5. same \in ApiTransactions
  BY <1>2, <1>3, <1>4, ZenonT(40) DEF ApiTransactions
<1> HIDE DEF same
<1> QED BY <1>1, <1>5

\* The empty sequence is one over any set.
LEMMA NoEvents ==
  \A S : <<>> \in Seq(S)
OBVIOUS

\* Zero, for the provers that know no arithmetic.
LEMMA ZeroIs ==
  0 \in Nat /\ 0 \in Int
OBVIOUS

\* A sequence of one element.
LEMMA FirstOf ==
  \A x : 1 \in DOMAIN <<x>> /\ Len(<<x>>) = 1 /\ <<x>>[1] = x
OBVIOUS

\* A sequence of one element is one over any set that holds it.
LEMMA OneOf ==
  \A S : \A x \in S : <<x>> \in Seq(S)
BY TupleFacts

EventFields ==
  {"identifier", "address", "receiver", "topics", "tokens", "value", "data"}

\* A record with these fields is an event of the protocol.
LEMMA IsApiEvent ==
  ASSUME NEW event, event = [f \in EventFields |-> event[f]],
         event.identifier \in Identifiers, event.address \in Accounts,
         event.receiver \in Accounts \cup {NoAddress}, event.topics \in Nat,
         event.tokens \in Seq({InEvent(token) : token \in Tokens \cup {NativeToken}}),
         event.value \in Int, event.data \in EventData
  PROVE  event \in ApiEvents
<1> DEFINE same == [ identifier |-> event.identifier, address |-> event.address,
                     receiver |-> event.receiver, topics |-> event.topics,
                     tokens |-> event.tokens, value |-> event.value, data |-> event.data ]
<1>1. event = same
  <2>1. same = [f \in EventFields |-> same[f]]
    BY DEF EventFields
  <2>2. \A f \in EventFields : same[f] = event[f]
    BY DEF EventFields
  <2> HIDE DEF same
  <2> QED BY <2>1, <2>2
<1>2. same \in ApiEvents
  BY DEF ApiEvents
<1> HIDE DEF same
<1> QED BY <1>1, <1>2

\* A signalError can be read.
LEMMA SignalErrorIsReadable ==
  ASSUME NEW ep, NEW reason \in EventData
  PROVE  /\ SignalError(reason) \in ReadableEvents(ep)
         /\ SignalError(reason).identifier = "signalError"
         /\ SignalError(reason).data = reason
<1>1. PICK event : event = SignalError(reason)
  OBVIOUS
<1>2. event = [f \in EventFields |-> event[f]]
  BY <1>1 DEF SignalError, Event, EventFields
<1>3. /\ event.identifier = "signalError" /\ event.address = Con /\ event.receiver = NoAddress
      /\ event.topics = 2 /\ event.tokens = <<>> /\ event.value = 0 /\ event.data = reason
  BY <1>1 DEF SignalError, Event
<1>4. event \in ApiEvents
  <2>1. Con \in Accounts
    BY AccountsAre
  <2>2. event.tokens \in Seq({InEvent(token) : token \in Tokens \cup {NativeToken}})
    BY <1>3, NoEvents, Zenon
  <2>3. event.value \in Int /\ event.topics \in Nat
    <3>1. 2 \in Nat
      OBVIOUS
    <3> QED BY <1>3, <3>1, ZeroIs, Zenon
  <2>4. event.identifier \in Identifiers
    BY <1>3 DEF Identifiers
  <2> QED BY <1>2, <1>3, <2>1, <2>2, <2>3, <2>4, IsApiEvent
<1>5. IsReadable(event, ep)
  BY <1>3 DEF IsReadable, HasRightTopics, TransferEvents, BurnEvents, MintEvents
<1> QED BY <1>1, <1>3, <1>4, <1>5, Zenon DEF ReadableEvents

\* A hash is a number of an execution and one of a transaction in it.
LEMMA HashIs ==
  \A n \in Nat : \A k \in {0, 1} : <<n, k>> \in Nat \X {0, 1}
OBVIOUS

\* The amounts are numbers.
LEMMA FeesAre ==
  /\ PaidFee \in Int /\ ToldFee \in Int /\ Refund \in Int /\ Amount \in Int
  /\ PaidFee \in Nat /\ ToldFee \in Nat /\ Refund \in Nat /\ Amount \in Nat
  /\ \A value \in Values : value \in Nat /\ value \in Int
BY AmountAssumption

\* A transaction that an execution makes.
LEMMA MadeTransaction ==
  ASSUME IInv, NEW tx, tx = [f \in Fields |-> tx[f]], NEW k \in {0, 1}, tx.hash = <<executed + 1, k>>,
         tx.type \in KnownTypes, tx.sender \in Accounts \/ (tx.type = "reward" /\ tx.sender = Metachain),
         tx.receiver \in Accounts, tx.value \in Nat, tx.fee \in Nat,
         tx.relayer \in Accounts \cup {NoAddress}, tx.processing \in ProcessingTypes,
         tx.operation \in {"", "ClaimDeveloperRewards"}, tx.nonce = 0, tx.dataLength \in Nat,
         tx.isGuarded \in BOOLEAN, tx.isRefund \in BOOLEAN,
         tx.original \in {<<>>, <<0, 0>>, <<executed + 1, 0>>},
         tx.sourceShard \in Nat, tx.destinationShard \in Nat, tx.epoch = epoch,
         \/ tx.processing # "RelayedTx" /\ tx.inner = NoInner
         \/ /\ tx.inner \in [sender : Accounts, receiver : Accounts, value : Nat]
            /\ tx.inner # NoInner,
         tx.events \in Seq(ReadableEvents(epoch)),
         tx.type = "unsigned" => tx.operation = ""
  PROVE  tx \in ApiTransactions /\ tx.hash[1] = executed + 1
<1> PICK n \in Nat : n = executed + 1
  BY InContext
<1>1. tx.hash[1] = executed + 1 /\ tx.hash \in Nat \X {0, 1}
  <2>1. <<n, k>>[1] = n /\ <<n, k>> \in Nat \X {0, 1}
    BY HashIs
  <2> QED BY <2>1, Zenon
<1>2. tx.nonce \in Nat /\ tx.epoch \in Nat
  <2>1. 0 \in Nat
    OBVIOUS
  <2> QED BY <2>1, InContext, Zenon
<1>3. tx.original \in {<<>>, <<0, 0>>, <<tx.hash[1], 0>>}
  BY <1>1, Zenon
<1>4. tx.events \in Seq(ReadableEvents(tx.epoch))
  BY Zenon
<1>5. /\ tx.inner \in {NoInner} \cup [sender : Accounts, receiver : Accounts, value : Nat]
      /\ tx.processing = "RelayedTx" => tx.inner # NoInner
  BY Zenon
<1> QED BY <1>1, <1>2, <1>3, <1>4, <1>5, IsApiTransaction

\* What a transaction says is an integer.
LEMMA SaidIsInt ==
  ASSUME NEW tx \in ApiTransactions, NEW block, NEW a, NEW b
  PROVE  Said(TxOperations(tx, block), a, b) \in Int
<1>1. TxOperations(tx, block) \in Seq(Operations)
  BY TxOperationsAre
<1> QED BY <1>1, ShareType

\* The invariant is kept by an execution of one transaction ...
LEMMA ExecutionOfOne ==
  ASSUME IInv, NEW tx \in ApiTransactions, tx.hash[1] = executed + 1, NEW cs \in Seq(Changes),
         Execute(<<tx>>, <<>>, cs),
         \A a \in Here : \A b \in ServedBalances :
           Said(TxOperations(tx, <<tx>>), a, b) = SumOf(cs, ChangeWeight(a, b))
  PROVE  IInv'
<1>1. \A a \in Here : \A b \in ServedBalances :
        Balanced(Said(TxOperations(tx, <<tx>>), a, b), <<>>, cs, a, b)
  BY SaidIsInt, NoReceiptsSay
<1>2. executed + 1 \in Nat /\ ReceiptsAre(executed + 1, <<>>)
  BY InContext, NoReceipts
<1>3. IsReconciledBlock(executed + 1, executed + 1, <<tx>>, <<>>, cs)
  BY <1>1, <1>2, OneTransaction
<1> QED BY <1>3, ExecutionKeepsIInv

\* ... and by one of two, none of them invalid.
LEMMA ExecutionOfTwo ==
  ASSUME IInv, NEW x \in ApiTransactions, NEW y \in ApiTransactions,
         x.hash[1] = executed + 1, y.hash[1] = executed + 1, x.hash # y.hash,
         x.type # "invalid", y.type # "invalid", NEW cs \in Seq(Changes),
         Execute(<<x, y>>, <<>>, cs),
         \A a \in Here : \A b \in ServedBalances :
           Said(TxOperations(x, <<x, y>>), a, b) + Said(TxOperations(y, <<x, y>>), a, b)
             = SumOf(cs, ChangeWeight(a, b))
  PROVE  IInv'
<1>1. ASSUME NEW a \in Here, NEW b \in ServedBalances
      PROVE  Balanced(Said(TxOperations(x, <<x, y>>), a, b) + Said(TxOperations(y, <<x, y>>), a, b),
                      <<>>, cs, a, b)
  <2>1. PICK said : said = Said(TxOperations(x, <<x, y>>), a, b) + Said(TxOperations(y, <<x, y>>), a, b)
    OBVIOUS
  <2>2. said \in Int
    <3>1. PICK i, j : /\ i = Said(TxOperations(x, <<x, y>>), a, b)
                      /\ j = Said(TxOperations(y, <<x, y>>), a, b)
      OBVIOUS
    <3>2. i \in Int /\ j \in Int
      BY <3>1, SaidIsInt
    <3> QED BY <2>1, <3>1, <3>2
  <2>3. said = SumOf(cs, ChangeWeight(a, b))
    BY <2>1
  <2>4. Balanced(said, <<>>, cs, a, b)
    BY <2>2, <2>3, NoReceiptsSay
  <2> QED BY <2>1, <2>4, Zenon
<1>2. executed + 1 \in Nat /\ ReceiptsAre(executed + 1, <<>>)
  BY InContext, NoReceipts
<1>3. IsReconciledBlock(executed + 1, executed + 1, <<x, y>>, <<>>, cs)
  BY <1>1, <1>2, TwoTransactions
<1> QED BY <1>3, ExecutionKeepsIInv

\* y is invalid, and x is left out of the block because of it.
LEMMA ExecutionOfInvalid ==
  ASSUME IInv, NEW x \in ApiTransactions, NEW y \in ApiTransactions,
         x.hash[1] = executed + 1, y.hash[1] = executed + 1, y.type = "invalid",
         (x.type = "unsigned" /\ x.original = y.hash)
           \/ (isRelayedV1Transaction(x) /\ x.hash = y.hash),
         NEW block \in {<<x, y>>, <<y, x>>}, NEW cs \in Seq(Changes),
         Execute(block, <<>>, cs),
         \A a \in Here : \A b \in ServedBalances :
           Said(TxOperations(y, block), a, b) = SumOf(cs, ChangeWeight(a, b))
  PROVE  IInv'
<1>1. \A a \in Here : \A b \in ServedBalances :
        Balanced(Said(TxOperations(y, block), a, b), <<>>, cs, a, b)
  BY SaidIsInt, NoReceiptsSay
<1>2. executed + 1 \in Nat /\ ReceiptsAre(executed + 1, <<>>)
  BY InContext, NoReceipts
<1>3. IsReconciledBlock(executed + 1, executed + 1, block, <<>>, cs)
  BY <1>1, <1>2, OneOfTwoTransactions
<1> QED BY <1>3, ExecutionKeepsIInv

\* What changes when a transaction moves its value, and its fee is paid for.
ChangesOf(tx) ==
  Moved(tx.sender, tx.receiver, tx.value, NativeBalance) \o Paid(decideFeePayer(tx), tx.fee)

\* The changes of such a transaction.
LEMMA ChangesOfAre ==
  ASSUME NEW tx \in ApiTransactions, tx.type # "reward", NEW a, NEW b
  PROVE  /\ ChangesOf(tx) \in Seq(Changes)
         /\ SumOf(ChangesOf(tx), ChangeWeight(a, b))
              = Flow(tx.sender, tx.receiver, tx.value, NativeBalance, a, b)
                + Share(decideFeePayer(tx), -tx.fee, NativeBalance, a, b)
<1>1. PICK from, to, payer, value, fee :
        /\ from = tx.sender /\ to = tx.receiver /\ payer = decideFeePayer(tx)
        /\ value = tx.value /\ fee = tx.fee
  OBVIOUS
<1>2. from \in Accounts /\ to \in Accounts /\ value \in Int /\ fee \in Int
  BY <1>1, ApiTransactionIs, Zenon
<1>3. payer \in Accounts
  BY <1>1, FeePayerIsAccount
<1>4. /\ Moved(from, to, value, NativeBalance) \o Paid(payer, fee) \in Seq(Changes)
      /\ SumOf(Moved(from, to, value, NativeBalance) \o Paid(payer, fee), ChangeWeight(a, b))
           = Flow(from, to, value, NativeBalance, a, b) + Share(payer, -fee, NativeBalance, a, b)
  BY <1>2, <1>3, MovedAndPaid
<1> QED BY <1>1, <1>4, Zenon DEF ChangesOf

\* They are what a transaction without events says.
LEMMA QuietSuccessChanges ==
  ASSUME NEW tx \in ApiTransactions, tx.type = "normal", tx.events = <<>>, NEW block, NEW a, NEW b
  PROVE  /\ ChangesOf(tx) \in Seq(Changes)
         /\ Said(TxOperations(tx, block), a, b) = SumOf(ChangesOf(tx), ChangeWeight(a, b))
<1>1. tx.type # "reward"
  OBVIOUS
<1>2. /\ ChangesOf(tx) \in Seq(Changes)
      /\ SumOf(ChangesOf(tx), ChangeWeight(a, b))
           = Flow(tx.sender, tx.receiver, tx.value, NativeBalance, a, b)
             + Share(decideFeePayer(tx), -tx.fee, NativeBalance, a, b)
  BY <1>1, ChangesOfAre
<1>3. Said(TxOperations(tx, block), a, b)
        = Flow(tx.sender, tx.receiver, tx.value, NativeBalance, a, b)
          + Share(decideFeePayer(tx), -tx.fee, NativeBalance, a, b)
  BY QuietSuccessSays
<1> QED BY <1>2, <1>3, Zenon

-----------------------------------------------------------------------------
(* The actions, one by one *)

\* What MoveBalance changes is what its transactions say.
LEMMA MoveBalanceKeepsIInv ==
  ASSUME IInv, MoveBalance
  PROVE  IInv'
<1> DEFINE Tx(parties, relayer, value) ==
             [Transaction(parties[1], parties[2], value) EXCEPT !.relayer = relayer]
<1>1. PICK value \in Values, parties \in {<<Alice, Bob>>, <<Alice, Carol>>, <<Carol, Bob>>},
           relayer \in {NoAddress, Bob} :
        Execute(<<Tx(parties, relayer, value)>>, <<>>,
             Moved(Tx(parties, relayer, value).sender, Tx(parties, relayer, value).receiver, value, NativeBalance)
             \o Paid(IF relayer = NoAddress THEN Tx(parties, relayer, value).sender ELSE relayer, PaidFee))
  BY DEF MoveBalance
<1>2. PICK tx : tx = Tx(parties, relayer, value)
  OBVIOUS
<1>3. PICK payer : payer = IF relayer = NoAddress THEN tx.sender ELSE relayer
  OBVIOUS
<1>4. /\ parties[1] \in Accounts /\ parties[2] \in Accounts /\ relayer \in Accounts \cup {NoAddress}
      /\ parties[1].shard \in Nat /\ parties[2].shard \in Nat
  BY AccountsAre, AccountIs
<1>5. tx = [f \in Fields |-> tx[f]]
  BY <1>2 DEF Transaction, Fields
<1>6. /\ tx.type = "normal" /\ tx.hash = <<executed + 1, 0>>
      /\ tx.sender = parties[1] /\ tx.receiver = parties[2] /\ tx.value = value
      /\ tx.fee = PaidFee /\ tx.relayer = relayer /\ tx.processing = "MoveBalance"
      /\ tx.operation = "" /\ tx.nonce = 0 /\ tx.dataLength = 0
      /\ tx.isGuarded = FALSE /\ tx.isRefund = FALSE
      /\ tx.original = <<>> /\ tx.sourceShard = parties[1].shard
      /\ tx.destinationShard = parties[2].shard /\ tx.epoch = epoch /\ tx.inner = NoInner
      /\ tx.events = <<>>
  BY <1>2 DEF Transaction
<1>7. tx \in ApiTransactions /\ tx.hash[1] = executed + 1
  <2>1. tx.events \in Seq(ReadableEvents(epoch))
    BY <1>6, NoEvents, Zenon
  <2>2. tx.type \in KnownTypes /\ tx.processing \in ProcessingTypes
    BY <1>6 DEF KnownTypes, ProcessingTypes
  <2>3. tx.value \in Nat /\ tx.fee \in Nat /\ tx.dataLength \in Nat
    BY <1>6, FeesAre, ZeroIs, Zenon
  <2> QED BY <1>4, <1>5, <1>6, <2>1, <2>2, <2>3, MadeTransaction
<1>8. decideFeePayer(tx) = payer
  BY <1>3, <1>6 DEF decideFeePayer, IsRelayedTxV3
<1>9. Execute(<<tx>>, <<>>, ChangesOf(tx))
  BY <1>1, <1>2, <1>3, <1>6, <1>8, Zenon DEF ChangesOf
<1>10. \A a, b : /\ ChangesOf(tx) \in Seq(Changes)
                 /\ Said(TxOperations(tx, <<tx>>), a, b) = SumOf(ChangesOf(tx), ChangeWeight(a, b))
  BY <1>6, <1>7, QuietSuccessChanges
<1> QED BY <1>7, <1>9, <1>10, ExecutionOfOne

\* What an invalid transaction says is its fee.
LEMMA InvalidSays ==
  ASSUME NEW tx \in ApiTransactions, tx.type = "invalid",
         tx.events = <<>> \/ hasAnySignalError(tx), NEW block, NEW a, NEW b
  PROVE  /\ Said(TxOperations(tx, block), a, b)
              = SumOf(Paid(decideFeePayer(tx), FeeOfInvalidTx(tx)), ChangeWeight(a, b))
         /\ Paid(decideFeePayer(tx), FeeOfInvalidTx(tx)) \in Seq(Changes)
<1>1. Said(TxOperations(tx, block), a, b)
        = Said(MainOperations(tx, block), a, b) + Said(EventOperations(tx), a, b)
  BY TxOperationsAre
<1>2. Said(EventOperations(tx), a, b) = 0
  <2>1. EventOperations(tx) = <<>>
    BY OperationsOfOneEvent
  <2> QED BY <2>1, SaidNothing
<1>3. MainOperations(tx, block) = invalidTxToRosettaTx(tx)
  BY MainOperationsAre
<1>4. PICK payer, fee : payer = decideFeePayer(tx) /\ fee = FeeOfInvalidTx(tx)
  OBVIOUS
<1>5. payer \in Accounts /\ fee \in Nat /\ fee \in Int
  <2>1. tx.type # "reward"
    OBVIOUS
  <2>2. payer \in Accounts
    BY <1>4, <2>1, FeePayerIsAccount
  <2>3. fee \in Nat
    BY <1>4, InvalidIs
  <2> QED BY <2>2, <2>3
<1>6. /\ Paid(payer, fee) \in Seq(Changes)
      /\ SumOf(Paid(payer, fee), ChangeWeight(a, b)) = Share(payer, -fee, NativeBalance, a, b)
  BY <1>5, PaidIs
<1>7. Said(invalidTxToRosettaTx(tx), a, b) = Share(payer, -fee, NativeBalance, a, b)
  BY <1>4, InvalidIs, Zenon
<1>8. Share(payer, -fee, NativeBalance, a, b) \in Int
  <2>1. -fee \in Int
    BY <1>5
  <2> QED BY <2>1, ShareIsInt
<1>9. Said(TxOperations(tx, block), a, b) = Share(payer, -fee, NativeBalance, a, b)
  BY <1>1, <1>2, <1>3, <1>7, <1>8
<1> QED BY <1>4, <1>6, <1>9, Zenon

\* What InvalidTransaction changes is what its transactions say.
LEMMA InvalidTransactionKeepsIInv ==
  ASSUME IInv, InvalidTransaction
  PROVE  IInv'
<1> DEFINE Tx(relayer) == [Transaction(Alice, Con, Amount) EXCEPT
                             !.type = "invalid", !.relayer = relayer, !.processing = "SCInvoking"]
<1>1. PICK relayer \in {NoAddress, Bob}, withResult \in BOOLEAN :
        Execute(IF withResult THEN <<ContractResult(1, Con, Alice, Amount), Tx(relayer)>>
                ELSE <<Tx(relayer)>>, <<>>,
                Paid(IF relayer = NoAddress THEN Alice ELSE relayer, PaidFee))
  BY DEF InvalidTransaction
<1>2. PICK tx, result : tx = Tx(relayer) /\ result = ContractResult(1, Con, Alice, Amount)
  OBVIOUS
<1>3. PICK payer : payer = IF relayer = NoAddress THEN Alice ELSE relayer
  OBVIOUS
<1>4. /\ Alice \in Accounts /\ Con \in Accounts /\ relayer \in Accounts \cup {NoAddress}
      /\ Alice.shard \in Nat /\ Con.shard \in Nat
  BY AccountsAre, AccountIs
<1>5. tx = [f \in Fields |-> tx[f]]
  BY <1>2 DEF Transaction, ContractResult, Fields
<1>6. /\ tx.type = "invalid" /\ tx.hash = <<executed + 1, 0>> /\ tx.sender = Alice
      /\ tx.receiver = Con /\ tx.value = Amount /\ tx.fee = PaidFee /\ tx.relayer = relayer
      /\ tx.processing = "SCInvoking" /\ tx.operation = "" /\ tx.nonce = 0 /\ tx.dataLength = 0
      /\ tx.isGuarded = FALSE /\ tx.isRefund = FALSE /\ tx.original = <<>>
      /\ tx.sourceShard = Alice.shard /\ tx.destinationShard = Con.shard /\ tx.epoch = epoch
      /\ tx.inner = NoInner /\ tx.events = <<>>
  BY <1>2 DEF Transaction, ContractResult
<1>7. tx \in ApiTransactions /\ tx.hash[1] = executed + 1
  <2>1. tx.events \in Seq(ReadableEvents(epoch))
    BY <1>6, NoEvents, Zenon
  <2>2. tx.type \in KnownTypes /\ tx.processing \in ProcessingTypes
    BY <1>6 DEF KnownTypes, ProcessingTypes
  <2>3. tx.value \in Nat /\ tx.fee \in Nat /\ tx.dataLength \in Nat
    BY <1>6, FeesAre, ZeroIs, Zenon
  <2> QED BY <1>4, <1>5, <1>6, <2>1, <2>2, <2>3, MadeTransaction
<1>8. result = [f \in Fields |-> result[f]]
  BY <1>2 DEF Transaction, ContractResult, Fields
<1>9. /\ result.type = "unsigned" /\ result.hash = <<executed + 1, 1>> /\ result.sender = Con
      /\ result.receiver = Alice /\ result.value = Amount /\ result.fee = 0
      /\ result.relayer = NoAddress /\ result.processing = "MoveBalance"
      /\ result.operation = "" /\ result.nonce = 0 /\ result.dataLength = 0
      /\ result.isGuarded = FALSE /\ result.isRefund = FALSE
      /\ result.original = <<executed + 1, 0>> /\ result.sourceShard = Con.shard
      /\ result.destinationShard = Alice.shard /\ result.epoch = epoch /\ result.inner = NoInner
      /\ result.events = <<>>
  BY <1>2 DEF Transaction, ContractResult
<1>10. result \in ApiTransactions /\ result.hash[1] = executed + 1
  <2>1. result.events \in Seq(ReadableEvents(epoch))
    BY <1>9, NoEvents, Zenon
  <2>2. result.type \in KnownTypes /\ result.processing \in ProcessingTypes
    BY <1>9 DEF KnownTypes, ProcessingTypes
  <2>3. result.value \in Nat /\ result.fee \in Nat /\ result.dataLength \in Nat
    BY <1>9, FeesAre, ZeroIs, Zenon
  <2> QED BY <1>4, <1>8, <1>9, <2>1, <2>2, <2>3, MadeTransaction
<1>11. decideFeePayer(tx) = payer /\ FeeOfInvalidTx(tx) = PaidFee
  BY <1>3, <1>6 DEF decideFeePayer, IsRelayedTxV3, FeeOfInvalidTx,
       isInvalidTransactionOfTypeMoveBalanceThatOnlyConsumesDataMovementGas
<1>12. \A block, a, b :
         /\ Said(TxOperations(tx, block), a, b) = SumOf(Paid(payer, PaidFee), ChangeWeight(a, b))
         /\ Paid(payer, PaidFee) \in Seq(Changes)
  <2> TAKE block, a, b
  <2>1. /\ Said(TxOperations(tx, block), a, b)
              = SumOf(Paid(decideFeePayer(tx), FeeOfInvalidTx(tx)), ChangeWeight(a, b))
        /\ Paid(decideFeePayer(tx), FeeOfInvalidTx(tx)) \in Seq(Changes)
    BY <1>6, <1>7, InvalidSays
  <2> QED BY <1>11, <2>1, Zenon
<1>13. CASE withResult
  <2>1. PICK block : block = <<result, tx>>
    OBVIOUS
  <2>2. Execute(block, <<>>, Paid(payer, PaidFee))
    BY <1>1, <1>2, <1>3, <1>13, <2>1, Zenon
  <2>3. result.type = "unsigned" /\ result.original = tx.hash /\ tx.type = "invalid"
    BY <1>6, <1>9
  <2>4. \A a \in Here : \A b \in ServedBalances :
          Said(TxOperations(tx, block), a, b) = SumOf(Paid(payer, PaidFee), ChangeWeight(a, b))
    BY <1>12, Zenon
  <2>5. Paid(payer, PaidFee) \in Seq(Changes) /\ block \in {<<result, tx>>, <<tx, result>>}
    BY <1>12, <2>1, Zenon
  <2> QED BY <1>7, <1>10, <2>2, <2>3, <2>4, <2>5, ExecutionOfInvalid
<1>14. CASE ~withResult
  <2>1. Execute(<<tx>>, <<>>, Paid(payer, PaidFee))
    BY <1>1, <1>2, <1>3, <1>14, Zenon
  <2>2. \A a \in Here : \A b \in ServedBalances :
          Said(TxOperations(tx, <<tx>>), a, b) = SumOf(Paid(payer, PaidFee), ChangeWeight(a, b))
    BY <1>12, Zenon
  <2>3. Paid(payer, PaidFee) \in Seq(Changes)
    BY <1>12, Zenon
  <2> QED BY <1>7, <2>1, <2>2, <2>3, ExecutionOfOne
<1> QED BY <1>13, <1>14

\* What InvalidMoveBalance changes is what its transactions say.
LEMMA InvalidMoveBalanceKeepsIInv ==
  ASSUME IInv, InvalidMoveBalance
  PROVE  IInv'
<1> DEFINE Tx(relayer, reason, isGuarded, dataLength) ==
             [Transaction(Alice, Con, Amount) EXCEPT
                !.type = "invalid", !.relayer = relayer, !.dataLength = dataLength,
                !.isGuarded = isGuarded, !.fee = ToldFee, !.events = <<SignalError(reason)>>]
           Gas(relayer, isGuarded, dataLength) ==
             networkConfig.MinGasLimit + dataLength * networkConfig.GasPerDataByte
               + (IF isGuarded THEN networkConfig.ExtraGasLimitGuardedTx ELSE 0)
               + (IF relayer = NoAddress THEN 0 ELSE networkConfig.ExtraGasLimitRelayedTxV3)
<1>1. PICK relayer \in {NoAddress, Bob}, reason \in {"nonPayable", "invalidMeta"},
           isGuarded \in BOOLEAN, dataLength \in {0, 5} :
        Execute(<<Tx(relayer, reason, isGuarded, dataLength)>>, <<>>,
                Paid(IF relayer = NoAddress THEN Alice ELSE relayer,
                     Gas(relayer, isGuarded, dataLength) * networkConfig.GasPrice))
  BY DEF InvalidMoveBalance
<1>2. PICK tx, event : tx = Tx(relayer, reason, isGuarded, dataLength) /\ event = SignalError(reason)
  OBVIOUS
<1>3. PICK payer : payer = IF relayer = NoAddress THEN Alice ELSE relayer
  OBVIOUS
<1>4. /\ Alice \in Accounts /\ Con \in Accounts /\ relayer \in Accounts \cup {NoAddress}
      /\ Alice.shard \in Nat /\ Con.shard \in Nat /\ dataLength \in Nat
  BY AccountsAre, AccountIs
<1>5. event \in ReadableEvents(epoch) /\ event.identifier = "signalError" /\ event.data = reason
  <2>1. reason \in EventData
    BY DEF EventData
  <2>2. /\ SignalError(reason) \in ReadableEvents(epoch)
        /\ SignalError(reason).identifier = "signalError" /\ SignalError(reason).data = reason
    BY <2>1, SignalErrorIsReadable
  <2> QED BY <1>2, <2>2, Zenon
<1>6. tx = [f \in Fields |-> tx[f]]
  BY <1>2, ZenonT(40) DEF Transaction, ContractResult, Fields
<1>7. /\ tx.type = "invalid" /\ tx.hash = <<executed + 1, 0>> /\ tx.sender = Alice
      /\ tx.receiver = Con /\ tx.value = Amount /\ tx.fee = ToldFee /\ tx.relayer = relayer
      /\ tx.processing = "MoveBalance" /\ tx.operation = "" /\ tx.nonce = 0
      /\ tx.dataLength = dataLength /\ tx.isGuarded = isGuarded /\ tx.isRefund = FALSE
      /\ tx.original = <<>> /\ tx.sourceShard = Alice.shard /\ tx.destinationShard = Con.shard
      /\ tx.epoch = epoch /\ tx.inner = NoInner /\ tx.events = <<event>>
  BY <1>2 DEF Transaction, ContractResult
<1>8. tx \in ApiTransactions /\ tx.hash[1] = executed + 1
  <2>1. tx.events \in Seq(ReadableEvents(epoch))
    BY <1>7, <1>5, OneOf, Zenon
  <2>2. tx.type \in KnownTypes /\ tx.processing \in ProcessingTypes
    BY <1>7 DEF KnownTypes, ProcessingTypes
  <2>3. tx.value \in Nat /\ tx.fee \in Nat /\ tx.dataLength \in Nat
    BY <1>7, FeesAre, ZeroIs, <1>4, Zenon
  <2> QED BY <1>4, <1>6, <1>7, <2>1, <2>2, <2>3, MadeTransaction
<1>9. hasAnySignalError(tx)
  BY <1>5, <1>7, SignalErrorIs
<1>10. isInvalidTransactionOfTypeMoveBalanceThatOnlyConsumesDataMovementGas(tx)
  <2>1. 1 \in DOMAIN tx.events /\ tx.events[1] = event
    BY <1>7, FirstOf, Zenon
  <2> QED BY <1>5, <1>7, <2>1 DEF isInvalidTransactionOfTypeMoveBalanceThatOnlyConsumesDataMovementGas,
       hasSignalErrorOfSendingValueToNonPayableContract, hasSignalErrorOfMetaTransactionIsInvalid
<1>11. decideFeePayer(tx) = payer
  BY <1>3, <1>7 DEF decideFeePayer, IsRelayedTxV3
<1>12. PICK gas : gas = Gas(relayer, isGuarded, dataLength) * networkConfig.GasPrice
  OBVIOUS
<1>13. FeeOfInvalidTx(tx) = gas
  <2>1. FeeOfInvalidTx(tx) = ComputeTransactionFeeForMoveBalance(tx)
    BY <1>10 DEF FeeOfInvalidTx
  <2>2. PICK price \in Nat, least \in Nat, byte \in Nat, guard \in Nat, extra \in Nat :
          /\ price = networkConfig.GasPrice /\ least = networkConfig.MinGasLimit
          /\ byte = networkConfig.GasPerDataByte
          /\ guard = IF isGuarded THEN networkConfig.ExtraGasLimitGuardedTx ELSE 0
          /\ extra = IF relayer = NoAddress THEN 0 ELSE networkConfig.ExtraGasLimitRelayedTxV3
    BY AmountAssumption
  <2>3. ComputeTransactionFeeForMoveBalance(tx) = price * (least + byte * dataLength + guard + extra)
    BY <1>7, <2>2 DEF ComputeTransactionFeeForMoveBalance, IsRelayedTxV3
  <2>4. gas = (least + dataLength * byte + guard + extra) * price
    BY <1>12, <2>2
  <2>5. dataLength * byte = byte * dataLength
    BY <1>4
  <2>6. PICK sum \in Nat : sum = least + byte * dataLength + guard + extra
    BY <1>4
  <2>7. price * sum = sum * price
    OBVIOUS
  <2> QED BY <2>1, <2>3, <2>4, <2>5, <2>6, <2>7, Zenon
<1>14. \A a, b :
         /\ Said(TxOperations(tx, <<tx>>), a, b) = SumOf(Paid(payer, gas), ChangeWeight(a, b))
         /\ Paid(payer, gas) \in Seq(Changes)
  <2> TAKE a, b
  <2>1. /\ Said(TxOperations(tx, <<tx>>), a, b)
              = SumOf(Paid(decideFeePayer(tx), FeeOfInvalidTx(tx)), ChangeWeight(a, b))
        /\ Paid(decideFeePayer(tx), FeeOfInvalidTx(tx)) \in Seq(Changes)
    BY <1>7, <1>8, <1>9, InvalidSays
  <2> QED BY <1>11, <1>13, <2>1, Zenon
<1>15. Execute(<<tx>>, <<>>, Paid(payer, gas))
  BY <1>1, <1>2, <1>3, <1>12, Zenon
<1> QED BY <1>8, <1>14, <1>15, ExecutionOfOne

\* The shards of the accounts.
LEMMA ShardsAre ==
  /\ Alice.shard = 0 /\ Bob.shard = 0 /\ Con.shard = 0 /\ NewCon.shard = 0
  /\ systemContractDeployAddress.shard = 0
  /\ Carol.shard # 0 /\ RemoteCon.shard # 0
  /\ \A a \in Here : a # Carol /\ a # RemoteCon
<1>1. DOMAIN AccountList = 1 .. 7
  BY DEF AccountList
<1>2. \A i \in 1 .. 7 : AccountList[i].shard = 0 <=> i <= 5
  BY <1>1, AccountAssumption
<1>3. /\ AccountList[1].shard = 0 /\ AccountList[2].shard = 0 /\ AccountList[3].shard = 0
      /\ AccountList[4].shard = 0 /\ AccountList[5].shard = 0
      /\ AccountList[6].shard # 0 /\ AccountList[7].shard # 0
  BY <1>2
<1>4. /\ Alice.shard = 0 /\ Bob.shard = 0 /\ Con.shard = 0 /\ NewCon.shard = 0
      /\ systemContractDeployAddress.shard = 0 /\ Carol.shard # 0 /\ RemoteCon.shard # 0
  BY <1>3 DEF AccountList
<1> QED BY <1>4 DEF Here

\* An inner transaction, and none.
LEMMA InnerIs ==
  ASSUME NEW sender \in Accounts, NEW receiver \in Accounts, NEW value \in Nat
  PROVE  /\ [sender |-> sender, receiver |-> receiver, value |-> value]
              \in [sender : Accounts, receiver : Accounts, value : Nat]
         /\ [sender |-> sender, receiver |-> receiver, value |-> value] # NoInner
<1>1. [sender |-> sender, receiver |-> receiver, value |-> value]
        \in [sender : Accounts, receiver : Accounts, value : Nat]
  OBVIOUS
<1>2. PICK inner : inner = [sender |-> sender, receiver |-> receiver, value |-> value]
  OBVIOUS
<1>3. "sender" \in DOMAIN inner
  BY <1>2
<1>4. "sender" \notin DOMAIN NoInner
  BY DEF NoInner
<1> QED BY <1>1, <1>2, <1>3, <1>4, Zenon

\* No transaction of the block claims rewards.
LEMMA NoRewards ==
  ASSUME NEW scr, NEW block, \A tx \in Range(block) : tx.operation # "ClaimDeveloperRewards"
  PROVE  ~HoldsRewards(scr, block)
BY DEF HoldsRewards, doesContractResultHoldRewardsOfClaimDeveloperRewards, Range

\* One account receives the amount.
LEMMA OneNativeChange ==
  ASSUME NEW account \in Accounts
  PROVE  /\ << Change(account, NativeBalance, Amount) >> \in Seq(Changes)
         /\ \A a, b : SumOf(<< Change(account, NativeBalance, Amount) >>, ChangeWeight(a, b))
                        = Share(account, Amount, NativeBalance, a, b)
<1>1. NativeBalance \in Balances /\ Amount \in Int
  BY FeesAre DEF Balances
<1>2. PICK balance \in Balances, value \in Int : balance = NativeBalance /\ value = Amount
  BY <1>1
<1>3. ASSUME NEW a, NEW b
      PROVE  /\ << Change(account, balance, value) >> \in Seq(Changes)
             /\ SumOf(<< Change(account, balance, value) >>, ChangeWeight(a, b))
                  = Share(account, value, balance, a, b)
  BY OneChange
<1> QED BY <1>2, <1>3, Zenon

\* Five, likewise.
LEMMA FiveIs ==
  5 \in Nat
OBVIOUS

\* The elements of short blocks.
LEMMA RangeOfFew ==
  ASSUME NEW x, NEW y
  PROVE  Range(<<x>>) = {x} /\ Range(<<x, y>>) = {x, y}
BY DEF Range

\* What InvalidRelayedTransaction changes is what its transactions say.
LEMMA InvalidRelayedTransactionKeepsIInv ==
  ASSUME IInv, InvalidRelayedTransaction
  PROVE  IInv'
<1> DEFINE Inner == [sender |-> Alice, receiver |-> Con, value |-> Amount]
           Tx == [Transaction(Bob, Alice, 0) EXCEPT
                    !.processing = "RelayedTx", !.dataLength = 5, !.inner = Inner]
<1>1. Execute(<<Tx, [Tx EXCEPT !.type = "invalid"]>>, <<>>, Paid(Bob, PaidFee))
  BY DEF InvalidRelayedTransaction
<1>2. PICK tx, twin, inner :
        tx = Tx /\ twin = [tx EXCEPT !.type = "invalid"] /\ inner = Inner
  OBVIOUS
<1>3. Execute(<<tx, twin>>, <<>>, Paid(Bob, PaidFee))
  BY <1>1, <1>2, Zenon
<1>4. /\ Alice \in Accounts /\ Con \in Accounts /\ Bob \in Accounts
      /\ Alice.shard \in Nat /\ Con.shard \in Nat /\ Bob.shard \in Nat
  BY AccountsAre, AccountIs
<1>5. inner \in [sender : Accounts, receiver : Accounts, value : Nat] /\ inner # NoInner
  BY <1>2, <1>4, FeesAre, InnerIs
<1>6. tx = [f \in Fields |-> tx[f]]
  BY <1>2 DEF Transaction, ContractResult, Fields
<1>7. /\ tx.type = "normal" /\ tx.hash = <<executed + 1, 0>> /\ tx.sender = Bob
      /\ tx.receiver = Alice /\ tx.value = 0 /\ tx.fee = PaidFee /\ tx.relayer = NoAddress
      /\ tx.processing = "RelayedTx" /\ tx.operation = "" /\ tx.nonce = 0 /\ tx.dataLength = 5
      /\ tx.isGuarded = FALSE /\ tx.isRefund = FALSE /\ tx.original = <<>>
      /\ tx.sourceShard = Bob.shard /\ tx.destinationShard = Alice.shard /\ tx.epoch = epoch
      /\ tx.inner = inner /\ tx.events = <<>>
  BY <1>2 DEF Transaction, ContractResult
<1>8. tx \in ApiTransactions /\ tx.hash[1] = executed + 1
  <2>1. tx.events \in Seq(ReadableEvents(epoch))
    BY <1>7, NoEvents, Zenon
  <2>2. tx.type \in KnownTypes /\ tx.processing \in ProcessingTypes
    BY <1>7 DEF KnownTypes, ProcessingTypes
  <2>3. tx.value \in Nat /\ tx.fee \in Nat /\ tx.dataLength \in Nat
    BY <1>7, FeesAre, ZeroIs, FiveIs, Zenon
  <2> QED BY <1>4, <1>6, <1>7, <2>1, <2>2, <2>3, <1>5, MadeTransaction
<1>9. twin = [f \in Fields |-> twin[f]]
  BY <1>2 DEF Transaction, ContractResult, Fields
<1>10. /\ twin.type = "invalid" /\ twin.hash = <<executed + 1, 0>> /\ twin.sender = Bob
      /\ twin.receiver = Alice /\ twin.value = 0 /\ twin.fee = PaidFee
      /\ twin.relayer = NoAddress /\ twin.processing = "RelayedTx" /\ twin.operation = ""
      /\ twin.nonce = 0 /\ twin.dataLength = 5 /\ twin.isGuarded = FALSE
      /\ twin.isRefund = FALSE /\ twin.original = <<>> /\ twin.sourceShard = Bob.shard
      /\ twin.destinationShard = Alice.shard /\ twin.epoch = epoch /\ twin.inner = inner
      /\ twin.events = <<>>
  BY <1>2 DEF Transaction, ContractResult
<1>11. twin \in ApiTransactions /\ twin.hash[1] = executed + 1
  <2>1. twin.events \in Seq(ReadableEvents(epoch))
    BY <1>10, NoEvents, Zenon
  <2>2. twin.type \in KnownTypes /\ twin.processing \in ProcessingTypes
    BY <1>10 DEF KnownTypes, ProcessingTypes
  <2>3. twin.value \in Nat /\ twin.fee \in Nat /\ twin.dataLength \in Nat
    BY <1>10, FeesAre, ZeroIs, FiveIs, Zenon
  <2> QED BY <1>4, <1>9, <1>10, <2>1, <2>2, <2>3, <1>5, MadeTransaction
<1>12. decideFeePayer(twin) = Bob /\ FeeOfInvalidTx(twin) = PaidFee
  BY <1>10 DEF decideFeePayer, IsRelayedTxV3, FeeOfInvalidTx,
       isInvalidTransactionOfTypeMoveBalanceThatOnlyConsumesDataMovementGas
<1>13. PICK block : block = <<tx, twin>>
  OBVIOUS
<1>14. \A a, b :
         /\ Said(TxOperations(twin, block), a, b) = SumOf(Paid(Bob, PaidFee), ChangeWeight(a, b))
         /\ Paid(Bob, PaidFee) \in Seq(Changes)
  <2> TAKE a, b
  <2>1. /\ Said(TxOperations(twin, block), a, b)
              = SumOf(Paid(decideFeePayer(twin), FeeOfInvalidTx(twin)), ChangeWeight(a, b))
        /\ Paid(decideFeePayer(twin), FeeOfInvalidTx(twin)) \in Seq(Changes)
    BY <1>10, <1>11, InvalidSays
  <2> QED BY <1>12, <2>1, Zenon
<1>15. isRelayedV1Transaction(tx) /\ tx.hash = twin.hash /\ twin.type = "invalid"
  BY <1>7, <1>10 DEF isRelayedV1Transaction
<1>16. Execute(block, <<>>, Paid(Bob, PaidFee)) /\ block \in {<<tx, twin>>, <<twin, tx>>}
  BY <1>3, <1>13, Zenon
<1>17. Paid(Bob, PaidFee) \in Seq(Changes)
  BY <1>14, Zenon
<1>18. \A a \in Here : \A b \in ServedBalances :
         Said(TxOperations(twin, block), a, b) = SumOf(Paid(Bob, PaidFee), ChangeWeight(a, b))
  BY <1>14, Zenon
<1> QED BY <1>8, <1>11, <1>15, <1>16, <1>17, <1>18, ExecutionOfInvalid

\* What RewardTransaction changes is what its transactions say.
LEMMA RewardTransactionKeepsIInv ==
  ASSUME IInv, RewardTransaction
  PROVE  IInv'
<1> DEFINE Tx(to) == [Transaction(Alice, to, Amount) EXCEPT
                        !.type = "reward", !.sender = Metachain, !.fee = 0]
<1>1. PICK to \in {Alice, Con} : Execute(<<Tx(to)>>, <<>>, << Change(to, NativeBalance, Amount) >>)
  BY DEF RewardTransaction
<1>2. PICK tx : tx = Tx(to)
  OBVIOUS
<1>3. PICK cs : cs = << Change(to, NativeBalance, Amount) >>
  OBVIOUS
<1>4. to \in Accounts /\ Alice.shard \in Nat /\ to.shard \in Nat
  BY AccountsAre, AccountIs
<1>5. tx = [f \in Fields |-> tx[f]]
  BY <1>2 DEF Transaction, ContractResult, Fields
<1>6. /\ tx.type = "reward" /\ tx.hash = <<executed + 1, 0>> /\ tx.sender = Metachain
      /\ tx.receiver = to /\ tx.value = Amount /\ tx.fee = 0 /\ tx.relayer = NoAddress
      /\ tx.processing = "MoveBalance" /\ tx.operation = "" /\ tx.nonce = 0 /\ tx.dataLength = 0
      /\ tx.isGuarded = FALSE /\ tx.isRefund = FALSE /\ tx.original = <<>>
      /\ tx.sourceShard = Alice.shard /\ tx.destinationShard = to.shard /\ tx.epoch = epoch
      /\ tx.inner = NoInner /\ tx.events = <<>>
  BY <1>2 DEF Transaction, ContractResult
<1>7. tx \in ApiTransactions /\ tx.hash[1] = executed + 1
  <2>1. tx.events \in Seq(ReadableEvents(epoch))
    BY <1>6, NoEvents, Zenon
  <2>2. tx.type \in KnownTypes /\ tx.processing \in ProcessingTypes
    BY <1>6 DEF KnownTypes, ProcessingTypes
  <2>3. tx.value \in Nat /\ tx.fee \in Nat /\ tx.dataLength \in Nat
    BY <1>6, FeesAre, ZeroIs, Zenon
  <2> QED BY <1>4, <1>5, <1>6, <2>1, <2>2, <2>3, MadeTransaction
<1>8. ASSUME NEW a, NEW b
      PROVE  cs \in Seq(Changes)
             /\ Said(TxOperations(tx, <<tx>>), a, b) = SumOf(cs, ChangeWeight(a, b))
  <2>1. PICK block : block = <<tx>>
    OBVIOUS
  <2>2. Said(TxOperations(tx, block), a, b)
          = Said(MainOperations(tx, block), a, b) + Said(EventOperations(tx), a, b)
    BY <1>7, TxOperationsAre
  <2>3. Said(EventOperations(tx), a, b) = 0
    <3>1. EventOperations(tx) = <<>>
      BY <1>6, <1>7, OperationsOfOneEvent
    <3> QED BY <3>1, SaidNothing
  <2>4. MainOperations(tx, block) = rewardTxToRosettaTx(tx)
    BY <1>6, <1>7, MainOperationsAre
  <2>5. Said(rewardTxToRosettaTx(tx), a, b) = Share(tx.receiver, tx.value, NativeBalance, a, b)
    BY <1>7, RewardIs
  <2>6. Share(to, Amount, NativeBalance, a, b) \in Int
    BY FeesAre, ShareIsInt
  <2>7. /\ cs \in Seq(Changes)
        /\ SumOf(cs, ChangeWeight(a, b)) = Share(to, Amount, NativeBalance, a, b)
    BY <1>3, <1>4, OneNativeChange, Zenon
  <2>8. Share(tx.receiver, tx.value, NativeBalance, a, b) = Share(to, Amount, NativeBalance, a, b)
    BY <1>6, Zenon
  <2>9. Said(TxOperations(tx, block), a, b) = Share(to, Amount, NativeBalance, a, b)
    BY <2>2, <2>3, <2>4, <2>5, <2>6, <2>8
  <2> QED BY <2>1, <2>7, <2>9, Zenon
<1>9. Execute(<<tx>>, <<>>, cs)
  BY <1>1, <1>2, <1>3, Zenon
<1> QED BY <1>7, <1>8, <1>9, ExecutionOfOne

\* What ValueReturnsFromOtherShard changes is what its transactions say.
LEMMA ValueReturnsFromOtherShardKeepsIInv ==
  ASSUME IInv, ValueReturnsFromOtherShard
  PROVE  IInv'
<1>1. PICK scr : scr = [ContractResult(1, RemoteCon, Alice, Amount) EXCEPT !.original = <<0, 0>>]
  OBVIOUS
<1>2. PICK cs : cs = << Change(Alice, NativeBalance, Amount) >>
  OBVIOUS
<1>3. Execute(<<scr>>, <<>>, cs)
  BY <1>1, <1>2, Zenon DEF ValueReturnsFromOtherShard
<1>4. /\ Alice \in Accounts /\ RemoteCon \in Accounts
      /\ Alice.shard \in Nat /\ RemoteCon.shard \in Nat
  BY AccountsAre, AccountIs
<1>5. scr = [f \in Fields |-> scr[f]]
  BY <1>1 DEF Transaction, ContractResult, Fields
<1>6. /\ scr.type = "unsigned" /\ scr.hash = <<executed + 1, 1>> /\ scr.sender = RemoteCon
      /\ scr.receiver = Alice /\ scr.value = Amount /\ scr.fee = 0 /\ scr.relayer = NoAddress
      /\ scr.processing = "MoveBalance" /\ scr.operation = "" /\ scr.nonce = 0
      /\ scr.dataLength = 0 /\ scr.isGuarded = FALSE /\ scr.isRefund = FALSE
      /\ scr.original = <<0, 0>> /\ scr.sourceShard = RemoteCon.shard
      /\ scr.destinationShard = Alice.shard /\ scr.epoch = epoch /\ scr.inner = NoInner
      /\ scr.events = <<>>
  BY <1>1 DEF Transaction, ContractResult
<1>7. scr \in ApiTransactions /\ scr.hash[1] = executed + 1
  <2>1. scr.events \in Seq(ReadableEvents(epoch))
    BY <1>6, NoEvents, Zenon
  <2>2. scr.type \in KnownTypes /\ scr.processing \in ProcessingTypes
    BY <1>6 DEF KnownTypes, ProcessingTypes
  <2>3. scr.value \in Nat /\ scr.fee \in Nat /\ scr.dataLength \in Nat
    BY <1>6, FeesAre, ZeroIs, Zenon
  <2> QED BY <1>4, <1>5, <1>6, <2>1, <2>2, <2>3, MadeTransaction
<1>8. ASSUME NEW a \in Here, NEW b
      PROVE  Said(TxOperations(scr, <<scr>>), a, b) = SumOf(cs, ChangeWeight(a, b))
  <2>1. ~HoldsRewards(scr, <<scr>>)
    <3>1. Range(<<scr>>) = {scr} /\ scr.operation # "ClaimDeveloperRewards"
      BY <1>6, RangeOfFew
    <3> QED BY <3>1, NoRewards
  <2>2. ~isSmartContractResultIneffectiveRefund(scr) /\ ~scr.isRefund
    BY <1>6 DEF isSmartContractResultIneffectiveRefund
  <2>3. Said(TxOperations(scr, <<scr>>), a, b)
          = Flow(scr.sender, scr.receiver, scr.value, NativeBalance, a, b)
    BY <1>6, <1>7, <2>1, <2>2, ResultSays
  <2>4. Flow(scr.sender, scr.receiver, scr.value, NativeBalance, a, b)
          = Flow(RemoteCon, Alice, Amount, NativeBalance, a, b)
    BY <1>6, Zenon
  <2>5. Share(Alice, Amount, NativeBalance, a, b) \in Int
    BY FeesAre, ShareIsInt
  <2>6. Share(RemoteCon, -Amount, NativeBalance, a, b) = 0
    BY ShardsAre DEF Share
  <2>7. Flow(RemoteCon, Alice, Amount, NativeBalance, a, b)
          = Share(Alice, Amount, NativeBalance, a, b)
    BY <2>5, <2>6 DEF Flow
  <2>8. SumOf(cs, ChangeWeight(a, b)) = Share(Alice, Amount, NativeBalance, a, b)
    BY <1>2, <1>4, OneNativeChange, Zenon
  <2> QED BY <2>3, <2>4, <2>7, <2>8, Zenon
<1>9. cs \in Seq(Changes)
  BY <1>2, <1>4, OneNativeChange, Zenon
<1> QED BY <1>3, <1>7, <1>8, <1>9, ExecutionOfOne

\* A transaction with one event that is not an error.
LEMMA SuccessWithEventChanges ==
  ASSUME NEW tx \in ApiTransactions, tx.type = "normal", NEW event \in OrdinaryEvents(tx.epoch),
         tx.events = <<event>>, NEW block, NEW a, NEW b
  PROVE  /\ ChangesOf(tx) \in Seq(Changes)
         /\ OperationsOfEvent(tx, event) \in Seq(Operations)
         /\ Said(TxOperations(tx, block), a, b)
              = Flow(tx.sender, tx.receiver, tx.value, NativeBalance, a, b)
                + Share(decideFeePayer(tx), -tx.fee, NativeBalance, a, b)
                + Said(OperationsOfEvent(tx, event), a, b)
<1>1. ~hasAnySignalError(tx)
  BY SignalErrorIs DEF OrdinaryEvents
<1>2. EventOperations(tx) = OperationsOfEvent(tx, event)
  BY OperationsOfOneEvent
<1>3. tx.type # "reward"
  OBVIOUS
<1>4. ChangesOf(tx) \in Seq(Changes)
  BY <1>3, ChangesOfAre
<1>5. OperationsOfEvent(tx, event) \in Seq(Operations)
  BY OperationsOfEventAre
<1>6. Said(TxOperations(tx, block), a, b)
        = Flow(tx.sender, tx.receiver, tx.value, NativeBalance, a, b)
          + Share(decideFeePayer(tx), -tx.fee, NativeBalance, a, b)
          + Said(EventOperations(tx), a, b)
  BY <1>1, SuccessSays
<1> QED BY <1>2, <1>4, <1>5, <1>6, Zenon

\* A value moved from an account to another, and the fee for it.
LEMMA MovedForFee ==
  ASSUME NEW from \in Accounts, NEW to \in Accounts, NEW payer \in Accounts, NEW value \in Nat
  PROVE  \A a, b :
           /\ Moved(from, to, value, NativeBalance) \o Paid(payer, PaidFee) \in Seq(Changes)
           /\ SumOf(Moved(from, to, value, NativeBalance) \o Paid(payer, PaidFee), ChangeWeight(a, b))
                = Flow(from, to, value, NativeBalance, a, b)
                  + Share(payer, -PaidFee, NativeBalance, a, b)
<1>1. PICK fee \in Int, v \in Int : fee = PaidFee /\ v = value
  BY FeesAre
<1>2. ASSUME NEW a, NEW b
      PROVE  /\ Moved(from, to, v, NativeBalance) \o Paid(payer, fee) \in Seq(Changes)
             /\ SumOf(Moved(from, to, v, NativeBalance) \o Paid(payer, fee), ChangeWeight(a, b))
                  = Flow(from, to, v, NativeBalance, a, b) + Share(payer, -fee, NativeBalance, a, b)
  BY MovedAndPaid
<1> QED BY <1>1, <1>2, Zenon

\* What moves through an account does not change it.
LEMMA FlowThrough ==
  ASSUME NEW from, NEW through, NEW to, NEW value \in Int, NEW balance, NEW a, NEW b
  PROVE  Flow(from, through, value, balance, a, b) + Flow(through, to, value, balance, a, b)
           = Flow(from, to, value, balance, a, b)
<1>1. PICK minus \in Int : minus = -value
  OBVIOUS
<1>2. minus + value = 0 /\ value + minus = 0
  BY <1>1
<1> QED BY <1>1, <1>2 DEF Flow, Share

\* Some numbers, likewise.
LEMMA FewNumbers ==
  2 \in Nat /\ 3 \in Nat /\ 4 \in Nat /\ 5 \in Nat /\ 7 \in Nat
OBVIOUS

\* The address of deployments is not that of the contract.
LEMMA DistinctAccounts ==
  Con # systemContractDeployAddress
<1>1. DOMAIN AccountList = 1 .. 7
  BY DEF AccountList
<1>2. AccountList[3] # AccountList[5]
  BY <1>1, AccountAssumption
<1> QED BY <1>2 DEF AccountList

\* An event that transfers no tokens.
LEMMA PlainEvent ==
  ASSUME NEW ep, NEW event, event = [f \in EventFields |-> event[f]],
         event.identifier \in Identifiers, event.address \in Accounts,
         event.receiver \in Accounts \cup {NoAddress}, event.topics \in Nat,
         event.tokens = <<>>, event.value \in Int, event.data \in EventData,
         \/ event.identifier = "SCDeploy" /\ event.topics >= 2
         \/ /\ event.identifier \in {"transferValueOnly", "ClaimDeveloperRewards"}
            /\ event.receiver \in Accounts
            /\ \/ event.topics = 2
               \/ event.identifier = "transferValueOnly" /\ ~IsReleaseSiriusActive(ep)
  PROVE  event \in OrdinaryEvents(ep)
<1>1. event.tokens \in Seq({InEvent(token) : token \in Tokens \cup {NativeToken}})
  BY NoEvents, Zenon
<1>2. event \in ApiEvents
  BY <1>1, IsApiEvent
<1>3. IsReadable(event, ep)
  BY DEF IsReadable, HasRightTopics, TransferEvents, BurnEvents, MintEvents
<1>4. event.identifier # "signalError"
  OBVIOUS
<1> QED BY <1>2, <1>3, <1>4 DEF OrdinaryEvents, ReadableEvents

\* What Deployment changes is what its transactions say.
LEMMA DeploymentKeepsIInv ==
  ASSUME IInv, Deployment
  PROVE  IInv'
<1> DEFINE Deploys(topics) == Event("SCDeploy", NewCon, Alice, topics)
           Direct(value, topics) ==
             [Transaction(Alice, systemContractDeployAddress, value) EXCEPT
                !.processing = "SCDeployment", !.destinationShard = 0, !.events = <<Deploys(topics)>>]
           Indirect(value, topics) ==
             [Transaction(Alice, Con, value) EXCEPT
                !.processing = "SCInvoking", !.events = <<Deploys(topics)>>]
<1>1. PICK value \in Values, direct \in BOOLEAN, topics \in {2, 3} :
        Execute(<<IF direct THEN Direct(value, topics) ELSE Indirect(value, topics)>>, <<>>,
                Moved(Alice, IF direct THEN NewCon ELSE Con, value, NativeBalance)
                \o Paid(Alice, PaidFee))
  BY DEF Deployment
<1>2. /\ Alice \in Accounts /\ Con \in Accounts /\ NewCon \in Accounts
      /\ systemContractDeployAddress \in Accounts
      /\ Alice.shard \in Nat /\ Con.shard \in Nat /\ NewCon.shard \in Nat
      /\ systemContractDeployAddress.shard \in Nat /\ NoAddress \in Accounts \cup {NoAddress}
  BY AccountsAre, AccountIs
<1>3. PICK event : event = Deploys(topics)
  OBVIOUS
<1>4. event \in OrdinaryEvents(epoch) /\ event \in ReadableEvents(epoch)
      /\ event.identifier = "SCDeploy" /\ event.address = NewCon
  <2>1. event = [f \in EventFields |-> event[f]]
    BY <1>3 DEF Event, EventFields
  <2>2. /\ event.identifier = "SCDeploy" /\ event.address = NewCon /\ event.receiver = Alice
        /\ event.topics = topics /\ event.tokens = <<>> /\ event.value = 0 /\ event.data = ""
    BY <1>3 DEF Event
  <2>3. event.topics \in Nat /\ event.topics >= 2
    <3>1. topics \in Nat /\ topics >= 2
      OBVIOUS
    <3> QED BY <2>2, <3>1, Zenon
  <2>4. event.identifier \in Identifiers /\ event.data \in EventData
    BY <2>2 DEF Identifiers, EventData
  <2>5. event.value \in Int
    BY <2>2, ZeroIs, Zenon
  <2>6. event \in OrdinaryEvents(epoch)
    BY <1>2, <2>1, <2>2, <2>3, <2>4, <2>5, PlainEvent
  <2> QED BY <2>2, <2>6 DEF OrdinaryEvents
<1>5. PICK to : to = IF direct THEN NewCon ELSE Con
  OBVIOUS
<1>6. PICK cs : cs = Moved(Alice, to, value, NativeBalance) \o Paid(Alice, PaidFee)
  OBVIOUS
<1>7. value \in Nat /\ value \in Int /\ PaidFee \in Int
  BY FeesAre
<1>8. \A a, b : /\ cs \in Seq(Changes)
                /\ SumOf(cs, ChangeWeight(a, b))
                     = Flow(Alice, to, value, NativeBalance, a, b)
                       + Share(Alice, -PaidFee, NativeBalance, a, b)
  <2>1. to \in Accounts
    BY <1>2, <1>5
  <2> QED BY <1>2, <1>6, <1>7, <2>1, MovedForFee
<1>9. CASE direct
  <2>1. PICK tx : tx = Direct(value, topics)
    OBVIOUS
  <2>2. Execute(<<tx>>, <<>>, cs)
    BY <1>1, <1>5, <1>6, <1>9, <2>1, Zenon
  <2>3. tx = [f \in Fields |-> tx[f]]
    BY <1>3, <2>1 DEF Transaction, ContractResult, Fields
  <2>4. /\ tx.type = "normal" /\ tx.hash = <<executed + 1, 0>> /\ tx.sender = Alice
        /\ tx.receiver = systemContractDeployAddress /\ tx.value = value /\ tx.fee = PaidFee
        /\ tx.relayer = NoAddress /\ tx.processing = "SCDeployment" /\ tx.operation = ""
        /\ tx.nonce = 0 /\ tx.dataLength = 0 /\ tx.isGuarded = FALSE /\ tx.isRefund = FALSE
        /\ tx.original = <<>> /\ tx.sourceShard = Alice.shard /\ tx.destinationShard = 0
        /\ tx.epoch = epoch /\ tx.inner = NoInner /\ tx.events = <<event>>
    BY <1>3, <2>1 DEF Transaction, ContractResult
  <2>5. tx \in ApiTransactions /\ tx.hash[1] = executed + 1
    <3>1. tx.events \in Seq(ReadableEvents(epoch))
      BY <2>4, <1>4, OneOf, Zenon
    <3>2. tx.type \in KnownTypes /\ tx.processing \in ProcessingTypes
      BY <2>4 DEF KnownTypes, ProcessingTypes
    <3>3. tx.value \in Nat /\ tx.fee \in Nat /\ tx.dataLength \in Nat
      BY <2>4, FeesAre, ZeroIs, <1>7, Zenon
    <3> QED BY <1>2, <2>3, <2>4, <3>1, <3>2, <3>3, MadeTransaction
  <2>6. ASSUME NEW a, NEW b
        PROVE  Said(TxOperations(tx, <<tx>>), a, b) = SumOf(cs, ChangeWeight(a, b))
    <3>1. /\ Said(TxOperations(tx, <<tx>>), a, b)
               = Flow(tx.sender, tx.receiver, tx.value, NativeBalance, a, b)
                 + Share(decideFeePayer(tx), -tx.fee, NativeBalance, a, b)
                 + Said(OperationsOfEvent(tx, event), a, b)
      <4>1. tx.events = <<event>> /\ event \in OrdinaryEvents(tx.epoch) /\ tx.type = "normal"
        BY <1>4, <2>4, Zenon
      <4> QED BY <2>5, <4>1, SuccessWithEventChanges
    <3>2. decideFeePayer(tx) = Alice
      BY <2>4 DEF decideFeePayer, IsRelayedTxV3
    <3>3. OperationsOfEvent(tx, event)
            = Movement("Transfer", systemContractDeployAddress, NewCon, value, Native)
      BY <1>4, <2>4 DEF OperationsOfEvent, TransferEvents, BurnEvents, MintEvents
    <3>4. Said(Movement("Transfer", systemContractDeployAddress, NewCon, value, Native), a, b)
            = Flow(systemContractDeployAddress, NewCon, value, NativeBalance, a, b)
      <4>1. "Transfer" \in OperationTypes
        BY DEF OperationTypes
      <4> QED BY <1>2, <1>7, <4>1, NativeMovement
    <3>5. Said(TxOperations(tx, <<tx>>), a, b)
            = Flow(Alice, systemContractDeployAddress, value, NativeBalance, a, b)
              + Share(Alice, -PaidFee, NativeBalance, a, b)
              + Flow(systemContractDeployAddress, NewCon, value, NativeBalance, a, b)
      BY <2>4, <3>1, <3>2, <3>3, <3>4, Zenon
    <3>6. PICK f, g, s : /\ f = Flow(Alice, systemContractDeployAddress, value, NativeBalance, a, b)
                         /\ g = Flow(systemContractDeployAddress, NewCon, value, NativeBalance, a, b)
                         /\ s = Share(Alice, -PaidFee, NativeBalance, a, b)
      OBVIOUS
    <3>7. f \in Int /\ g \in Int /\ s \in Int
      <4>1. -PaidFee \in Int
        BY <1>7
      <4> QED BY <1>7, <3>6, <4>1, FlowIsInt, ShareIsInt
    <3>8. f + g = Flow(Alice, NewCon, value, NativeBalance, a, b)
      BY <1>7, <3>6, FlowThrough
    <3>9. f + s + g = (f + g) + s
      BY <3>7
    <3>10. to = NewCon
      BY <1>5, <1>9
    <3> QED BY <1>8, <3>5, <3>6, <3>8, <3>9, <3>10, Zenon
  <2>7. cs \in Seq(Changes)
    BY <1>8, Zenon
  <2> QED BY <2>2, <2>5, <2>6, <2>7, ExecutionOfOne
<1>10. CASE ~direct
  <2>1. PICK tx : tx = Indirect(value, topics)
    OBVIOUS
  <2>2. Execute(<<tx>>, <<>>, cs)
    BY <1>1, <1>5, <1>6, <1>10, <2>1, Zenon
  <2>3. tx = [f \in Fields |-> tx[f]]
    BY <1>3, <2>1 DEF Transaction, ContractResult, Fields
  <2>4. /\ tx.type = "normal" /\ tx.hash = <<executed + 1, 0>> /\ tx.sender = Alice
        /\ tx.receiver = Con /\ tx.value = value /\ tx.fee = PaidFee /\ tx.relayer = NoAddress
        /\ tx.processing = "SCInvoking" /\ tx.operation = "" /\ tx.nonce = 0 /\ tx.dataLength = 0
        /\ tx.isGuarded = FALSE /\ tx.isRefund = FALSE /\ tx.original = <<>>
        /\ tx.sourceShard = Alice.shard /\ tx.destinationShard = Con.shard /\ tx.epoch = epoch
        /\ tx.inner = NoInner /\ tx.events = <<event>>
    BY <1>3, <2>1 DEF Transaction, ContractResult
  <2>5. tx \in ApiTransactions /\ tx.hash[1] = executed + 1
    <3>1. tx.events \in Seq(ReadableEvents(epoch))
      BY <2>4, <1>4, OneOf, Zenon
    <3>2. tx.type \in KnownTypes /\ tx.processing \in ProcessingTypes
      BY <2>4 DEF KnownTypes, ProcessingTypes
    <3>3. tx.value \in Nat /\ tx.fee \in Nat /\ tx.dataLength \in Nat
      BY <2>4, FeesAre, ZeroIs, <1>7, Zenon
    <3> QED BY <1>2, <2>3, <2>4, <3>1, <3>2, <3>3, MadeTransaction
  <2>6. ASSUME NEW a, NEW b
        PROVE  Said(TxOperations(tx, <<tx>>), a, b) = SumOf(cs, ChangeWeight(a, b))
    <3>1. /\ Said(TxOperations(tx, <<tx>>), a, b)
               = Flow(tx.sender, tx.receiver, tx.value, NativeBalance, a, b)
                 + Share(decideFeePayer(tx), -tx.fee, NativeBalance, a, b)
                 + Said(OperationsOfEvent(tx, event), a, b)
      <4>1. tx.events = <<event>> /\ event \in OrdinaryEvents(tx.epoch) /\ tx.type = "normal"
        BY <1>4, <2>4, Zenon
      <4> QED BY <2>5, <4>1, SuccessWithEventChanges
    <3>2. decideFeePayer(tx) = Alice
      BY <2>4 DEF decideFeePayer, IsRelayedTxV3
    <3>3. OperationsOfEvent(tx, event) = <<>>
      BY <1>4, <2>4, DistinctAccounts DEF OperationsOfEvent, TransferEvents, BurnEvents, MintEvents
    <3>4. Said(OperationsOfEvent(tx, event), a, b) = 0
      BY <3>3, SaidNothing
    <3>5. PICK f, s : /\ f = Flow(Alice, Con, value, NativeBalance, a, b)
                      /\ s = Share(Alice, -PaidFee, NativeBalance, a, b)
      OBVIOUS
    <3>6. f \in Int /\ s \in Int
      <4>1. -PaidFee \in Int
        BY <1>7
      <4> QED BY <1>7, <3>5, <4>1, FlowIsInt, ShareIsInt
    <3>7. Said(TxOperations(tx, <<tx>>), a, b) = f + s + 0
      BY <2>4, <3>1, <3>2, <3>4, <3>5, Zenon
    <3>8. f + s + 0 = f + s
      BY <3>6
    <3>9. to = Con
      BY <1>5, <1>10
    <3> QED BY <1>8, <3>5, <3>7, <3>8, <3>9, Zenon
  <2>7. cs \in Seq(Changes)
    BY <1>8, Zenon
  <2> QED BY <2>2, <2>5, <2>6, <2>7, ExecutionOfOne
<1> QED BY <1>9, <1>10

\* A transaction and its contract result have different hashes.
LEMMA DifferentHashes ==
  \A n : <<n, 0>> # <<n, 1>>
OBVIOUS

ValueEvent(identifier, address, receiver, topics, data) ==
  [Event(identifier, address, receiver, topics) EXCEPT !.value = Amount, !.data = data]

\* An event that tells of value can be read.
LEMMA ValueEventIs ==
  ASSUME NEW ep, NEW identifier \in {"transferValueOnly", "ClaimDeveloperRewards"},
         NEW address \in Accounts, NEW receiver \in Accounts, NEW topics \in Nat,
         NEW data \in EventData,
         topics = 2 \/ (identifier = "transferValueOnly" /\ ~IsReleaseSiriusActive(ep))
  PROVE  /\ ValueEvent(identifier, address, receiver, topics, data) \in OrdinaryEvents(ep)
         /\ ValueEvent(identifier, address, receiver, topics, data) \in ReadableEvents(ep)
<1>1. PICK event : event = ValueEvent(identifier, address, receiver, topics, data)
  OBVIOUS
<1>2. event = [f \in EventFields |-> event[f]]
  BY <1>1 DEF ValueEvent, Event, EventFields
<1>3. /\ event.identifier = identifier /\ event.address = address /\ event.receiver = receiver
      /\ event.topics = topics /\ event.tokens = <<>> /\ event.value = Amount /\ event.data = data
  BY <1>1 DEF ValueEvent, Event
<1>4. event.identifier \in Identifiers
  BY <1>3 DEF Identifiers
<1>5. event.value \in Int
  BY <1>3, FeesAre, Zenon
<1>6. event \in OrdinaryEvents(ep)
  BY <1>2, <1>3, <1>4, <1>5, PlainEvent
<1>7. event \in ReadableEvents(ep)
  BY <1>6 DEF OrdinaryEvents
<1> QED BY <1>1, <1>6, <1>7, Zenon

\* The fields of such an event.
LEMMA ValueEventFields ==
  ASSUME NEW identifier, NEW address, NEW receiver, NEW topics, NEW data, NEW event,
         event = ValueEvent(identifier, address, receiver, topics, data)
  PROVE  /\ event.identifier = identifier /\ event.address = address
         /\ event.receiver = receiver /\ event.value = Amount /\ event.data = data
BY DEF ValueEvent, Event

\* What ContractPays changes is what its transactions say.
LEMMA ContractPaysKeepsIInv ==
  ASSUME IInv, ContractPays
  PROVE  IInv'
<1> DEFINE Topics == IF IsReleaseSiriusActive(epoch) THEN 2 ELSE 3
           Pays(to, data) ==
             [Event("transferValueOnly", Con, to, Topics) EXCEPT !.value = Amount, !.data = data]
           Tx(to, data) ==
             [Transaction(Alice, Con, 0) EXCEPT
                !.processing = "SCInvoking", !.events = << Pays(to, data) >>]
           EventOnly(to, data) ==
             IsReleaseSiriusActive(epoch) /\ data # "DirectCall" /\ to.shard = Con.shard
<1>1. PICK to \in {Bob, Carol}, data \in {"ExecuteOnDestContext", "AsyncCall", "DirectCall"} :
        Execute(IF EventOnly(to, data) THEN <<Tx(to, data)>>
                ELSE <<Tx(to, data), ContractResult(1, Con, to, Amount)>>, <<>>,
                Moved(Con, to, Amount, NativeBalance) \o Paid(Alice, PaidFee))
  BY DEF ContractPays
<1>2. /\ Alice \in Accounts /\ Con \in Accounts /\ to \in Accounts
      /\ Alice.shard \in Nat /\ Con.shard \in Nat /\ to.shard \in Nat
  BY AccountsAre, AccountIs
<1>3. PICK event, tx, scr : /\ event = Pays(to, data) /\ tx = Tx(to, data)
                            /\ scr = ContractResult(1, Con, to, Amount)
  OBVIOUS
<1>4. PICK cs : cs = Moved(Con, to, Amount, NativeBalance) \o Paid(Alice, PaidFee)
  OBVIOUS
<1>5. /\ event \in OrdinaryEvents(epoch) /\ event \in ReadableEvents(epoch)
      /\ event.identifier = "transferValueOnly" /\ event.address = Con
      /\ event.receiver = to /\ event.value = Amount /\ event.data = data
  <2>1. data \in EventData
    BY DEF EventData
  <2>2. PICK topics : topics = Topics
    OBVIOUS
  <2>3. topics \in Nat /\ (topics = 2 \/ ~IsReleaseSiriusActive(epoch))
    BY <2>2
  <2>4. event = ValueEvent("transferValueOnly", Con, to, topics, data)
    BY <1>3, <2>2, Zenon DEF ValueEvent
  <2>5. PICK identifier \in {"transferValueOnly", "ClaimDeveloperRewards"} :
          identifier = "transferValueOnly"
    OBVIOUS
  <2>6. topics = 2 \/ (identifier = "transferValueOnly" /\ ~IsReleaseSiriusActive(epoch))
    BY <2>3, <2>5
  <2>7. /\ ValueEvent(identifier, Con, to, topics, data) \in OrdinaryEvents(epoch)
        /\ ValueEvent(identifier, Con, to, topics, data) \in ReadableEvents(epoch)
    BY <1>2, <2>1, <2>3, <2>6, ValueEventIs
  <2>8. /\ event.identifier = "transferValueOnly" /\ event.address = Con
        /\ event.receiver = to /\ event.value = Amount /\ event.data = data
    BY <2>4, ValueEventFields
  <2> QED BY <2>4, <2>5, <2>7, <2>8, Zenon
<1>6. tx = [f \in Fields |-> tx[f]]
  BY <1>3 DEF Transaction, ContractResult, Fields
<1>7. /\ tx.type = "normal" /\ tx.hash = <<executed + 1, 0>> /\ tx.sender = Alice
      /\ tx.receiver = Con /\ tx.value = 0 /\ tx.fee = PaidFee /\ tx.relayer = NoAddress
      /\ tx.processing = "SCInvoking" /\ tx.operation = "" /\ tx.nonce = 0 /\ tx.dataLength = 0
      /\ tx.isGuarded = FALSE /\ tx.isRefund = FALSE /\ tx.original = <<>>
      /\ tx.sourceShard = Alice.shard /\ tx.destinationShard = Con.shard /\ tx.epoch = epoch
      /\ tx.inner = NoInner /\ tx.events = <<event>>
  BY <1>3 DEF Transaction, ContractResult
<1>8. tx \in ApiTransactions /\ tx.hash[1] = executed + 1
  <2>1. tx.events \in Seq(ReadableEvents(epoch))
    BY <1>7, <1>5, OneOf, Zenon
  <2>2. tx.type \in KnownTypes /\ tx.processing \in ProcessingTypes
    BY <1>7 DEF KnownTypes, ProcessingTypes
  <2>3. tx.value \in Nat /\ tx.fee \in Nat /\ tx.dataLength \in Nat
    BY <1>7, FeesAre, ZeroIs, Zenon
  <2> QED BY <1>2, <1>6, <1>7, <2>1, <2>2, <2>3, MadeTransaction
<1>9. scr = [f \in Fields |-> scr[f]]
  BY <1>3 DEF Transaction, ContractResult, Fields
<1>10. /\ scr.type = "unsigned" /\ scr.hash = <<executed + 1, 1>> /\ scr.sender = Con
      /\ scr.receiver = to /\ scr.value = Amount /\ scr.fee = 0 /\ scr.relayer = NoAddress
      /\ scr.processing = "MoveBalance" /\ scr.operation = "" /\ scr.nonce = 0
      /\ scr.dataLength = 0 /\ scr.isGuarded = FALSE /\ scr.isRefund = FALSE
      /\ scr.original = <<executed + 1, 0>> /\ scr.sourceShard = Con.shard
      /\ scr.destinationShard = to.shard /\ scr.epoch = epoch /\ scr.inner = NoInner
      /\ scr.events = <<>>
  BY <1>3 DEF Transaction, ContractResult
<1>11. scr \in ApiTransactions /\ scr.hash[1] = executed + 1
  <2>1. scr.events \in Seq(ReadableEvents(epoch))
    BY <1>10, NoEvents, Zenon
  <2>2. scr.type \in KnownTypes /\ scr.processing \in ProcessingTypes
    BY <1>10 DEF KnownTypes, ProcessingTypes
  <2>3. scr.value \in Nat /\ scr.fee \in Nat /\ scr.dataLength \in Nat
    BY <1>10, FeesAre, ZeroIs, Zenon
  <2> QED BY <1>2, <1>9, <1>10, <2>1, <2>2, <2>3, MadeTransaction
<1>12. \A a, b : /\ cs \in Seq(Changes)
                 /\ SumOf(cs, ChangeWeight(a, b))
                      = Flow(Con, to, Amount, NativeBalance, a, b)
                        + Share(Alice, -PaidFee, NativeBalance, a, b)
  BY <1>2, <1>4, FeesAre, MovedForFee
<1>13. ASSUME NEW block, NEW a, NEW b
       PROVE  Said(TxOperations(tx, block), a, b)
                = Share(Alice, -PaidFee, NativeBalance, a, b)
                  + (IF Amount # 0 /\ EventOnly(to, data)
                     THEN Flow(Con, to, Amount, NativeBalance, a, b) ELSE 0)
  <2>1. Said(TxOperations(tx, block), a, b)
             = Flow(tx.sender, tx.receiver, tx.value, NativeBalance, a, b)
               + Share(decideFeePayer(tx), -tx.fee, NativeBalance, a, b)
               + Said(OperationsOfEvent(tx, event), a, b)
    <3>1. tx.events = <<event>> /\ event \in OrdinaryEvents(tx.epoch) /\ tx.type = "normal"
      BY <1>5, <1>7, Zenon
    <3> QED BY <1>8, <3>1, SuccessWithEventChanges
  <2>2. decideFeePayer(tx) = Alice
    BY <1>7 DEF decideFeePayer, IsRelayedTxV3
  <2>3. Flow(tx.sender, tx.receiver, tx.value, NativeBalance, a, b) = 0
    <3>1. Flow(Alice, Con, 0, NativeBalance, a, b) = 0
      BY FlowOfNothing
    <3> QED BY <1>7, <3>1, Zenon
  <2>4. OperationsOfEvent(tx, event)
          = IF Amount # 0 /\ EventOnly(to, data)
            THEN Movement("Transfer", Con, to, Amount, Native) ELSE <<>>
    <3>1. OperationsOfEvent(tx, event)
            = IF IsReleaseSiriusActive(tx.epoch) /\ IsEffectiveTransferValueOnly(event)
              THEN Movement("Transfer", event.address, event.receiver, event.value, Native) ELSE <<>>
      BY <1>5 DEF OperationsOfEvent, TransferEvents, BurnEvents, MintEvents
    <3>2. IsReleaseSiriusActive(tx.epoch) /\ IsEffectiveTransferValueOnly(event)
            <=> Amount # 0 /\ EventOnly(to, data)
      BY <1>5, <1>7 DEF IsEffectiveTransferValueOnly, EffectiveData
    <3> HIDE DEF EventOnly
    <3> QED BY <1>5, <3>1, <3>2, Zenon
  <2>5. Said(Movement("Transfer", Con, to, Amount, Native), a, b)
          = Flow(Con, to, Amount, NativeBalance, a, b)
    <3>1. "Transfer" \in OperationTypes
      BY DEF OperationTypes
    <3> QED BY <1>2, <3>1, FeesAre, NativeMovement
  <2>6. Said(<<>>, a, b) = 0
    BY SaidNothing
  <2> HIDE DEF EventOnly
  <2>7. Said(OperationsOfEvent(tx, event), a, b)
          = IF Amount # 0 /\ EventOnly(to, data)
            THEN Flow(Con, to, Amount, NativeBalance, a, b) ELSE 0
    BY <2>4, <2>5, <2>6, Zenon
  <2>8. PICK s, e : /\ s = Share(Alice, -PaidFee, NativeBalance, a, b)
                    /\ e = Said(OperationsOfEvent(tx, event), a, b)
    OBVIOUS
  <2>9. s \in Int /\ e \in Int
    <3>1. -PaidFee \in Int
      BY FeesAre
    <3>2. s \in Int
      BY <2>8, <3>1, ShareIsInt
    <3>3. Flow(Con, to, Amount, NativeBalance, a, b) \in Int
      BY FeesAre, FlowIsInt
    <3>4. e \in Int
      BY <2>7, <2>8, <3>3, ZeroIs, Zenon
    <3> QED BY <3>2, <3>4
  <2>10. Said(TxOperations(tx, block), a, b) = 0 + s + e
    BY <1>7, <2>1, <2>2, <2>3, <2>8, Zenon
  <2>11. 0 + s + e = s + e
    BY <2>9
  <2> QED BY <2>7, <2>8, <2>10, <2>11, Zenon
<1>14. ASSUME NEW a, NEW b
       PROVE  /\ Flow(Con, to, Amount, NativeBalance, a, b) \in Int
              /\ Share(Alice, -PaidFee, NativeBalance, a, b) \in Int
              /\ Amount = 0 => Flow(Con, to, Amount, NativeBalance, a, b) = 0
  <2>1. -PaidFee \in Int /\ Amount \in Int
    BY FeesAre
  <2>2. /\ Flow(Con, to, Amount, NativeBalance, a, b) \in Int
        /\ Share(Alice, -PaidFee, NativeBalance, a, b) \in Int
    BY <2>1, FlowIsInt, ShareIsInt
  <2>3. Amount = 0 => Flow(Con, to, Amount, NativeBalance, a, b) = 0
    BY FlowOfNothing, Zenon
  <2> QED BY <2>2, <2>3
<1>15. cs \in Seq(Changes)
  BY <1>12, Zenon
<1>16. CASE EventOnly(to, data)
  <2>1. Execute(<<tx>>, <<>>, cs)
    BY <1>1, <1>3, <1>4, <1>16, Zenon
  <2>2. ASSUME NEW a, NEW b
        PROVE  Said(TxOperations(tx, <<tx>>), a, b) = SumOf(cs, ChangeWeight(a, b))
    <3>1. PICK f, s : /\ f = Flow(Con, to, Amount, NativeBalance, a, b)
                      /\ s = Share(Alice, -PaidFee, NativeBalance, a, b)
      OBVIOUS
    <3>2. f \in Int /\ s \in Int /\ (Amount = 0 => f = 0)
      BY <1>14, <3>1, Zenon
    <3> HIDE DEF EventOnly
    <3>3. Said(TxOperations(tx, <<tx>>), a, b) = s + (IF Amount # 0 THEN f ELSE 0)
      BY <1>13, <1>16, <3>1, Zenon
    <3>4. s + (IF Amount # 0 THEN f ELSE 0) = f + s
      BY <3>2
    <3> QED BY <1>12, <3>1, <3>3, <3>4, Zenon
  <2> QED BY <1>8, <1>15, <2>1, <2>2, ExecutionOfOne, ZenonT(40)
<1>17. CASE ~EventOnly(to, data)
  <2>1. PICK block : block = <<tx, scr>>
    OBVIOUS
  <2>2. Execute(<<tx, scr>>, <<>>, cs)
    BY <1>1, <1>3, <1>4, <1>17, Zenon
  <2>3. ASSUME NEW a, NEW b
        PROVE  Said(TxOperations(tx, <<tx, scr>>), a, b) + Said(TxOperations(scr, <<tx, scr>>), a, b)
                 = SumOf(cs, ChangeWeight(a, b))
    <3>1. PICK f, s : /\ f = Flow(Con, to, Amount, NativeBalance, a, b)
                      /\ s = Share(Alice, -PaidFee, NativeBalance, a, b)
      OBVIOUS
    <3>2. f \in Int /\ s \in Int
      BY <1>14, <3>1, Zenon
    <3>3. Said(TxOperations(tx, block), a, b) = s + 0
      <4> HIDE DEF EventOnly
      <4> QED BY <1>13, <1>17, <3>1, Zenon
    <3>4. Said(TxOperations(scr, block), a, b) = f
      <4>1. Said(TxOperations(scr, block), a, b)
              = Flow(scr.sender, scr.receiver, scr.value, NativeBalance, a, b)
        <5>1. ~HoldsRewards(scr, block)
          <6>1. Range(block) = {tx, scr}
            BY <2>1, RangeOfFew
          <6>2. tx.operation = "" /\ scr.operation = ""
            BY <1>7, <1>10, Zenon
          <6> QED BY <6>1, <6>2, NoRewards
        <5>2. scr.isRefund = FALSE /\ scr.type = "unsigned" /\ scr.events = <<>>
          BY <1>10, Zenon
        <5> QED BY <1>11, <5>1, <5>2, ResultSays DEF isSmartContractResultIneffectiveRefund
      <4> QED BY <1>10, <3>1, <4>1, Zenon
    <3>5. (s + 0) + f = f + s
      BY <3>2
    <3> QED BY <1>12, <2>1, <3>1, <3>3, <3>4, <3>5, Zenon
  <2>4. tx.hash # scr.hash /\ tx.type # "invalid" /\ scr.type # "invalid"
    <3>1. tx.hash # scr.hash
      BY <1>7, <1>10, DifferentHashes, Zenon
    <3> QED BY <1>7, <1>10, <3>1
  <2> QED BY <1>8, <1>11, <1>15, <2>2, <2>3, <2>4, ExecutionOfTwo
<1> QED BY <1>16, <1>17

\* One account's balance changes, and a fee is paid for it.
LEMMA ChangedForFee ==
  ASSUME NEW value \in Int, NEW account \in Accounts, NEW balance \in Balances,
         NEW payer \in Accounts
  PROVE  \A a, b :
           /\ << Change(account, balance, value) >> \o Paid(payer, PaidFee) \in Seq(Changes)
           /\ SumOf(<< Change(account, balance, value) >> \o Paid(payer, PaidFee), ChangeWeight(a, b))
                = Share(account, value, balance, a, b) + Share(payer, -PaidFee, NativeBalance, a, b)
<1> TAKE a, b
<1>1. PICK fee \in Int : fee = PaidFee
  BY FeesAre
<1>2. PICK s, t : s = << Change(account, balance, value) >> /\ t = Paid(payer, PaidFee)
  OBVIOUS
<1>3. /\ s \in Seq(Changes)
      /\ SumOf(s, ChangeWeight(a, b)) = Share(account, value, balance, a, b)
  BY <1>2, OneChange
<1>4. /\ t \in Seq(Changes)
      /\ SumOf(t, ChangeWeight(a, b)) = Share(payer, -PaidFee, NativeBalance, a, b)
  <2>1. /\ Paid(payer, fee) \in Seq(Changes)
        /\ SumOf(Paid(payer, fee), ChangeWeight(a, b)) = Share(payer, -fee, NativeBalance, a, b)
    BY PaidIs
  <2> QED BY <1>1, <1>2, <2>1, Zenon
<1>5. /\ s \o t \in Seq(Changes)
      /\ SumOf(s \o t, ChangeWeight(a, b))
           = SumOf(s, ChangeWeight(a, b)) + SumOf(t, ChangeWeight(a, b))
  BY <1>3, <1>4, ChangesConcat
<1> QED BY <1>2, <1>3, <1>4, <1>5, Zenon

\* What ClaimDeveloperRewards changes is what its transactions say.
LEMMA ClaimDeveloperRewardsKeepsIInv ==
  ASSUME IInv, ClaimDeveloperRewards
  PROVE  IInv'
<1> DEFINE Claimed == [Event("ClaimDeveloperRewards", Con, Alice, 2) EXCEPT !.value = Amount]
           Tx == [Transaction(Alice, Con, 0) EXCEPT
                    !.processing = "BuiltInFunctionCall", !.operation = "ClaimDeveloperRewards",
                    !.dataLength = 5,
                    !.events = IF IsReleaseSpicaActive(epoch) THEN << Claimed >> ELSE <<>>]
<1>1. PICK event, tx, scr : /\ event = Claimed /\ tx = Tx
                            /\ scr = ContractResult(1, Alice, Alice, Amount)
  OBVIOUS
<1>2. PICK cs, events : /\ cs = << Change(Alice, NativeBalance, Amount) >> \o Paid(Alice, PaidFee)
                        /\ events = IF IsReleaseSpicaActive(epoch) THEN << event >> ELSE <<>>
  OBVIOUS
<1>3. Execute(<<tx, scr>>, <<>>, cs)
  BY <1>1, <1>2, Zenon DEF ClaimDeveloperRewards
<1>4. /\ Alice \in Accounts /\ Con \in Accounts /\ Alice.shard \in Nat /\ Con.shard \in Nat
  BY AccountsAre, AccountIs
<1>5. /\ event \in OrdinaryEvents(epoch) /\ event \in ReadableEvents(epoch)
      /\ event.identifier = "ClaimDeveloperRewards" /\ event.receiver = Alice /\ event.value = Amount
  <2>1. event = [f \in EventFields |-> event[f]]
    BY <1>1 DEF Event, EventFields
  <2>2. /\ event.identifier = "ClaimDeveloperRewards" /\ event.address = Con
        /\ event.receiver = Alice /\ event.topics = 2 /\ event.tokens = <<>>
        /\ event.value = Amount /\ event.data = ""
    BY <1>1 DEF Event
  <2>3. event.identifier \in Identifiers /\ event.data \in EventData
    BY <2>2 DEF Identifiers, EventData
  <2>4. event.value \in Int /\ event.topics \in Nat
    BY <2>2, FeesAre, FewNumbers, Zenon
  <2>5. event \in OrdinaryEvents(epoch)
    BY <1>4, <2>1, <2>2, <2>3, <2>4, PlainEvent
  <2> QED BY <2>2, <2>5 DEF OrdinaryEvents
<1>6. events \in Seq(ReadableEvents(epoch))
  BY <1>2, <1>5, OneOf, NoEvents, Zenon
<1>7. tx = [f \in Fields |-> tx[f]]
  BY <1>1, <1>2 DEF Transaction, ContractResult, Fields
<1>8. /\ tx.type = "normal" /\ tx.hash = <<executed + 1, 0>> /\ tx.sender = Alice
      /\ tx.receiver = Con /\ tx.value = 0 /\ tx.fee = PaidFee /\ tx.relayer = NoAddress
      /\ tx.processing = "BuiltInFunctionCall" /\ tx.operation = "ClaimDeveloperRewards"
      /\ tx.nonce = 0 /\ tx.dataLength = 5 /\ tx.isGuarded = FALSE /\ tx.isRefund = FALSE
      /\ tx.original = <<>> /\ tx.sourceShard = Alice.shard /\ tx.destinationShard = Con.shard
      /\ tx.epoch = epoch /\ tx.inner = NoInner /\ tx.events = events
  BY <1>1, <1>2 DEF Transaction, ContractResult
<1>9. tx \in ApiTransactions /\ tx.hash[1] = executed + 1
  <2>1. tx.events \in Seq(ReadableEvents(epoch))
    BY <1>8, <1>6, Zenon
  <2>2. tx.type \in KnownTypes /\ tx.processing \in ProcessingTypes
    BY <1>8 DEF KnownTypes, ProcessingTypes
  <2>3. tx.value \in Nat /\ tx.fee \in Nat /\ tx.dataLength \in Nat
    BY <1>8, FeesAre, ZeroIs, FiveIs, Zenon
  <2> QED BY <1>4, <1>7, <1>8, <2>1, <2>2, <2>3, MadeTransaction
<1>10. scr = [f \in Fields |-> scr[f]]
  BY <1>1 DEF Transaction, ContractResult, Fields
<1>11. /\ scr.type = "unsigned" /\ scr.hash = <<executed + 1, 1>> /\ scr.sender = Alice
      /\ scr.receiver = Alice /\ scr.value = Amount /\ scr.fee = 0 /\ scr.relayer = NoAddress
      /\ scr.processing = "MoveBalance" /\ scr.operation = "" /\ scr.nonce = 0
      /\ scr.dataLength = 0 /\ scr.isGuarded = FALSE /\ scr.isRefund = FALSE
      /\ scr.original = <<executed + 1, 0>> /\ scr.sourceShard = Alice.shard
      /\ scr.destinationShard = Alice.shard /\ scr.epoch = epoch /\ scr.inner = NoInner
      /\ scr.events = <<>>
  BY <1>1 DEF Transaction, ContractResult
<1>12. scr \in ApiTransactions /\ scr.hash[1] = executed + 1
  <2>1. scr.events \in Seq(ReadableEvents(epoch))
    BY <1>11, NoEvents, Zenon
  <2>2. scr.type \in KnownTypes /\ scr.processing \in ProcessingTypes
    BY <1>11 DEF KnownTypes, ProcessingTypes
  <2>3. scr.value \in Nat /\ scr.fee \in Nat /\ scr.dataLength \in Nat
    BY <1>11, FeesAre, ZeroIs, Zenon
  <2> QED BY <1>4, <1>10, <1>11, <2>1, <2>2, <2>3, MadeTransaction
<1>13. \A a, b : /\ cs \in Seq(Changes)
                 /\ SumOf(cs, ChangeWeight(a, b))
                      = Share(Alice, Amount, NativeBalance, a, b)
                        + Share(Alice, -PaidFee, NativeBalance, a, b)
  <2>1. NativeBalance \in Balances /\ Amount \in Int
    BY FeesAre DEF Balances
  <2>2. PICK balance \in Balances, value \in Int : balance = NativeBalance /\ value = Amount
    BY <2>1
  <2>3. \A a, b :
          /\ << Change(Alice, balance, value) >> \o Paid(Alice, PaidFee) \in Seq(Changes)
          /\ SumOf(<< Change(Alice, balance, value) >> \o Paid(Alice, PaidFee), ChangeWeight(a, b))
               = Share(Alice, value, balance, a, b) + Share(Alice, -PaidFee, NativeBalance, a, b)
    BY <1>4, ChangedForFee
  <2> QED BY <1>2, <2>2, <2>3, Zenon
<1>14. PICK block : block = <<tx, scr>>
  OBVIOUS
<1>15. decideFeePayer(tx) = Alice
  BY <1>8 DEF decideFeePayer, IsRelayedTxV3
<1>16. ASSUME NEW a, NEW b
       PROVE  Said(TxOperations(tx, block), a, b) + Said(TxOperations(scr, block), a, b)
                = SumOf(cs, ChangeWeight(a, b))
  <2>1. PICK r, s : /\ r = Share(Alice, Amount, NativeBalance, a, b)
                    /\ s = Share(Alice, -PaidFee, NativeBalance, a, b)
    OBVIOUS
  <2>2. r \in Int /\ s \in Int
    <3>1. -PaidFee \in Int /\ Amount \in Int
      BY FeesAre
    <3> QED BY <2>1, <3>1, ShareIsInt
  <2>3. Flow(tx.sender, tx.receiver, tx.value, NativeBalance, a, b) = 0
    <3>1. Flow(Alice, Con, 0, NativeBalance, a, b) = 0
      BY FlowOfNothing
    <3> QED BY <1>8, <3>1, Zenon
  <2>4. Said(TxOperations(scr, block), a, b)
           = IF isSmartContractResultIneffectiveRefund(scr) THEN 0
             ELSE IF scr.isRefund \/ HoldsRewards(scr, block)
                  THEN Share(scr.receiver, scr.value, NativeBalance, a, b)
                  ELSE Flow(scr.sender, scr.receiver, scr.value, NativeBalance, a, b)
    BY <1>11, <1>12, ResultSays
  <2>5. ~isSmartContractResultIneffectiveRefund(scr) /\ ~scr.isRefund
    BY <1>11 DEF isSmartContractResultIneffectiveRefund
  <2>6. CASE IsReleaseSpicaActive(epoch)
    <3>1. ~HoldsRewards(scr, block)
      BY <1>11, <2>6 DEF HoldsRewards
    <3>2. Said(TxOperations(scr, block), a, b) = 0
      <4>1. Flow(Alice, Alice, Amount, NativeBalance, a, b) = 0
        BY FeesAre, FlowOfNothing
      <4> QED BY <1>11, <2>4, <2>5, <3>1, <4>1, Zenon
    <3>3. Said(TxOperations(tx, block), a, b)
            = Flow(tx.sender, tx.receiver, tx.value, NativeBalance, a, b)
              + Share(decideFeePayer(tx), -tx.fee, NativeBalance, a, b)
              + Said(OperationsOfEvent(tx, event), a, b)
      <4>1. tx.events = <<event>> /\ event \in OrdinaryEvents(tx.epoch) /\ tx.type = "normal"
        BY <1>2, <1>5, <1>8, <2>6, Zenon
      <4> QED BY <1>9, <4>1, SuccessWithEventChanges
    <3>4. Said(OperationsOfEvent(tx, event), a, b) = r
      <4>1. OperationsOfEvent(tx, event)
              = << Operation("DeveloperRewards", event.receiver, event.value, Native) >>
        BY <1>5, <1>8, <2>6 DEF OperationsOfEvent, TransferEvents, BurnEvents, MintEvents
      <4>2. "DeveloperRewards" \in OperationTypes
        BY DEF OperationTypes
      <4>3. Said(<< Operation("DeveloperRewards", Alice, Amount, Native) >>, a, b) = r
        BY <1>4, <2>1, <4>2, FeesAre, NativeOperation
      <4> QED BY <1>5, <4>1, <4>3, Zenon
    <3>5. Said(TxOperations(tx, block), a, b) = 0 + s + r
      BY <1>8, <1>15, <2>1, <2>3, <3>3, <3>4, Zenon
    <3>6. (0 + s + r) + 0 = r + s
      BY <2>2
    <3> QED BY <1>13, <2>1, <3>2, <3>5, <3>6, Zenon
  <2>7. CASE ~IsReleaseSpicaActive(epoch)
    <3>1. HoldsRewards(scr, block)
      <4>1. DOMAIN block = {1, 2} /\ block[1] = tx
        BY <1>14
      <4> QED BY <1>8, <1>11, <2>7, <4>1
           DEF HoldsRewards, doesContractResultHoldRewardsOfClaimDeveloperRewards
    <3>2. Said(TxOperations(scr, block), a, b) = r
      BY <1>11, <2>1, <2>4, <2>5, <3>1, Zenon
    <3>3. Said(TxOperations(tx, block), a, b)
            = Flow(tx.sender, tx.receiver, tx.value, NativeBalance, a, b)
              + Share(decideFeePayer(tx), -tx.fee, NativeBalance, a, b)
      <4>1. tx.events = <<>> /\ tx.type = "normal"
        BY <1>2, <1>8, <2>7, Zenon
      <4> QED BY <1>9, <4>1, QuietSuccessSays
    <3>4. Said(TxOperations(tx, block), a, b) = 0 + s
      BY <1>8, <1>15, <2>1, <2>3, <3>3, Zenon
    <3>5. (0 + s) + r = r + s
      BY <2>2
    <3> QED BY <1>13, <2>1, <3>2, <3>4, <3>5, Zenon
  <2> QED BY <2>6, <2>7
<1>17. tx.hash # scr.hash /\ tx.type # "invalid" /\ scr.type # "invalid"
  <2>1. tx.hash # scr.hash
    BY <1>8, <1>11, DifferentHashes, Zenon
  <2> QED BY <1>8, <1>11, <2>1
<1>18. cs \in Seq(Changes)
  BY <1>13, Zenon
<1>19. \A a \in Here : \A b \in ServedBalances :
         Said(TxOperations(tx, <<tx, scr>>), a, b) + Said(TxOperations(scr, <<tx, scr>>), a, b)
           = SumOf(cs, ChangeWeight(a, b))
  BY <1>14, <1>16, Zenon
<1> QED BY <1>3, <1>9, <1>12, <1>17, <1>18, <1>19, ExecutionOfTwo

\* What SupplyChange changes is what its transactions say.
LEMMA SupplyChangeKeepsIInv ==
  ASSUME IInv, SupplyChange
  PROVE  IInv'
<1> DEFINE Account(identifier) == IF identifier = "ESDTWipe" THEN Bob ELSE Alice
           Receiver(identifier) == IF identifier = "ESDTWipe" THEN Bob ELSE NoAddress
           Topics(identifier) == IF identifier \in {"ESDTWipe", "ESDTNFTCreate"} THEN 4 ELSE 3
           Supplied(token, identifier) ==
             [Event(identifier, Alice, Receiver(identifier), Topics(identifier))
                EXCEPT !.tokens = <<InEvent(token)>>]
           Tx(token, identifier) ==
             [Transaction(Alice, Alice, 0) EXCEPT
                !.processing = "BuiltInFunctionCall", !.events = << Supplied(token, identifier) >>]
           Sign(identifier) ==
             IF identifier \in {"ESDTLocalBurn", "ESDTNFTBurn", "ESDTWipe"} THEN -1 ELSE 1
<1>1. PICK token \in Tokens, identifier \in BurnEvents \cup MintEvents :
        Execute(<<Tx(token, identifier)>>, <<>>,
                << Change(Account(identifier), BalanceOf(token), Sign(identifier) * token.value) >>
                \o Paid(Alice, PaidFee))
  BY DEF SupplyChange
<1>2. PICK event, tx, account, sign :
        /\ event = Supplied(token, identifier) /\ tx = Tx(token, identifier)
        /\ account = Account(identifier) /\ sign = Sign(identifier)
  OBVIOUS
<1>3. PICK cs : cs = << Change(account, BalanceOf(token), sign * token.value) >> \o Paid(Alice, PaidFee)
  OBVIOUS
<1>4. Execute(<<tx>>, <<>>, cs)
  BY <1>1, <1>2, <1>3, Zenon
<1>5. /\ Alice \in Accounts /\ Alice.shard \in Nat /\ account \in Accounts
      /\ Receiver(identifier) \in Accounts \cup {NoAddress}
  BY <1>2, AccountsAre, AccountIs
<1>6. /\ event.identifier = identifier /\ event.address = Alice
      /\ event.receiver = Receiver(identifier) /\ event.topics = Topics(identifier)
      /\ event.tokens = <<InEvent(token)>> /\ event.value = 0 /\ event.data = ""
  BY <1>2 DEF Event
<1>7. event \in OrdinaryEvents(epoch) /\ event \in ReadableEvents(epoch)
  <2>1. event = [f \in EventFields |-> event[f]]
    BY <1>2 DEF Event, EventFields
  <2>2. event.tokens \in Seq({InEvent(t) : t \in Tokens \cup {NativeToken}})
    <3>1. InEvent(token) \in {InEvent(t) : t \in Tokens \cup {NativeToken}}
      OBVIOUS
    <3> QED BY <1>6, <3>1, OneOf, Zenon
  <2>3. event.identifier \in Identifiers /\ event.data \in EventData
    BY <1>6 DEF Identifiers, EventData
  <2>4. event.value \in Int /\ event.topics \in Nat
    BY <1>6, ZeroIs, FewNumbers, Zenon
  <2>5. event \in ApiEvents
    BY <1>5, <1>6, <2>1, <2>2, <2>3, <2>4, IsApiEvent
  <2>6. Len(event.tokens) = 1 /\ event.tokens[1] = InEvent(token)
    BY <1>6, FirstOf, Zenon
  <2>7. SupplyAccount(event) \in Accounts
    BY <1>5, <1>6, AccountsAre DEF SupplyAccount
  <2>8. HasRightTopics(event)
    BY <1>6 DEF HasRightTopics, BurnEvents, MintEvents
  <2>9. event.identifier \notin TransferEvents \cup {"transferValueOnly", "ClaimDeveloperRewards"}
        /\ event.identifier # "signalError"
    BY <1>6 DEF TransferEvents, BurnEvents, MintEvents
  <2> QED BY <2>5, <2>6, <2>7, <2>8, <2>9 DEF OrdinaryEvents, ReadableEvents, IsReadable
<1>8. tx = [f \in Fields |-> tx[f]]
  BY <1>2 DEF Transaction, ContractResult, Fields
<1>9. /\ tx.type = "normal" /\ tx.hash = <<executed + 1, 0>> /\ tx.sender = Alice
      /\ tx.receiver = Alice /\ tx.value = 0 /\ tx.fee = PaidFee /\ tx.relayer = NoAddress
      /\ tx.processing = "BuiltInFunctionCall" /\ tx.operation = "" /\ tx.nonce = 0
      /\ tx.dataLength = 0 /\ tx.isGuarded = FALSE /\ tx.isRefund = FALSE /\ tx.original = <<>>
      /\ tx.sourceShard = Alice.shard /\ tx.destinationShard = Alice.shard /\ tx.epoch = epoch
      /\ tx.inner = NoInner /\ tx.events = <<event>>
  BY <1>2 DEF Transaction, ContractResult
<1>10. tx \in ApiTransactions /\ tx.hash[1] = executed + 1
  <2>1. tx.events \in Seq(ReadableEvents(epoch))
    BY <1>9, <1>7, OneOf, Zenon
  <2>2. tx.type \in KnownTypes /\ tx.processing \in ProcessingTypes
    BY <1>9 DEF KnownTypes, ProcessingTypes
  <2>3. tx.value \in Nat /\ tx.fee \in Nat /\ tx.dataLength \in Nat
    BY <1>9, FeesAre, ZeroIs, Zenon
  <2> QED BY <1>5, <1>8, <1>9, <2>1, <2>2, <2>3, MadeTransaction
<1>11. sign \in {-1, 1}
  BY <1>2
<1>12. OperationsOfEvent(tx, event) = OperationsOfSupply(account, InEvent(token), sign)
  <2>1. event.tokens[1] = InEvent(token)
    BY <1>6, FirstOf, Zenon
  <2>2. SupplyAccount(event) = account
    BY <1>2, <1>6 DEF SupplyAccount
  <2>3. CASE identifier \in BurnEvents
    <3>1. OperationsOfEvent(tx, event) = OperationsOfSupply(SupplyAccount(event), event.tokens[1], -1)
      BY <1>6, <2>3 DEF OperationsOfEvent, TransferEvents, BurnEvents, MintEvents
    <3>2. sign = -1
      BY <1>2, <2>3 DEF BurnEvents
    <3> QED BY <2>1, <2>2, <3>1, <3>2
  <2>4. CASE identifier \in MintEvents
    <3>1. OperationsOfEvent(tx, event) = OperationsOfSupply(SupplyAccount(event), event.tokens[1], 1)
      BY <1>6, <2>4 DEF OperationsOfEvent, TransferEvents, BurnEvents, MintEvents
    <3>2. sign = 1
      BY <1>2, <2>4 DEF MintEvents
    <3> QED BY <2>1, <2>2, <3>1, <3>2
  <2> QED BY <2>3, <2>4
<1>13. PICK value, balance : value = sign * token.value /\ balance = BalanceOf(token)
  OBVIOUS
<1>14. value \in Int /\ balance \in Balances
  <2>1. token.value \in Int /\ -token.value \in Int
    BY TokenIs
  <2>2. value \in Int
    BY <1>11, <1>13, <2>1
  <2>3. balance \in Balances
    BY <1>13 DEF Balances
  <2> QED BY <2>2, <2>3
<1>15. \A a, b : /\ cs \in Seq(Changes)
                 /\ SumOf(cs, ChangeWeight(a, b))
                      = Share(account, value, balance, a, b)
                        + Share(Alice, -PaidFee, NativeBalance, a, b)
  <2>1. \A a, b :
           /\ << Change(account, balance, value) >> \o Paid(Alice, PaidFee) \in Seq(Changes)
           /\ SumOf(<< Change(account, balance, value) >> \o Paid(Alice, PaidFee), ChangeWeight(a, b))
                = Share(account, value, balance, a, b) + Share(Alice, -PaidFee, NativeBalance, a, b)
    BY <1>5, <1>14, ChangedForFee
  <2> QED BY <1>3, <1>13, <2>1, Zenon
<1>16. ASSUME NEW a, NEW b \in ServedBalances
       PROVE  Said(TxOperations(tx, <<tx>>), a, b) = SumOf(cs, ChangeWeight(a, b))
  <2>1. Said(TxOperations(tx, <<tx>>), a, b)
             = Flow(tx.sender, tx.receiver, tx.value, NativeBalance, a, b)
               + Share(decideFeePayer(tx), -tx.fee, NativeBalance, a, b)
               + Said(OperationsOfEvent(tx, event), a, b)
    <3>1. tx.events = <<event>> /\ event \in OrdinaryEvents(tx.epoch) /\ tx.type = "normal"
      BY <1>7, <1>9, Zenon
    <3> QED BY <1>10, <3>1, SuccessWithEventChanges
  <2>2. decideFeePayer(tx) = Alice
    BY <1>9 DEF decideFeePayer, IsRelayedTxV3
  <2>3. Flow(tx.sender, tx.receiver, tx.value, NativeBalance, a, b) = 0
    <3>1. Flow(Alice, Alice, 0, NativeBalance, a, b) = 0
      BY FlowOfNothing
    <3> QED BY <1>9, <3>1, Zenon
  <2>4. Said(OperationsOfSupply(account, InEvent(token), sign), a, b)
          = Share(account, sign * token.value, BalanceOf(token), a, b)
    BY <1>5, <1>11, SupplyIs
  <2>5. PICK r, s : /\ r = Share(account, value, balance, a, b)
                    /\ s = Share(Alice, -PaidFee, NativeBalance, a, b)
    OBVIOUS
  <2>6. r \in Int /\ s \in Int
    <3>1. -PaidFee \in Int
      BY FeesAre
    <3> QED BY <1>14, <2>5, <3>1, ShareIsInt
  <2>7. Said(TxOperations(tx, <<tx>>), a, b) = 0 + s + r
    BY <1>9, <1>12, <1>13, <2>1, <2>2, <2>3, <2>4, <2>5, Zenon
  <2>8. 0 + s + r = r + s
    BY <2>6
  <2> QED BY <1>15, <2>5, <2>7, <2>8, Zenon
<1>17. cs \in Seq(Changes)
  BY <1>15, Zenon
<1> QED BY <1>4, <1>10, <1>16, <1>17, ExecutionOfOne

\* A function on {1} is a sequence of one element ...
LEMMA OneElement ==
  ASSUME NEW u, u = [i \in {1} |-> u[i]], NEW y, u[1] = y
  PROVE  u = <<y>>
<1>1. PICK v : v = <<y>>
  OBVIOUS
<1>2. v = [i \in {1} |-> v[i]] /\ v[1] = y
  BY <1>1
<1> QED BY <1>1, <1>2

\* ... and one on {1, 2} is a sequence of two.
LEMMA TwoElements ==
  ASSUME NEW u, u = [i \in {1, 2} |-> u[i]], NEW y, NEW z, u[1] = y, u[2] = z
  PROVE  u = <<y, z>>
<1>1. PICK v : v = <<y, z>>
  OBVIOUS
<1>2. v = [i \in {1, 2} |-> v[i]] /\ v[1] = y /\ v[2] = z
  BY <1>1
<1> QED BY <1>1, <1>2

Movable == Tokens \cup {NativeToken}

\* The balances that move.
LEMMA MovableIs ==
  ASSUME NEW token \in Movable
  PROVE  token.value \in Int /\ BalanceOf(token) \in Balances
<1>1. CASE token \in Tokens
  BY <1>1, TokenIs DEF Balances
<1>2. CASE token = NativeToken
  BY <1>2, NativeTokenIs DEF Balances
<1> QED BY <1>1, <1>2 DEF Movable

\* What changes when tokens leave Alice.
MovedTokens(to, tokens) ==
  FlattenSeq([i \in DOMAIN tokens |->
    Moved(Alice, to, tokens[i].value, BalanceOf(tokens[i]))])

\* The changes of one token that is transferred.
LEMMA MovedOf ==
  ASSUME NEW to \in Accounts, NEW token \in Movable, NEW a, NEW b
  PROVE  /\ Moved(Alice, to, token.value, BalanceOf(token)) \in Seq(Changes)
         /\ SumOf(Moved(Alice, to, token.value, BalanceOf(token)), ChangeWeight(a, b))
              = Flow(Alice, to, token.value, BalanceOf(token), a, b)
<1>1. PICK value \in Int, balance \in Balances : value = token.value /\ balance = BalanceOf(token)
  BY MovableIs
<1>2. Alice \in Accounts
  BY AccountsAre
<1>3. /\ Moved(Alice, to, value, balance) \in Seq(Changes)
      /\ SumOf(Moved(Alice, to, value, balance), ChangeWeight(a, b))
           = Flow(Alice, to, value, balance, a, b)
  BY <1>2, MovedIs
<1> QED BY <1>1, <1>3, Zenon

\* The same, as the transfer makes them.
LEMMA MovedOne ==
  ASSUME NEW to \in Accounts, NEW token \in Movable, NEW a, NEW b
  PROVE  /\ MovedTokens(to, <<token>>) \in Seq(Changes)
         /\ SumOf(MovedTokens(to, <<token>>), ChangeWeight(a, b))
              = Flow(Alice, to, token.value, BalanceOf(token), a, b)
<1>1. PICK m : m = Moved(Alice, to, token.value, BalanceOf(token))
  OBVIOUS
<1>2. m \in Seq(Changes) /\ SumOf(m, ChangeWeight(a, b))
                              = Flow(Alice, to, token.value, BalanceOf(token), a, b)
  BY <1>1, MovedOf
<1>3. PICK tokens : tokens = <<token>>
  OBVIOUS
<1>4. PICK u : u = [i \in DOMAIN tokens |-> Moved(Alice, to, tokens[i].value, BalanceOf(tokens[i]))]
  OBVIOUS
<1>5. DOMAIN tokens = {1} /\ tokens[1] = token
  BY <1>3
<1>6. u = [i \in {1} |-> u[i]] /\ u[1] = m
  BY <1>1, <1>4, <1>5
<1>7. u = <<m>>
  BY <1>6, OneElement
<1>8. FlattenSeq(<<m>>) = m
  BY <1>2, FlattenFew
<1>9. MovedTokens(to, <<token>>) = m
  BY <1>3, <1>4, <1>7, <1>8, Zenon DEF MovedTokens
<1> QED BY <1>2, <1>9, Zenon

\* The changes of two tokens that are transferred.
LEMMA MovedTwo ==
  ASSUME NEW to \in Accounts, NEW token \in Movable, NEW other \in Movable, NEW a, NEW b
  PROVE  /\ MovedTokens(to, <<token, other>>) \in Seq(Changes)
         /\ SumOf(MovedTokens(to, <<token, other>>), ChangeWeight(a, b))
              = Flow(Alice, to, token.value, BalanceOf(token), a, b)
                + Flow(Alice, to, other.value, BalanceOf(other), a, b)
<1>1. PICK m, n : /\ m = Moved(Alice, to, token.value, BalanceOf(token))
                  /\ n = Moved(Alice, to, other.value, BalanceOf(other))
  OBVIOUS
<1>2. m \in Seq(Changes) /\ SumOf(m, ChangeWeight(a, b))
                              = Flow(Alice, to, token.value, BalanceOf(token), a, b)
  BY <1>1, MovedOf
<1>3. n \in Seq(Changes) /\ SumOf(n, ChangeWeight(a, b))
                              = Flow(Alice, to, other.value, BalanceOf(other), a, b)
  BY <1>1, MovedOf
<1>4. PICK tokens : tokens = <<token, other>>
  OBVIOUS
<1>5. PICK u : u = [i \in DOMAIN tokens |-> Moved(Alice, to, tokens[i].value, BalanceOf(tokens[i]))]
  OBVIOUS
<1>6. DOMAIN tokens = {1, 2} /\ tokens[1] = token /\ tokens[2] = other
  BY <1>4
<1>7. u = [i \in {1, 2} |-> u[i]] /\ u[1] = m /\ u[2] = n
  BY <1>1, <1>5, <1>6
<1>8. u = <<m, n>>
  BY <1>7, TwoElements
<1>9. FlattenSeq(<<m, n>>) = m \o n
  BY <1>2, <1>3, FlattenFew
<1>10. MovedTokens(to, <<token, other>>) = m \o n
  BY <1>4, <1>5, <1>8, <1>9, Zenon DEF MovedTokens
<1>11. m \o n \in Seq(Changes) /\ SumOf(m \o n, ChangeWeight(a, b))
                                    = SumOf(m, ChangeWeight(a, b)) + SumOf(n, ChangeWeight(a, b))
  BY <1>2, <1>3, ChangesConcat
<1> QED BY <1>2, <1>3, <1>10, <1>11, Zenon

\* What the operations of the event that tells it say.
TransferOperations(event) ==
  FlattenSeq([i \in DOMAIN event.tokens |-> OperationsOfTransfer(event, event.tokens[i])])

\* What the operations of an event with one token say ...
LEMMA TransfersOne ==
  ASSUME NEW event, event.address \in Accounts, event.receiver \in Accounts, NEW token \in Movable,
         event.tokens = << InEvent(token) >>, NEW a, NEW b \in ServedBalances
  PROVE  Said(TransferOperations(event), a, b)
           = Flow(event.address, event.receiver, token.value, BalanceOf(token), a, b)
<1>1. PICK m : m = OperationsOfTransfer(event, InEvent(token))
  OBVIOUS
<1>2. /\ m \in Seq(Operations)
      /\ Said(m, a, b) = Flow(event.address, event.receiver, token.value, BalanceOf(token), a, b)
  BY <1>1, TransferIs DEF Movable
<1>3. PICK u : u = [i \in DOMAIN event.tokens |-> OperationsOfTransfer(event, event.tokens[i])]
  OBVIOUS
<1>4. DOMAIN event.tokens = {1} /\ event.tokens[1] = InEvent(token)
  <2>1. PICK tokens : tokens = << InEvent(token) >>
    OBVIOUS
  <2>2. DOMAIN tokens = {1} /\ tokens[1] = InEvent(token)
    BY <2>1
  <2> QED BY <2>1, <2>2, Zenon
<1>5. u = [i \in {1} |-> u[i]] /\ u[1] = m
  BY <1>1, <1>3, <1>4
<1>6. u = <<m>>
  BY <1>5, OneElement
<1>7. FlattenSeq(<<m>>) = m
  BY <1>2, FlattenFew
<1>8. TransferOperations(event) = m
  BY <1>3, <1>6, <1>7, Zenon DEF TransferOperations
<1> QED BY <1>2, <1>8, Zenon

\* ... and those of one with two.
LEMMA TransfersTwo ==
  ASSUME NEW event, event.address \in Accounts, event.receiver \in Accounts,
         NEW token \in Movable, NEW other \in Movable,
         event.tokens = << InEvent(token), InEvent(other) >>, NEW a, NEW b \in ServedBalances
  PROVE  Said(TransferOperations(event), a, b)
           = Flow(event.address, event.receiver, token.value, BalanceOf(token), a, b)
             + Flow(event.address, event.receiver, other.value, BalanceOf(other), a, b)
<1>1. PICK m, n : /\ m = OperationsOfTransfer(event, InEvent(token))
                  /\ n = OperationsOfTransfer(event, InEvent(other))
  OBVIOUS
<1>2. /\ m \in Seq(Operations)
      /\ Said(m, a, b) = Flow(event.address, event.receiver, token.value, BalanceOf(token), a, b)
  BY <1>1, TransferIs DEF Movable
<1>3. /\ n \in Seq(Operations)
      /\ Said(n, a, b) = Flow(event.address, event.receiver, other.value, BalanceOf(other), a, b)
  BY <1>1, TransferIs DEF Movable
<1>4. PICK u : u = [i \in DOMAIN event.tokens |-> OperationsOfTransfer(event, event.tokens[i])]
  OBVIOUS
<1>5. /\ DOMAIN event.tokens = {1, 2}
      /\ event.tokens[1] = InEvent(token) /\ event.tokens[2] = InEvent(other)
  <2>1. PICK tokens : tokens = << InEvent(token), InEvent(other) >>
    OBVIOUS
  <2>2. DOMAIN tokens = {1, 2} /\ tokens[1] = InEvent(token) /\ tokens[2] = InEvent(other)
    BY <2>1
  <2> QED BY <2>1, <2>2, Zenon
<1>6. u = [i \in {1, 2} |-> u[i]] /\ u[1] = m /\ u[2] = n
  BY <1>1, <1>4, <1>5
<1>7. u = <<m, n>>
  BY <1>6, TwoElements
<1>8. FlattenSeq(<<m, n>>) = m \o n
  BY <1>2, <1>3, FlattenFew
<1>9. TransferOperations(event) = m \o n
  BY <1>4, <1>7, <1>8, Zenon DEF TransferOperations
<1>10. Said(m \o n, a, b) = Said(m, a, b) + Said(n, a, b)
  BY <1>2, <1>3, SaidConcat
<1> QED BY <1>2, <1>3, <1>9, <1>10, Zenon

\* Tokens, as an event tells them.
LEMMA TokensInEvent ==
  ASSUME NEW token, NEW other
  PROVE  /\ [i \in DOMAIN <<token>> |-> InEvent(<<token>>[i])] = << InEvent(token) >>
         /\ [i \in DOMAIN <<token, other>> |-> InEvent(<<token, other>>[i])]
              = << InEvent(token), InEvent(other) >>
<1>1. PICK s, t : s = <<token>> /\ t = <<token, other>>
  OBVIOUS
<1>2. /\ DOMAIN s = {1} /\ s[1] = token
      /\ DOMAIN t = {1, 2} /\ t[1] = token /\ t[2] = other
  BY <1>1
<1>3. PICK u, v : u = [i \in DOMAIN s |-> InEvent(s[i])] /\ v = [i \in DOMAIN t |-> InEvent(t[i])]
  OBVIOUS
<1>4. u = [i \in {1} |-> u[i]] /\ u[1] = InEvent(token)
  BY <1>2, <1>3
<1>5. v = [i \in {1, 2} |-> v[i]] /\ v[1] = InEvent(token) /\ v[2] = InEvent(other)
  BY <1>2, <1>3
<1>6. u = << InEvent(token) >>
  BY <1>4, OneElement
<1>7. v = << InEvent(token), InEvent(other) >>
  BY <1>5, TwoElements
<1> QED BY <1>1, <1>3, <1>6, <1>7, Zenon

TransferEvent(identifier, to, topics, tokens) ==
  [Event(identifier, Alice, to, topics) EXCEPT !.tokens = tokens]

\* The event of a transfer can be read.
LEMMA TransferEventIs ==
  ASSUME NEW ep, NEW to \in Accounts, NEW tokens,
         tokens \in Seq({InEvent(token) : token \in Tokens \cup {NativeToken}}),
         NEW identifier, NEW topics,
         \/ identifier = "MultiESDTNFTTransfer" /\ topics = 7
         \/ identifier \in {"ESDTTransfer", "ESDTNFTTransfer"} /\ topics = 4,
         NEW event, event = TransferEvent(identifier, to, topics, tokens)
  PROVE  /\ event \in OrdinaryEvents(ep) /\ event \in ReadableEvents(ep)
         /\ event.identifier \in TransferEvents
         /\ event.address = Alice /\ event.receiver = to /\ event.tokens = tokens
<1>1. event = [f \in EventFields |-> event[f]]
  BY DEF TransferEvent, Event, EventFields
<1>2. /\ event.identifier = identifier /\ event.address = Alice /\ event.receiver = to
      /\ event.topics = topics /\ event.tokens = tokens /\ event.value = 0 /\ event.data = ""
  BY DEF TransferEvent, Event
<1>3. event.identifier \in Identifiers /\ event.data \in EventData
      /\ event.identifier \in TransferEvents
  BY <1>2 DEF Identifiers, EventData, TransferEvents
<1>4. event.value \in Int /\ event.topics \in Nat
  BY <1>2, ZeroIs, FewNumbers, Zenon
<1>5. Alice \in Accounts
  BY AccountsAre
<1>6. event \in ApiEvents
  <2>1. event.tokens \in Seq({InEvent(token) : token \in Tokens \cup {NativeToken}})
    BY <1>2, Zenon
  <2>2. event.address \in Accounts /\ event.receiver \in Accounts \cup {NoAddress}
    BY <1>2, <1>5
  <2> QED BY <1>1, <1>3, <1>4, <2>1, <2>2, IsApiEvent
<1>7. HasRightTopics(event)
  <2>1. PICK seven \in Nat : seven = 7
    OBVIOUS
  <2>2. seven % 3 = 1
    BY <2>1
  <2>3. event.identifier = "MultiESDTNFTTransfer" => event.topics % 3 = 1
    BY <1>2, <2>1, <2>2, Zenon
  <2>4. event.identifier \in {"ESDTTransfer", "ESDTNFTTransfer"} => event.topics = 4
    BY <1>2
  <2>5. CASE event.identifier = "MultiESDTNFTTransfer"
    BY <2>3, <2>5 DEF HasRightTopics
  <2>6. CASE event.identifier \in {"ESDTTransfer", "ESDTNFTTransfer"}
    BY <2>4, <2>6 DEF HasRightTopics
  <2> QED BY <1>3, <2>5, <2>6 DEF TransferEvents
<1>8. IsReadable(event, ep)
  <2>1. event.receiver \in Accounts
    BY <1>2
  <2>2. event.identifier \notin BurnEvents \cup MintEvents
    BY <1>3 DEF TransferEvents, BurnEvents, MintEvents
  <2> QED BY <1>7, <2>1, <2>2 DEF IsReadable
<1>9. event.identifier # "signalError"
  BY <1>3 DEF TransferEvents
<1> QED BY <1>2, <1>3, <1>6, <1>8, <1>9 DEF OrdinaryEvents, ReadableEvents

\* What TokenTransfer changes is what its transactions say.
LEMMA TokenTransferKeepsIInv ==
  ASSUME IInv, TokenTransfer
  PROVE  IInv'
<1> DEFINE TokensOf(token, withNative) == IF withNative THEN <<token, NativeToken>> ELSE <<token>>
           Identifier(token, withNative) ==
             IF withNative THEN "MultiESDTNFTTransfer"
             ELSE IF token.nonce = 0 THEN "ESDTTransfer" ELSE "ESDTNFTTransfer"
           Transfers(token, to, withNative) ==
             [Event(Identifier(token, withNative), Alice, to, IF withNative THEN 7 ELSE 4)
                EXCEPT !.tokens = [i \in DOMAIN TokensOf(token, withNative) |->
                                     InEvent(TokensOf(token, withNative)[i])]]
           Tx(token, to, withNative) ==
             [Transaction(Alice, to, 0) EXCEPT
                !.processing = "BuiltInFunctionCall",
                !.events = << Transfers(token, to, withNative) >>]
<1>1. PICK token \in Tokens, to \in {Bob, Carol}, withNative \in BOOLEAN :
        Execute(<<Tx(token, to, withNative)>>, <<>>,
                MovedTokens(to, TokensOf(token, withNative)) \o Paid(Alice, PaidFee))
  BY DEF TokenTransfer, MovedTokens
<1>2. PICK tokens, identifier, topics, told :
        /\ tokens = TokensOf(token, withNative) /\ identifier = Identifier(token, withNative)
        /\ topics = (IF withNative THEN 7 ELSE 4)
        /\ told = [i \in DOMAIN tokens |-> InEvent(tokens[i])]
  OBVIOUS
<1>3. PICK event, tx, moved :
        /\ event = TransferEvent(identifier, to, topics, told)
        /\ tx = [Transaction(Alice, to, 0) EXCEPT
                   !.processing = "BuiltInFunctionCall", !.events = << event >>]
        /\ moved = MovedTokens(to, tokens)
  OBVIOUS
<1>4. Execute(<<tx>>, <<>>, moved \o Paid(Alice, PaidFee))
  BY <1>1, <1>2, <1>3, Zenon DEF TransferEvent
<1>5. /\ Alice \in Accounts /\ to \in Accounts /\ Alice.shard \in Nat /\ to.shard \in Nat
  BY AccountsAre, AccountIs
<1>6. token \in Movable /\ NativeToken \in Movable
  BY DEF Movable
<1>7. /\ withNative => told = << InEvent(token), InEvent(NativeToken) >>
      /\ ~withNative => told = << InEvent(token) >>
  BY <1>2, TokensInEvent, Zenon
<1>8. told \in Seq({InEvent(t) : t \in Tokens \cup {NativeToken}})
  <2>1. PICK S : S = {InEvent(t) : t \in Tokens \cup {NativeToken}}
    OBVIOUS
  <2>2. InEvent(token) \in S /\ InEvent(NativeToken) \in S
    BY <2>1
  <2>3. << InEvent(token) >> \in Seq(S) /\ << InEvent(token), InEvent(NativeToken) >> \in Seq(S)
    BY <2>2, TupleFacts
  <2> QED BY <1>7, <2>1, <2>3, Zenon
<1>9. /\ event \in OrdinaryEvents(epoch) /\ event \in ReadableEvents(epoch)
      /\ event.identifier \in TransferEvents
      /\ event.address = Alice /\ event.receiver = to /\ event.tokens = told
  <2>1. \/ identifier = "MultiESDTNFTTransfer" /\ topics = 7
        \/ identifier \in {"ESDTTransfer", "ESDTNFTTransfer"} /\ topics = 4
    BY <1>2
  <2> QED BY <1>3, <1>5, <1>8, <2>1, TransferEventIs, SMTT(40)
<1>10. tx = [f \in Fields |-> tx[f]]
  BY <1>3 DEF Transaction, ContractResult, Fields
<1>11. /\ tx.type = "normal" /\ tx.hash = <<executed + 1, 0>> /\ tx.sender = Alice
      /\ tx.receiver = to /\ tx.value = 0 /\ tx.fee = PaidFee /\ tx.relayer = NoAddress
      /\ tx.processing = "BuiltInFunctionCall" /\ tx.operation = "" /\ tx.nonce = 0
      /\ tx.dataLength = 0 /\ tx.isGuarded = FALSE /\ tx.isRefund = FALSE /\ tx.original = <<>>
      /\ tx.sourceShard = Alice.shard /\ tx.destinationShard = to.shard /\ tx.epoch = epoch
      /\ tx.inner = NoInner /\ tx.events = <<event>>
  BY <1>3 DEF Transaction, ContractResult
<1>12. tx \in ApiTransactions /\ tx.hash[1] = executed + 1
  <2>1. tx.events \in Seq(ReadableEvents(epoch))
    BY <1>11, <1>9, OneOf, Zenon
  <2>2. tx.type \in KnownTypes /\ tx.processing \in ProcessingTypes
    BY <1>11 DEF KnownTypes, ProcessingTypes
  <2>3. tx.value \in Nat /\ tx.fee \in Nat /\ tx.dataLength \in Nat
    BY <1>11, FeesAre, ZeroIs, Zenon
  <2> QED BY <1>5, <1>10, <1>11, <2>1, <2>2, <2>3, MadeTransaction
<1>13. PICK cs : cs = moved \o Paid(Alice, PaidFee)
  OBVIOUS
<1>14. OperationsOfEvent(tx, event) = TransferOperations(event)
  BY <1>9 DEF OperationsOfEvent, TransferOperations, TransferEvents, BurnEvents, MintEvents
<1>15. ASSUME NEW a, NEW b \in ServedBalances
       PROVE  /\ moved \in Seq(Changes)
              /\ SumOf(moved, ChangeWeight(a, b)) = Said(TransferOperations(event), a, b)
              /\ Said(TransferOperations(event), a, b) \in Int
  <2>1. PICK f, g : /\ f = Flow(Alice, to, token.value, BalanceOf(token), a, b)
                    /\ g = Flow(Alice, to, NativeToken.value, BalanceOf(NativeToken), a, b)
    OBVIOUS
  <2>2. f \in Int /\ g \in Int
    <3>1. token.value \in Int /\ NativeToken.value \in Int
      BY <1>6, MovableIs
    <3> QED BY <2>1, <3>1, FlowIsInt
  <2>3. event.address \in Accounts /\ event.receiver \in Accounts
    BY <1>5, <1>9
  <2>4. CASE withNative
    <3>1. /\ MovedTokens(to, <<token, NativeToken>>) \in Seq(Changes)
          /\ SumOf(MovedTokens(to, <<token, NativeToken>>), ChangeWeight(a, b))
               = Flow(Alice, to, token.value, BalanceOf(token), a, b)
                 + Flow(Alice, to, NativeToken.value, BalanceOf(NativeToken), a, b)
      BY <1>5, <1>6, MovedTwo
    <3>2. moved = MovedTokens(to, <<token, NativeToken>>)
      BY <1>2, <1>3, <2>4, Zenon
    <3>3. Said(TransferOperations(event), a, b)
           = Flow(event.address, event.receiver, token.value, BalanceOf(token), a, b)
             + Flow(event.address, event.receiver, NativeToken.value, BalanceOf(NativeToken), a, b)
      <4>1. event.tokens = << InEvent(token), InEvent(NativeToken) >>
        BY <1>7, <1>9, <2>4, Zenon
      <4> QED BY <1>6, <2>3, <4>1, TransfersTwo
    <3>4. Said(TransferOperations(event), a, b) = f + g
      BY <1>9, <2>1, <3>3, Zenon
    <3>5. SumOf(moved, ChangeWeight(a, b)) = f + g /\ moved \in Seq(Changes)
      BY <2>1, <3>1, <3>2, Zenon
    <3> QED BY <2>2, <3>4, <3>5
  <2>5. CASE ~withNative
    <3>1. /\ MovedTokens(to, <<token>>) \in Seq(Changes)
          /\ SumOf(MovedTokens(to, <<token>>), ChangeWeight(a, b))
               = Flow(Alice, to, token.value, BalanceOf(token), a, b)
      BY <1>5, <1>6, MovedOne
    <3>2. moved = MovedTokens(to, <<token>>)
      BY <1>2, <1>3, <2>5, Zenon
    <3>3. Said(TransferOperations(event), a, b)
           = Flow(event.address, event.receiver, token.value, BalanceOf(token), a, b)
      <4>1. event.tokens = << InEvent(token) >>
        BY <1>7, <1>9, <2>5, Zenon
      <4> QED BY <1>6, <2>3, <4>1, TransfersOne
    <3>4. Said(TransferOperations(event), a, b) = f
      BY <1>9, <2>1, <3>3, Zenon
    <3>5. SumOf(moved, ChangeWeight(a, b)) = f /\ moved \in Seq(Changes)
      BY <2>1, <3>1, <3>2, Zenon
    <3> QED BY <2>2, <3>4, <3>5
  <2> QED BY <2>4, <2>5
<1>16. ASSUME NEW a, NEW b \in ServedBalances
       PROVE  /\ cs \in Seq(Changes)
              /\ Said(TxOperations(tx, <<tx>>), a, b) = SumOf(cs, ChangeWeight(a, b))
  <2>1. Said(TxOperations(tx, <<tx>>), a, b)
             = Flow(tx.sender, tx.receiver, tx.value, NativeBalance, a, b)
               + Share(decideFeePayer(tx), -tx.fee, NativeBalance, a, b)
               + Said(OperationsOfEvent(tx, event), a, b)
    <3>1. tx.events = <<event>> /\ event \in OrdinaryEvents(tx.epoch) /\ tx.type = "normal"
      BY <1>9, <1>11, Zenon
    <3> QED BY <1>12, <3>1, SuccessWithEventChanges
  <2>2. decideFeePayer(tx) = Alice
    BY <1>11 DEF decideFeePayer, IsRelayedTxV3
  <2>3. Flow(tx.sender, tx.receiver, tx.value, NativeBalance, a, b) = 0
    <3>1. Flow(Alice, to, 0, NativeBalance, a, b) = 0
      BY FlowOfNothing
    <3> QED BY <1>11, <3>1, Zenon
  <2>4. PICK r, s, t : /\ r = Said(TransferOperations(event), a, b)
                       /\ s = Share(Alice, -PaidFee, NativeBalance, a, b)
                       /\ t = Paid(Alice, PaidFee)
    OBVIOUS
  <2>5. r \in Int /\ s \in Int
    <3>1. -PaidFee \in Int
      BY FeesAre
    <3>2. s \in Int
      BY <2>4, <3>1, ShareIsInt
    <3>3. r \in Int
      BY <1>15, <2>4, Zenon
    <3> QED BY <3>2, <3>3
  <2>6. Said(TxOperations(tx, <<tx>>), a, b) = 0 + s + r
    BY <1>11, <1>14, <2>1, <2>2, <2>3, <2>4, Zenon
  <2>7. 0 + s + r = r + s
    BY <2>5
  <2>8. t \in Seq(Changes) /\ SumOf(t, ChangeWeight(a, b)) = s
    <3>1. PICK fee \in Int : fee = PaidFee
      BY FeesAre
    <3>2. /\ Paid(Alice, fee) \in Seq(Changes)
          /\ SumOf(Paid(Alice, fee), ChangeWeight(a, b)) = Share(Alice, -fee, NativeBalance, a, b)
      BY <1>5, PaidIs
    <3> QED BY <2>4, <3>1, <3>2, Zenon
  <2>9. moved \in Seq(Changes) /\ SumOf(moved, ChangeWeight(a, b)) = r
    BY <1>15, <2>4, Zenon
  <2>10. /\ moved \o t \in Seq(Changes)
         /\ SumOf(moved \o t, ChangeWeight(a, b))
              = SumOf(moved, ChangeWeight(a, b)) + SumOf(t, ChangeWeight(a, b))
    BY <2>8, <2>9, ChangesConcat
  <2> QED BY <1>13, <2>4, <2>6, <2>7, <2>8, <2>9, <2>10, Zenon
<1>17. cs \in Seq(Changes)
  <2>1. NativeBalance \in ServedBalances
    BY ServedBalancesAre
  <2> QED BY <1>16, <2>1, Zenon
<1>18. Execute(<<tx>>, <<>>, cs)
  BY <1>4, <1>13, Zenon
<1> QED BY <1>12, <1>16, <1>17, <1>18, ExecutionOfOne

\* A contract result that is no refund, in a block where nobody claims rewards.
LEMMA PlainResultSays ==
  ASSUME NEW scr \in ApiTransactions, scr.type = "unsigned", scr.events = <<>>, ~scr.isRefund,
         NEW block, \A tx \in Range(block) : tx.operation # "ClaimDeveloperRewards", NEW a, NEW b
  PROVE  Said(TxOperations(scr, block), a, b)
           = Flow(scr.sender, scr.receiver, scr.value, NativeBalance, a, b)
<1>1. ~HoldsRewards(scr, block)
  BY NoRewards
<1>2. ~isSmartContractResultIneffectiveRefund(scr)
  BY DEF isSmartContractResultIneffectiveRefund
<1>3. Said(TxOperations(scr, block), a, b)
           = IF isSmartContractResultIneffectiveRefund(scr) THEN 0
             ELSE IF scr.isRefund \/ HoldsRewards(scr, block)
                  THEN Share(scr.receiver, scr.value, NativeBalance, a, b)
                  ELSE Flow(scr.sender, scr.receiver, scr.value, NativeBalance, a, b)
  BY ResultSays
<1> QED BY <1>1, <1>2, <1>3, Zenon

\* A transaction with an error.
LEMMA FailureSays ==
  ASSUME NEW tx \in ApiTransactions, tx.type = "normal", hasAnySignalError(tx), NEW block, NEW a, NEW b
  PROVE  Said(TxOperations(tx, block), a, b)
           = (IF TransfersValue(tx)
              THEN Flow(tx.sender, tx.receiver, tx.value, NativeBalance, a, b) ELSE 0)
             + Share(decideFeePayer(tx), -tx.fee, NativeBalance, a, b)
             + (IF MovesInnerValue(tx)
                THEN Flow(tx.inner.sender, tx.inner.receiver, tx.inner.value,
                          NativeBalance, a, b) ELSE 0)
             + 0
<1>1. Said(EventOperations(tx), a, b) = 0
  <2>1. EventOperations(tx) = <<>>
    BY OperationsOfOneEvent
  <2> QED BY <2>1, SaidNothing
<1>2. Said(TxOperations(tx, block), a, b)
           = (IF TransfersValue(tx)
              THEN Flow(tx.sender, tx.receiver, tx.value, NativeBalance, a, b) ELSE 0)
             + Share(decideFeePayer(tx), -tx.fee, NativeBalance, a, b)
             + (IF MovesInnerValue(tx)
                THEN Flow(tx.inner.sender, tx.inner.receiver, tx.inner.value,
                          NativeBalance, a, b) ELSE 0)
             + Said(EventOperations(tx), a, b)
  BY NormalTransactionSays
<1> QED BY <1>1, <1>2, Zenon

\* What goes there and back again changes nothing.
LEMMA OpposedFlows ==
  ASSUME NEW value \in Int, NEW from, NEW to, NEW balance, NEW a, NEW b
  PROVE  Flow(from, to, value, balance, a, b) + Flow(to, from, value, balance, a, b) = 0
BY FlowOfNothing

\* What the fee does to a balance.
LEMMA FeeOf ==
  ASSUME NEW payer \in Accounts
  PROVE  \A a, b : /\ Paid(payer, PaidFee) \in Seq(Changes)
                   /\ SumOf(Paid(payer, PaidFee), ChangeWeight(a, b))
                        = Share(payer, -PaidFee, NativeBalance, a, b)
                   /\ Share(payer, -PaidFee, NativeBalance, a, b) \in Int
<1> TAKE a, b
<1>1. PICK fee \in Int : fee = PaidFee
  BY FeesAre
<1>2. /\ Paid(payer, fee) \in Seq(Changes)
      /\ SumOf(Paid(payer, fee), ChangeWeight(a, b)) = Share(payer, -fee, NativeBalance, a, b)
  BY PaidIs
<1>3. Share(payer, -fee, NativeBalance, a, b) \in Int
  <2>1. -fee \in Int
    OBVIOUS
  <2> QED BY <2>1, ShareIsInt
<1> QED BY <1>1, <1>2, <1>3, Zenon

\* What ExecutionFails changes is what its transactions say.
LEMMA ExecutionFailsKeepsIInv ==
  ASSUME IInv, ExecutionFails
  PROVE  IInv'
<1> DEFINE Callee(processing) ==
             IF processing = "SCInvoking" THEN Con ELSE systemContractDeployAddress
           Tx(value, caller, processing) ==
             [Transaction(caller, Callee(processing), value) EXCEPT
                !.processing = processing, !.destinationShard = 0,
                !.events = <<SignalError("execution failed")>>]
           ComesBack(caller) == ~IsReleaseSiriusActive(epoch) \/ caller = Carol
<1>1. PICK value \in Values, caller \in {Alice, Carol}, processing \in {"SCInvoking", "SCDeployment"} :
        /\ caller = Alice \/ processing = "SCInvoking"
        /\ Execute(IF ComesBack(caller)
                   THEN <<Tx(value, caller, processing),
                          ContractResult(1, Callee(processing), caller, value)>>
                   ELSE <<Tx(value, caller, processing)>>, <<>>, Paid(caller, PaidFee))
  BY DEF ExecutionFails
<1>2. PICK callee, tx, scr, event :
        /\ callee = Callee(processing) /\ event = SignalError("execution failed")
        /\ tx = Tx(value, caller, processing)
        /\ scr = ContractResult(1, callee, caller, value)
  OBVIOUS
<1>3. PICK cs : cs = Paid(caller, PaidFee)
  OBVIOUS
<1>4. /\ caller \in Accounts /\ callee \in Accounts
      /\ caller.shard \in Nat /\ callee.shard \in Nat /\ value \in Nat /\ value \in Int
  <2>1. caller \in Accounts /\ callee \in Accounts
    BY <1>2, AccountsAre
  <2> QED BY <2>1, AccountIs, FeesAre
<1>5. event \in ReadableEvents(epoch) /\ event.identifier = "signalError"
  <2>1. PICK reason \in EventData : reason = "execution failed"
    BY DEF EventData
  <2>2. SignalError(reason) \in ReadableEvents(epoch)
        /\ SignalError(reason).identifier = "signalError"
    BY SignalErrorIsReadable
  <2> QED BY <1>2, <2>1, <2>2, Zenon
<1>6. tx = [f \in Fields |-> tx[f]]
  BY <1>2, ZenonT(40) DEF Transaction, ContractResult, Fields
<1>7. /\ tx.type = "normal" /\ tx.hash = <<executed + 1, 0>> /\ tx.sender = caller
      /\ tx.receiver = callee /\ tx.value = value /\ tx.fee = PaidFee /\ tx.relayer = NoAddress
      /\ tx.processing = processing /\ tx.operation = "" /\ tx.nonce = 0 /\ tx.dataLength = 0
      /\ tx.isGuarded = FALSE /\ tx.isRefund = FALSE /\ tx.original = <<>>
      /\ tx.sourceShard = caller.shard /\ tx.destinationShard = 0 /\ tx.epoch = epoch
      /\ tx.inner = NoInner /\ tx.events = <<event>>
  BY <1>2 DEF Transaction, ContractResult
<1>8. tx \in ApiTransactions /\ tx.hash[1] = executed + 1
  <2>1. tx.events \in Seq(ReadableEvents(epoch))
    BY <1>7, <1>5, OneOf, Zenon
  <2>2. tx.type \in KnownTypes /\ tx.processing \in ProcessingTypes
    BY <1>7 DEF KnownTypes, ProcessingTypes
  <2>3. tx.value \in Nat /\ tx.fee \in Nat /\ tx.dataLength \in Nat
    BY <1>7, FeesAre, ZeroIs, <1>4, Zenon
  <2> QED BY <1>4, <1>6, <1>7, <2>1, <2>2, <2>3, MadeTransaction
<1>9. scr = [f \in Fields |-> scr[f]]
  BY <1>2, ZenonT(40) DEF Transaction, ContractResult, Fields
<1>10. /\ scr.type = "unsigned" /\ scr.hash = <<executed + 1, 1>> /\ scr.sender = callee
      /\ scr.receiver = caller /\ scr.value = value /\ scr.fee = 0 /\ scr.relayer = NoAddress
      /\ scr.processing = "MoveBalance" /\ scr.operation = "" /\ scr.nonce = 0
      /\ scr.dataLength = 0 /\ scr.isGuarded = FALSE /\ scr.isRefund = FALSE
      /\ scr.original = <<executed + 1, 0>> /\ scr.sourceShard = callee.shard
      /\ scr.destinationShard = caller.shard /\ scr.epoch = epoch /\ scr.inner = NoInner
      /\ scr.events = <<>>
  BY <1>2 DEF Transaction, ContractResult
<1>11. scr \in ApiTransactions /\ scr.hash[1] = executed + 1
  <2>1. scr.events \in Seq(ReadableEvents(epoch))
    BY <1>10, NoEvents, Zenon
  <2>2. scr.type \in KnownTypes /\ scr.processing \in ProcessingTypes
    BY <1>10 DEF KnownTypes, ProcessingTypes
  <2>3. scr.value \in Nat /\ scr.fee \in Nat /\ scr.dataLength \in Nat
    BY <1>10, FeesAre, ZeroIs, <1>4, Zenon
  <2> QED BY <1>4, <1>9, <1>10, <2>1, <2>2, <2>3, MadeTransaction
<1>12. hasAnySignalError(tx)
  BY <1>5, <1>7, SignalErrorIs
<1>13. TransfersValue(tx) <=> value # 0 /\ ComesBack(caller)
  <2>1. isIntrashard(tx) <=> caller = Alice
    BY <1>7, ShardsAre DEF isIntrashard
  <2>2. isContractDeploymentWithSignalErrorOrIntrashardContractCallWithSignalError(tx)
          <=> caller = Alice
    BY <1>1, <1>7, <1>12, <2>1
       DEF isContractDeploymentWithSignalErrorOrIntrashardContractCallWithSignalError
  <2>3. tx.value = value /\ tx.epoch = epoch
    BY <1>7, Zenon
  <2>4. caller = Alice <=> ~(caller = Carol)
    BY ShardsAre
  <2> QED BY <2>2, <2>3, <2>4, Zenon DEF TransfersValue
<1>14. ~MovesInnerValue(tx)
  BY <1>7 DEF MovesInnerValue, isRelayedV1Transaction
<1>15. decideFeePayer(tx) = caller
  BY <1>7 DEF decideFeePayer, IsRelayedTxV3
<1>16. \A a, b : /\ cs \in Seq(Changes)
                 /\ SumOf(cs, ChangeWeight(a, b)) = Share(caller, -PaidFee, NativeBalance, a, b)
                 /\ Share(caller, -PaidFee, NativeBalance, a, b) \in Int
  BY <1>3, <1>4, FeeOf
<1>17. cs \in Seq(Changes)
  BY <1>16, Zenon
<1>18. ASSUME NEW block, NEW a, NEW b
       PROVE  Said(TxOperations(tx, block), a, b)
                = (IF value # 0 /\ ComesBack(caller)
                   THEN Flow(caller, callee, value, NativeBalance, a, b) ELSE 0)
                  + Share(caller, -PaidFee, NativeBalance, a, b) + 0 + 0
  <2>1. Said(TxOperations(tx, block), a, b)
           = (IF TransfersValue(tx)
              THEN Flow(tx.sender, tx.receiver, tx.value, NativeBalance, a, b) ELSE 0)
             + Share(decideFeePayer(tx), -tx.fee, NativeBalance, a, b)
             + (IF MovesInnerValue(tx)
                THEN Flow(tx.inner.sender, tx.inner.receiver, tx.inner.value,
                          NativeBalance, a, b) ELSE 0)
             + 0
    BY <1>7, <1>8, <1>12, FailureSays
  <2>2. tx.sender = caller /\ tx.receiver = callee /\ tx.value = value /\ tx.fee = PaidFee
    BY <1>7, Zenon
  <2> HIDE DEF ComesBack
  <2> QED BY <1>13, <1>14, <1>15, <2>1, <2>2, Zenon
<1>19. CASE ComesBack(caller)
  <2>1. PICK block : block = <<tx, scr>>
    OBVIOUS
  <2>2. Execute(<<tx, scr>>, <<>>, cs)
    BY <1>1, <1>2, <1>3, <1>19, Zenon
  <2>3. ASSUME NEW a, NEW b
        PROVE  Said(TxOperations(tx, <<tx, scr>>), a, b) + Said(TxOperations(scr, <<tx, scr>>), a, b)
                 = SumOf(cs, ChangeWeight(a, b))
    <3>1. PICK f, g, s : /\ f = Flow(caller, callee, value, NativeBalance, a, b)
                         /\ g = Flow(callee, caller, value, NativeBalance, a, b)
                         /\ s = Share(caller, -PaidFee, NativeBalance, a, b)
      OBVIOUS
    <3>2. f \in Int /\ g \in Int /\ s \in Int
      <4>1. s \in Int
        BY <1>16, <3>1, Zenon
      <4> QED BY <1>4, <3>1, <4>1, FlowIsInt
    <3>3. f + g = 0 /\ (value = 0 => f = 0)
      <4>1. f + g = 0
        <5>1. Flow(caller, callee, value, NativeBalance, a, b)
                + Flow(callee, caller, value, NativeBalance, a, b) = 0
          BY <1>4, OpposedFlows
        <5> QED BY <3>1, <5>1, Zenon
      <4>2. Flow(caller, callee, 0, NativeBalance, a, b) = 0
        BY FlowOfNothing
      <4>3. value = 0 => f = 0
        BY <3>1, <4>2, Zenon
      <4> QED BY <4>1, <4>3
    <3>4. Said(TxOperations(tx, block), a, b) = (IF value # 0 THEN f ELSE 0) + s + 0 + 0
      <4> HIDE DEF ComesBack
      <4> QED BY <1>18, <1>19, <3>1, Zenon
    <3>5. Said(TxOperations(scr, block), a, b) = g
      <4>1. \A t \in Range(block) : t.operation # "ClaimDeveloperRewards"
        <5>1. Range(block) = {tx, scr}
          BY <2>1, RangeOfFew
        <5>2. tx.operation = "" /\ scr.operation = ""
          BY <1>7, <1>10, Zenon
        <5> QED BY <5>1, <5>2
      <4>2. ~scr.isRefund /\ scr.type = "unsigned" /\ scr.events = <<>>
        BY <1>10, Zenon
      <4>3. Said(TxOperations(scr, block), a, b)
              = Flow(scr.sender, scr.receiver, scr.value, NativeBalance, a, b)
        BY <1>11, <4>1, <4>2, PlainResultSays
      <4> QED BY <1>10, <3>1, <4>3, Zenon
    <3>6. ((IF value # 0 THEN f ELSE 0) + s + 0 + 0) + g = s
      <4>1. (IF value # 0 THEN f ELSE 0) = f
        BY <3>3
      <4>2. (f + s + 0 + 0) + g = s
        BY <3>2, <3>3
      <4> QED BY <4>1, <4>2, Zenon
    <3> QED BY <1>16, <2>1, <3>1, <3>4, <3>5, <3>6, Zenon
  <2>4. tx.hash # scr.hash /\ tx.type # "invalid" /\ scr.type # "invalid"
    <3>1. tx.hash # scr.hash
      BY <1>7, <1>10, DifferentHashes, Zenon
    <3> QED BY <1>7, <1>10, <3>1
  <2> QED BY <1>8, <1>11, <1>17, <2>2, <2>3, <2>4, ExecutionOfTwo, SMTT(40)
<1>20. CASE ~ComesBack(caller)
  <2>1. Execute(<<tx>>, <<>>, cs)
    BY <1>1, <1>2, <1>3, <1>20, Zenon
  <2>2. ASSUME NEW a, NEW b
        PROVE  Said(TxOperations(tx, <<tx>>), a, b) = SumOf(cs, ChangeWeight(a, b))
    <3>1. PICK s : s = Share(caller, -PaidFee, NativeBalance, a, b)
      OBVIOUS
    <3>2. s \in Int
      BY <1>16, <3>1, Zenon
    <3>3. Said(TxOperations(tx, <<tx>>), a, b) = 0 + s + 0 + 0
      <4> HIDE DEF ComesBack
      <4> QED BY <1>18, <1>20, <3>1, Zenon
    <3>4. 0 + s + 0 + 0 = s
      BY <3>2
    <3> QED BY <1>16, <3>1, <3>3, <3>4, Zenon
  <2> QED BY <1>8, <1>17, <2>1, <2>2, ExecutionOfOne
<1> QED BY <1>19, <1>20

\* Sequences of one element, put together.
LEMMA Joined ==
  ASSUME NEW x, NEW y
  PROVE  <<x>> \o <<y>> = <<x, y>> /\ <<x>> \o <<>> = <<x>>
<1>1. PICK S : x \in S /\ y \in S
  <2>1. x \in {x, y} /\ y \in {x, y}
    OBVIOUS
  <2> QED BY <2>1, Zenon
<1>2. /\ <<>> \in Seq(S) /\ <<x>> \in Seq(S) /\ <<x, y>> \in Seq(S)
      /\ Append(<<>>, y) = <<y>> /\ Append(<<x>>, y) = <<x, y>>
  BY <1>1, TupleFacts
<1>3. \A s \in Seq(S) : s \o <<>> = s
  BY ConcatAppend
<1>4. <<x>> \o Append(<<>>, y) = Append(<<x>> \o <<>>, y)
  BY <1>1, <1>2, ConcatAppend
<1> QED BY <1>2, <1>3, <1>4, Zenon

\* Nothing, put before a sequence.
LEMMA JoinedWithNothing ==
  ASSUME NEW S, NEW s \in Seq(S)
  PROVE  <<>> \o s = s
OBVIOUS

\* What RelayedTransaction changes is what its transactions say.
LEMMA RelayedTransactionKeepsIInv ==
  ASSUME IInv, RelayedTransaction
  PROVE  IInv'
<1> DEFINE Inner(value) == [sender |-> Alice, receiver |-> Con, value |-> value]
           Events(fails) == IF fails THEN <<SignalError("execution failed")>> ELSE <<>>
           Tx(value, fails) ==
             [Transaction(Bob, Alice, 0) EXCEPT
                !.processing = "RelayedTx", !.dataLength = 5,
                !.inner = Inner(value), !.events = Events(fails)]
           Results(value, fails) ==
             CASE ~fails -> <<ContractResult(1, Alice, Con, value)>>
               [] fails /\ ~IsReleaseSiriusActive(epoch) -> <<ContractResult(1, Con, Alice, value)>>
               [] OTHER -> <<>>
           Changed(value, fails) ==
             (IF fails THEN <<>> ELSE Moved(Alice, Con, value, NativeBalance)) \o Paid(Bob, PaidFee)
<1>1. PICK value \in Values, fails \in BOOLEAN :
        Execute(<<Tx(value, fails)>> \o Results(value, fails), <<>>, Changed(value, fails))
  BY DEF RelayedTransaction
<1>2. PICK inner, evs, tx, event :
        /\ inner = Inner(value) /\ evs = Events(fails) /\ tx = Tx(value, fails)
        /\ event = SignalError("execution failed")
  OBVIOUS
<1>3. inner.sender = Alice /\ inner.receiver = Con /\ inner.value = value
  BY <1>2
<1>4. /\ Alice \in Accounts /\ Con \in Accounts /\ Bob \in Accounts
      /\ Alice.shard \in Nat /\ Con.shard \in Nat /\ Bob.shard \in Nat
      /\ value \in Nat /\ value \in Int
  BY AccountsAre, AccountIs, FeesAre
<1>5. /\ evs \in Seq(ReadableEvents(epoch))
      /\ inner \in [sender : Accounts, receiver : Accounts, value : Nat] /\ inner # NoInner
      /\ event.identifier = "signalError"
      /\ (fails => evs = <<event>>) /\ (~fails => evs = <<>>)
  <2>1. PICK reason \in EventData : reason = "execution failed"
    BY DEF EventData
  <2>2. SignalError(reason) \in ReadableEvents(epoch)
        /\ SignalError(reason).identifier = "signalError"
    BY SignalErrorIsReadable
  <2>3. event \in ReadableEvents(epoch) /\ event.identifier = "signalError"
    BY <1>2, <2>1, <2>2, Zenon
  <2>4. (fails => evs = <<event>>) /\ (~fails => evs = <<>>)
    BY <1>2
  <2>5. evs \in Seq(ReadableEvents(epoch))
    BY <2>3, <2>4, OneOf, NoEvents, Zenon
  <2>6. inner \in [sender : Accounts, receiver : Accounts, value : Nat] /\ inner # NoInner
    BY <1>2, <1>4, InnerIs
  <2> QED BY <2>3, <2>4, <2>5, <2>6
<1>6. tx = [f \in Fields |-> tx[f]]
  BY <1>2 DEF Transaction, ContractResult, Fields
<1>7. /\ tx.type = "normal" /\ tx.hash = <<executed + 1, 0>> /\ tx.sender = Bob
      /\ tx.receiver = Alice /\ tx.value = 0 /\ tx.fee = PaidFee /\ tx.relayer = NoAddress
      /\ tx.processing = "RelayedTx" /\ tx.operation = "" /\ tx.nonce = 0 /\ tx.dataLength = 5
      /\ tx.isGuarded = FALSE /\ tx.isRefund = FALSE /\ tx.original = <<>>
      /\ tx.sourceShard = Bob.shard /\ tx.destinationShard = Alice.shard /\ tx.epoch = epoch
      /\ tx.inner = inner /\ tx.events = evs
  BY <1>2 DEF Transaction, ContractResult
<1>8. tx \in ApiTransactions /\ tx.hash[1] = executed + 1
  <2>1. tx.events \in Seq(ReadableEvents(epoch))
    BY <1>7, <1>5, Zenon
  <2>2. tx.type \in KnownTypes /\ tx.processing \in ProcessingTypes
    BY <1>7 DEF KnownTypes, ProcessingTypes
  <2>3. tx.value \in Nat /\ tx.fee \in Nat /\ tx.dataLength \in Nat
    BY <1>7, FeesAre, ZeroIs, FiveIs, Zenon
  <2> QED BY <1>4, <1>6, <1>7, <2>1, <2>2, <2>3, <1>5, MadeTransaction
<1>9. decideFeePayer(tx) = Bob
  BY <1>7 DEF decideFeePayer, IsRelayedTxV3
<1>10. \A a, b : /\ Flow(tx.sender, tx.receiver, tx.value, NativeBalance, a, b) = 0
                 /\ Share(decideFeePayer(tx), -tx.fee, NativeBalance, a, b)
                      = Share(Bob, -PaidFee, NativeBalance, a, b)
                 /\ Share(Bob, -PaidFee, NativeBalance, a, b) \in Int
  <2> TAKE a, b
  <2>1. Flow(tx.sender, tx.receiver, 0, NativeBalance, a, b) = 0
    BY FlowOfNothing
  <2>2. Share(Bob, -PaidFee, NativeBalance, a, b) \in Int
    BY <1>4, FeeOf
  <2>3. tx.value = 0 /\ tx.fee = PaidFee
    BY <1>7, Zenon
  <2> QED BY <1>9, <2>1, <2>2, <2>3, Zenon
<1>11. Paid(Bob, PaidFee) \in Seq(Changes)
  BY <1>4, FeeOf
<1>12. \A a, b : SumOf(Paid(Bob, PaidFee), ChangeWeight(a, b))
                   = Share(Bob, -PaidFee, NativeBalance, a, b)
  BY <1>4, FeeOf
<1>13. fails => hasAnySignalError(tx)
  <2>1. fails => tx.events = <<event>>
    BY <1>5, <1>7, Zenon
  <2> QED BY <1>5, <2>1, SignalErrorIs
<1> HIDE DEF Inner, Events, Tx
<1>20. CASE ~fails
  <2>1. PICK scr : scr = ContractResult(1, Alice, Con, value)
    OBVIOUS
  <2>2. PICK cs : cs = Moved(Alice, Con, value, NativeBalance) \o Paid(Bob, PaidFee)
    OBVIOUS
  <2>3. Execute(<<tx, scr>>, <<>>, cs)
    <3>1. Results(value, fails) = <<scr>>
      BY <1>20, <2>1
    <3>2. Changed(value, fails) = cs
      BY <1>20, <2>2, Zenon
    <3>3. <<tx>> \o <<scr>> = <<tx, scr>>
      BY Joined
    <3> QED BY <1>1, <1>2, <3>1, <3>2, <3>3, Zenon
  <2>4. scr = [f \in Fields |-> scr[f]]
    BY <2>1 DEF Transaction, ContractResult, Fields
  <2>5. /\ scr.type = "unsigned" /\ scr.hash = <<executed + 1, 1>> /\ scr.sender = Alice
        /\ scr.receiver = Con /\ scr.value = value /\ scr.fee = 0 /\ scr.relayer = NoAddress
        /\ scr.processing = "MoveBalance" /\ scr.operation = "" /\ scr.nonce = 0
        /\ scr.dataLength = 0 /\ scr.isGuarded = FALSE /\ scr.isRefund = FALSE
        /\ scr.original = <<executed + 1, 0>> /\ scr.sourceShard = Alice.shard
        /\ scr.destinationShard = Con.shard /\ scr.epoch = epoch /\ scr.inner = NoInner
        /\ scr.events = <<>>
    BY <2>1 DEF Transaction, ContractResult
  <2>6. scr \in ApiTransactions /\ scr.hash[1] = executed + 1
    <3>1. scr.events \in Seq(ReadableEvents(epoch))
      BY <2>5, NoEvents, Zenon
    <3>2. scr.type \in KnownTypes /\ scr.processing \in ProcessingTypes
      BY <2>5 DEF KnownTypes, ProcessingTypes
    <3>3. scr.value \in Nat /\ scr.fee \in Nat /\ scr.dataLength \in Nat
      BY <2>5, FeesAre, ZeroIs, <1>4, Zenon
    <3> QED BY <1>4, <2>4, <2>5, <3>1, <3>2, <3>3, MadeTransaction
  <2>7. \A a, b : /\ cs \in Seq(Changes)
                  /\ SumOf(cs, ChangeWeight(a, b))
                       = Flow(Alice, Con, value, NativeBalance, a, b)
                         + Share(Bob, -PaidFee, NativeBalance, a, b)
    BY <1>4, <2>2, MovedForFee
  <2>8. ASSUME NEW a \in Here, NEW b \in ServedBalances
        PROVE  Said(TxOperations(tx, <<tx, scr>>), a, b) + Said(TxOperations(scr, <<tx, scr>>), a, b)
                 = SumOf(cs, ChangeWeight(a, b))
    <3>1. PICK block : block = <<tx, scr>>
      OBVIOUS
    <3>2. PICK f, s : /\ f = Flow(Alice, Con, value, NativeBalance, a, b)
                      /\ s = Share(Bob, -PaidFee, NativeBalance, a, b)
      OBVIOUS
    <3>3. f \in Int
      BY <1>4, <3>2, FlowIsInt
    <3>4. s \in Int
      BY <1>10, <3>2, Zenon
    <3>5. Said(TxOperations(tx, block), a, b) = 0 + s
      <4>1. Said(TxOperations(tx, block), a, b)
              = Flow(tx.sender, tx.receiver, tx.value, NativeBalance, a, b)
                + Share(decideFeePayer(tx), -tx.fee, NativeBalance, a, b)
        <5>1. tx.type = "normal" /\ tx.events = <<>>
          BY <1>5, <1>7, <1>20, Zenon
        <5> QED BY <1>8, <5>1, QuietSuccessSays
      <4> QED BY <1>10, <3>2, <4>1, Zenon
    <3>6. Said(TxOperations(scr, block), a, b) = f
      <4>1. \A t \in Range(block) : t.operation # "ClaimDeveloperRewards"
        <5>1. Range(block) = {tx, scr}
          BY <3>1, RangeOfFew
        <5>2. tx.operation = "" /\ scr.operation = ""
          BY <1>7, <2>5, Zenon
        <5> QED BY <5>1, <5>2
      <4>2. ~scr.isRefund /\ scr.type = "unsigned" /\ scr.events = <<>>
        BY <2>5, Zenon
      <4>3. Said(TxOperations(scr, block), a, b)
              = Flow(scr.sender, scr.receiver, scr.value, NativeBalance, a, b)
        BY <2>6, <4>1, <4>2, PlainResultSays
      <4> QED BY <2>5, <3>2, <4>3, Zenon
    <3>7. (0 + s) + f = f + s
      BY <3>3, <3>4
    <3> QED BY <2>7, <3>1, <3>2, <3>5, <3>6, <3>7, Zenon
  <2>9. tx.hash # scr.hash /\ tx.type # "invalid" /\ scr.type # "invalid"
    <3>1. tx.hash # scr.hash
      BY <1>7, <2>5, DifferentHashes, Zenon
    <3> QED BY <1>7, <2>5, <3>1
  <2>10. cs \in Seq(Changes)
    BY <2>7, Zenon
  <2> QED BY <1>8, <2>3, <2>6, <2>8, <2>9, <2>10, ExecutionOfTwo
<1>21. ASSUME fails
       PROVE  /\ Changed(value, fails) = Paid(Bob, PaidFee)
              /\ \A block, a, b :
                   Said(TxOperations(tx, block), a, b)
                     = 0 + Share(Bob, -PaidFee, NativeBalance, a, b)
                       + (IF MovesInnerValue(tx)
                          THEN Flow(Alice, Con, value, NativeBalance, a, b) ELSE 0) + 0
  <2>1. Changed(value, fails) = Paid(Bob, PaidFee)
    <3>1. Changed(value, fails) = <<>> \o Paid(Bob, PaidFee)
      BY <1>21, Zenon
    <3>2. <<>> \o Paid(Bob, PaidFee) = Paid(Bob, PaidFee)
      BY <1>11, JoinedWithNothing
    <3> QED BY <3>1, <3>2, Zenon
  <2>2. ASSUME NEW block, NEW a, NEW b
        PROVE  Said(TxOperations(tx, block), a, b)
                 = 0 + Share(Bob, -PaidFee, NativeBalance, a, b)
                   + (IF MovesInnerValue(tx)
                      THEN Flow(Alice, Con, value, NativeBalance, a, b) ELSE 0) + 0
    <3>1. Said(TxOperations(tx, block), a, b)
             = (IF TransfersValue(tx)
                THEN Flow(tx.sender, tx.receiver, tx.value, NativeBalance, a, b) ELSE 0)
               + Share(decideFeePayer(tx), -tx.fee, NativeBalance, a, b)
               + (IF MovesInnerValue(tx)
                  THEN Flow(tx.inner.sender, tx.inner.receiver, tx.inner.value,
                            NativeBalance, a, b) ELSE 0)
               + 0
      <4>1. tx.type = "normal"
        BY <1>7, Zenon
      <4> QED BY <1>8, <1>13, <1>21, <4>1, FailureSays
    <3>2. ~TransfersValue(tx)
      <4>1. tx.value = 0
        BY <1>7, Zenon
      <4> QED BY <4>1 DEF TransfersValue
    <3>3. tx.inner = inner
      BY <1>7, Zenon
    <3>4. Flow(tx.inner.sender, tx.inner.receiver, tx.inner.value, NativeBalance, a, b)
            = Flow(Alice, Con, value, NativeBalance, a, b)
      BY <1>3, <3>3, Zenon
    <3> QED BY <1>10, <3>1, <3>2, <3>4, Zenon
  <2> QED BY <2>1, <2>2, Zenon
<1>22. CASE fails /\ ~IsReleaseSiriusActive(epoch)
  <2>1. PICK scr : scr = ContractResult(1, Con, Alice, value)
    OBVIOUS
  <2>2. PICK cs : cs = Paid(Bob, PaidFee)
    OBVIOUS
  <2>3. Execute(<<tx, scr>>, <<>>, cs)
    <3>1. Results(value, fails) = <<scr>>
      BY <1>22, <2>1
    <3>2. Changed(value, fails) = cs
      BY <1>21, <1>22, <2>2, Zenon
    <3>3. <<tx>> \o <<scr>> = <<tx, scr>>
      BY Joined
    <3> QED BY <1>1, <1>2, <3>1, <3>2, <3>3, Zenon
  <2>4. scr = [f \in Fields |-> scr[f]]
    BY <2>1 DEF Transaction, ContractResult, Fields
  <2>5. /\ scr.type = "unsigned" /\ scr.hash = <<executed + 1, 1>> /\ scr.sender = Con
        /\ scr.receiver = Alice /\ scr.value = value /\ scr.fee = 0 /\ scr.relayer = NoAddress
        /\ scr.processing = "MoveBalance" /\ scr.operation = "" /\ scr.nonce = 0
        /\ scr.dataLength = 0 /\ scr.isGuarded = FALSE /\ scr.isRefund = FALSE
        /\ scr.original = <<executed + 1, 0>> /\ scr.sourceShard = Con.shard
        /\ scr.destinationShard = Alice.shard /\ scr.epoch = epoch /\ scr.inner = NoInner
        /\ scr.events = <<>>
    BY <2>1 DEF Transaction, ContractResult
  <2>6. scr \in ApiTransactions /\ scr.hash[1] = executed + 1
    <3>1. scr.events \in Seq(ReadableEvents(epoch))
      BY <2>5, NoEvents, Zenon
    <3>2. scr.type \in KnownTypes /\ scr.processing \in ProcessingTypes
      BY <2>5 DEF KnownTypes, ProcessingTypes
    <3>3. scr.value \in Nat /\ scr.fee \in Nat /\ scr.dataLength \in Nat
      BY <2>5, FeesAre, ZeroIs, <1>4, Zenon
    <3> QED BY <1>4, <2>4, <2>5, <3>1, <3>2, <3>3, MadeTransaction
  <2>7. MovesInnerValue(tx) <=> value # 0
    <3>1. ~IsReleaseSiriusActive(tx.epoch) /\ isRelayedV1Transaction(tx)
      BY <1>7, <1>22 DEF isRelayedV1Transaction
    <3>2. /\ tx.inner.sender.shard = 0 /\ tx.inner.receiver.shard = 0 /\ tx.sourceShard = 0
          /\ tx.destinationShard = 0 /\ tx.inner.value = value
      <4>1. /\ tx.sourceShard = Bob.shard /\ tx.destinationShard = Alice.shard
            /\ tx.inner = inner
        BY <1>7, Zenon
      <4> QED BY <1>3, <4>1, ShardsAre
    <3>3. isRelayedV1TransactionCompletelyIntrashardWithSignalError(tx)
      BY <1>13, <1>22, <3>2
         DEF isRelayedV1TransactionCompletelyIntrashardWithSignalError, isIntrashard
    <3> QED BY <3>1, <3>2, <3>3 DEF MovesInnerValue
  <2>8. ASSUME NEW a \in Here, NEW b \in ServedBalances
        PROVE  Said(TxOperations(tx, <<tx, scr>>), a, b) + Said(TxOperations(scr, <<tx, scr>>), a, b)
                 = SumOf(cs, ChangeWeight(a, b))
    <3>1. PICK block : block = <<tx, scr>>
      OBVIOUS
    <3>2. PICK f, g, s : /\ f = Flow(Alice, Con, value, NativeBalance, a, b)
                         /\ g = Flow(Con, Alice, value, NativeBalance, a, b)
                         /\ s = Share(Bob, -PaidFee, NativeBalance, a, b)
      OBVIOUS
    <3>3. f \in Int /\ g \in Int /\ s \in Int
      <4>1. s \in Int
        BY <1>10, <3>2, Zenon
      <4> QED BY <1>4, <3>2, <4>1, FlowIsInt
    <3>4. f + g = 0 /\ (value = 0 => f = 0)
      <4>1. f + g = 0
        <5>1. Flow(Alice, Con, value, NativeBalance, a, b)
                + Flow(Con, Alice, value, NativeBalance, a, b) = 0
          BY <1>4, OpposedFlows
        <5> QED BY <3>2, <5>1, Zenon
      <4>2. Flow(Alice, Con, 0, NativeBalance, a, b) = 0
        BY FlowOfNothing
      <4>3. value = 0 => f = 0
        BY <3>2, <4>2, Zenon
      <4> QED BY <4>1, <4>3
    <3>5. Said(TxOperations(tx, block), a, b) = 0 + s + (IF value # 0 THEN f ELSE 0) + 0
      BY <1>21, <1>22, <2>7, <3>2, Zenon
    <3>6. Said(TxOperations(scr, block), a, b) = g
      <4>1. \A t \in Range(block) : t.operation # "ClaimDeveloperRewards"
        <5>1. Range(block) = {tx, scr}
          BY <3>1, RangeOfFew
        <5>2. tx.operation = "" /\ scr.operation = ""
          BY <1>7, <2>5, Zenon
        <5> QED BY <5>1, <5>2
      <4>2. ~scr.isRefund /\ scr.type = "unsigned" /\ scr.events = <<>>
        BY <2>5, Zenon
      <4>3. Said(TxOperations(scr, block), a, b)
              = Flow(scr.sender, scr.receiver, scr.value, NativeBalance, a, b)
        BY <2>6, <4>1, <4>2, PlainResultSays
      <4> QED BY <2>5, <3>2, <4>3, Zenon
    <3>7. (0 + s + (IF value # 0 THEN f ELSE 0) + 0) + g = s
      <4>1. (IF value # 0 THEN f ELSE 0) = f
        BY <3>4
      <4>2. (0 + s + f + 0) + g = s
        BY <3>3, <3>4
      <4> QED BY <4>1, <4>2, Zenon
    <3> QED BY <1>12, <2>2, <3>1, <3>2, <3>5, <3>6, <3>7, Zenon
  <2>9. tx.hash # scr.hash /\ tx.type # "invalid" /\ scr.type # "invalid"
    <3>1. tx.hash # scr.hash
      BY <1>7, <2>5, DifferentHashes, Zenon
    <3> QED BY <1>7, <2>5, <3>1
  <2>10. cs \in Seq(Changes)
    BY <1>11, <2>2, Zenon
  <2> QED BY <1>8, <2>3, <2>6, <2>8, <2>9, <2>10, ExecutionOfTwo
<1>23. CASE fails /\ IsReleaseSiriusActive(epoch)
  <2>1. Execute(<<tx>>, <<>>, Paid(Bob, PaidFee))
    <3>1. Results(value, fails) = <<>>
      BY <1>23
    <3>2. Changed(value, fails) = Paid(Bob, PaidFee)
      BY <1>21, <1>23, Zenon
    <3>3. <<tx>> \o <<>> = <<tx>>
      BY Joined
    <3> QED BY <1>1, <1>2, <3>1, <3>2, <3>3, Zenon
  <2>2. ~MovesInnerValue(tx)
    <3>1. IsReleaseSiriusActive(tx.epoch)
      BY <1>7, <1>23
    <3> QED BY <3>1 DEF MovesInnerValue
  <2>3. ASSUME NEW a \in Here, NEW b \in ServedBalances
        PROVE  Said(TxOperations(tx, <<tx>>), a, b) = SumOf(Paid(Bob, PaidFee), ChangeWeight(a, b))
    <3>1. PICK s : s = Share(Bob, -PaidFee, NativeBalance, a, b)
      OBVIOUS
    <3>2. Said(TxOperations(tx, <<tx>>), a, b) = 0 + s + 0 + 0
      BY <1>21, <1>23, <2>2, <3>1, Zenon
    <3>3. s \in Int
      BY <1>10, <3>1, Zenon
    <3>4. 0 + s + 0 + 0 = s
      BY <3>3
    <3> QED BY <1>12, <3>1, <3>2, <3>4, Zenon
  <2> QED BY <1>8, <1>11, <2>1, <2>3, ExecutionOfOne
<1> QED BY <1>20, <1>22, <1>23

\* Gas that comes back changes the balance of one account.
LEMMA RefundChange ==
  ASSUME NEW account \in Accounts
  PROVE  /\ << Change(account, NativeBalance, Refund) >> \in Seq(Changes)
         /\ \A a, b : /\ SumOf(<< Change(account, NativeBalance, Refund) >>, ChangeWeight(a, b))
                           = Share(account, Refund, NativeBalance, a, b)
                      /\ Share(account, Refund, NativeBalance, a, b) \in Int
<1>1. NativeBalance \in Balances /\ Refund \in Int
  BY FeesAre DEF Balances
<1>2. PICK balance \in Balances, value \in Int : balance = NativeBalance /\ value = Refund
  BY <1>1
<1>3. ASSUME NEW a, NEW b
      PROVE  /\ << Change(account, balance, value) >> \in Seq(Changes)
             /\ SumOf(<< Change(account, balance, value) >>, ChangeWeight(a, b))
                  = Share(account, value, balance, a, b)
             /\ Share(account, value, balance, a, b) \in Int
  BY OneChange, ShareIsInt
<1> QED BY <1>2, <1>3, Zenon

\* The receipts of a call: one gives gas back, another is of no interest.
GasReceipts(n, account) ==
  << [hash |-> <<n, 9>>, data |-> "refundedGas", sender |-> account, value |-> Refund],
     [hash |-> <<n, 8>>, data |-> "other", sender |-> account, value |-> 1] >>

\* Of these receipts, the one that gives gas back is told.
LEMMA GasReceiptsAre ==
  ASSUME NEW n \in Nat, NEW account \in Accounts
  PROVE  /\ ReceiptsAre(n, GasReceipts(n, account))
         /\ \A a, b : SumOf(GasReceipts(n, account), ReceiptWeight(a, b))
                        = Share(account, Refund, NativeBalance, a, b)
<1>1. PICK r, q : /\ r = [hash |-> <<n, 9>>, data |-> "refundedGas", sender |-> account,
                          value |-> Refund]
                  /\ q = [hash |-> <<n, 8>>, data |-> "other", sender |-> account, value |-> 1]
  OBVIOUS
<1>2. r \in ApiReceipts /\ q \in ApiReceipts
  <2>1. <<n, 9>> \in Nat \X {8, 9} /\ <<n, 8>> \in Nat \X {8, 9} /\ 1 \in Nat /\ Refund \in Nat
    BY FeesAre
  <2> QED BY <1>1, <2>1 DEF ApiReceipts
<1>3. /\ r.data = "refundedGas" /\ r.sender = account /\ r.value = Refund /\ q.data = "other"
      /\ r.hash[1] = n /\ q.hash[1] = n
  BY <1>1
<1>4. PICK rs : rs = <<r, q>>
  OBVIOUS
<1>5. rs \in Seq(ApiReceipts) /\ Range(rs) = {r, q}
      /\ DOMAIN rs = {1, 2} /\ rs[1] = r /\ rs[2] = q
  BY <1>2, <1>4 DEF Range
<1>6. HashesBetween(rs, n, n)
  BY <1>3, <1>5 DEF HashesBetween
<1>7. Distinct(rs, IsGasRefund, HashOfReceipt)
  <2>1. IsGasRefund[r] /\ ~IsGasRefund[q]
    BY <1>2, <1>3 DEF IsGasRefund
  <2> QED BY <1>5, <2>1 DEF Distinct
<1>8. ASSUME NEW a, NEW b
      PROVE  SumOf(rs, ReceiptWeight(a, b)) = Share(account, Refund, NativeBalance, a, b)
  <2>1. PICK w : w = ReceiptWeight(a, b)
    OBVIOUS
  <2>2. w \in [ApiReceipts -> Int]
    BY <2>1, WeightsAre
  <2>3. SumOf(<<r, q>>, w) = w[r] + w[q]
    BY <1>2, <2>2, SumFew
  <2>4. w[r] = Share(r.sender, r.value, NativeBalance, a, b) /\ w[q] = 0
    BY <1>2, <1>3, <2>1 DEF ReceiptWeight
  <2>5. w[r] = Share(account, Refund, NativeBalance, a, b)
    BY <1>3, <2>4, Zenon
  <2>6. w[r] + w[q] = w[r]
    BY <1>2, <2>2, <2>4
  <2> QED BY <1>4, <2>1, <2>3, <2>5, <2>6, Zenon
<1>9. GasReceipts(n, account) = rs
  BY <1>1, <1>4, Zenon DEF GasReceipts
<1>10. ReceiptsAre(n, rs)
  BY <1>5, <1>6, <1>7 DEF ReceiptsAre
<1> QED BY <1>8, <1>9, <1>10, Zenon

\* A refund, in a block where it may be that somebody claims rewards.
LEMMA RefundSays ==
  ASSUME NEW scr \in ApiTransactions, scr.type = "unsigned", scr.events = <<>>, scr.isRefund,
         NEW block, NEW a, NEW b
  PROVE  Said(TxOperations(scr, block), a, b)
           = IF isSmartContractResultIneffectiveRefund(scr) THEN 0
             ELSE Share(scr.receiver, scr.value, NativeBalance, a, b)
<1>1. Said(TxOperations(scr, block), a, b)
           = IF isSmartContractResultIneffectiveRefund(scr) THEN 0
             ELSE IF scr.isRefund \/ HoldsRewards(scr, block)
                  THEN Share(scr.receiver, scr.value, NativeBalance, a, b)
                  ELSE Flow(scr.sender, scr.receiver, scr.value, NativeBalance, a, b)
  BY ResultSays
<1> QED BY <1>1, Zenon

\* Changes, and the gas that comes back after them.
LEMMA ChangesWithRefund ==
  ASSUME NEW cs \in Seq(Changes), NEW account \in Accounts
  PROVE  \A a, b :
           /\ cs \o << Change(account, NativeBalance, Refund) >> \in Seq(Changes)
           /\ SumOf(cs \o << Change(account, NativeBalance, Refund) >>, ChangeWeight(a, b))
                = SumOf(cs, ChangeWeight(a, b)) + Share(account, Refund, NativeBalance, a, b)
<1> TAKE a, b
<1>1. PICK t : t = << Change(account, NativeBalance, Refund) >>
  OBVIOUS
<1>2. /\ t \in Seq(Changes)
      /\ SumOf(t, ChangeWeight(a, b)) = Share(account, Refund, NativeBalance, a, b)
  BY <1>1, RefundChange
<1>3. /\ cs \o t \in Seq(Changes)
      /\ SumOf(cs \o t, ChangeWeight(a, b))
           = SumOf(cs, ChangeWeight(a, b)) + SumOf(t, ChangeWeight(a, b))
  BY <1>2, ChangesConcat
<1> QED BY <1>1, <1>2, <1>3, Zenon

\* What a call changes is what its transactions and receipts say.
LEMMA ContractCallKeepsIInv ==
  ASSUME IInv, ContractCall
  PROVE  IInv'
<1> DEFINE Tx(value, caller, callee) ==
             [Transaction(caller, callee, value) EXCEPT !.processing = "SCInvoking"]
           To(caller, callee, refund) == IF refund = "result" THEN caller ELSE callee
           Result(caller, callee, refund) ==
             [ContractResult(1, callee, To(caller, callee, refund), Refund) EXCEPT !.isRefund = TRUE]
           Block(value, caller, callee, refund) ==
             IF refund \in {"result", "ineffective"}
             THEN <<Tx(value, caller, callee), Result(caller, callee, refund)>>
             ELSE <<Tx(value, caller, callee)>>
           Receipts(caller, refund) ==
             IF refund = "receipt" /\ caller = Alice THEN GasReceipts(executed + 1, caller) ELSE <<>>
           Changed(value, caller, callee, refund) ==
             Moved(caller, callee, value, NativeBalance) \o Paid(caller, PaidFee)
             \o (IF refund = "result" \/ (refund = "receipt" /\ caller = Alice)
                 THEN << Change(caller, NativeBalance, Refund) >> ELSE <<>>)
<1>1. PICK value \in Values, caller \in {Alice, Carol}, callee \in {Con, RemoteCon},
           refund \in {"none", "result", "ineffective", "receipt"} :
        Execute(Block(value, caller, callee, refund), Receipts(caller, refund),
                Changed(value, caller, callee, refund))
  <2>1. PICK value \in Values, caller \in {Alice, Carol}, callee \in {Con, RemoteCon} :
          \E refund \in {"none", "result", "ineffective", "receipt"} :
            /\ caller = Alice \/ callee = Con
            /\ LET tx == [Transaction(caller, callee, value) EXCEPT !.processing = "SCInvoking"]
                   result == [ContractResult(1, callee, IF refund = "result" THEN caller ELSE callee, Refund)
                                EXCEPT !.isRefund = TRUE]
               IN  Execute(
                     IF refund \in {"result", "ineffective"} THEN <<tx, result>> ELSE <<tx>>,
                     IF refund = "receipt" /\ caller = Alice
                     THEN << [hash |-> <<executed + 1, 9>>, data |-> "refundedGas",
                              sender |-> caller, value |-> Refund],
                             [hash |-> <<executed + 1, 8>>, data |-> "other",
                              sender |-> caller, value |-> 1] >> ELSE <<>>,
                     Moved(caller, callee, value, NativeBalance) \o Paid(caller, PaidFee)
                     \o (IF refund = "result" \/ (refund = "receipt" /\ caller = Alice)
                         THEN << Change(caller, NativeBalance, Refund) >> ELSE <<>>))
    BY Zenon DEF ContractCall
  <2>2. PICK refund \in {"none", "result", "ineffective", "receipt"} :
            /\ caller = Alice \/ callee = Con
            /\ LET tx == [Transaction(caller, callee, value) EXCEPT !.processing = "SCInvoking"]
                   result == [ContractResult(1, callee, IF refund = "result" THEN caller ELSE callee, Refund)
                                EXCEPT !.isRefund = TRUE]
               IN  Execute(
                     IF refund \in {"result", "ineffective"} THEN <<tx, result>> ELSE <<tx>>,
                     IF refund = "receipt" /\ caller = Alice
                     THEN << [hash |-> <<executed + 1, 9>>, data |-> "refundedGas",
                              sender |-> caller, value |-> Refund],
                             [hash |-> <<executed + 1, 8>>, data |-> "other",
                              sender |-> caller, value |-> 1] >> ELSE <<>>,
                     Moved(caller, callee, value, NativeBalance) \o Paid(caller, PaidFee)
                     \o (IF refund = "result" \/ (refund = "receipt" /\ caller = Alice)
                         THEN << Change(caller, NativeBalance, Refund) >> ELSE <<>>))
    BY <2>1, Zenon
  <2>3. Execute(Block(value, caller, callee, refund), Receipts(caller, refund),
                Changed(value, caller, callee, refund))
    BY <2>2, Zenon DEF GasReceipts
  <2> QED BY <2>3, Zenon
<1>2. PICK to, tx, scr, cs :
        /\ to = To(caller, callee, refund) /\ tx = Tx(value, caller, callee)
        /\ scr = [ContractResult(1, callee, to, Refund) EXCEPT !.isRefund = TRUE]
        /\ cs = Moved(caller, callee, value, NativeBalance) \o Paid(caller, PaidFee)
  OBVIOUS
<1>3. /\ Block(value, caller, callee, refund)
           = IF refund \in {"result", "ineffective"} THEN <<tx, scr>> ELSE <<tx>>
      /\ Changed(value, caller, callee, refund)
           = cs \o (IF refund = "result" \/ (refund = "receipt" /\ caller = Alice)
                    THEN << Change(caller, NativeBalance, Refund) >> ELSE <<>>)
  BY <1>2, Zenon
<1>4. /\ caller \in Accounts /\ callee \in Accounts /\ to \in Accounts
      /\ caller.shard \in Nat /\ callee.shard \in Nat /\ to.shard \in Nat
      /\ value \in Nat /\ value \in Int
  <2>1. caller \in Accounts /\ callee \in Accounts
    BY AccountsAre
  <2>2. to \in Accounts
    BY <1>2, <2>1
  <2> QED BY <2>1, <2>2, AccountIs, FeesAre
<1>5. caller # callee /\ isContractAddress(callee)
  <2>1. isContractAddress(callee)
    BY AccountAssumption
  <2>2. Alice # Con /\ Alice # RemoteCon /\ Carol # Con /\ Carol # RemoteCon
    <3>1. DOMAIN AccountList = 1 .. 7
      BY DEF AccountList
    <3>2. \A i, j \in 1 .. 7 : AccountList[i] = AccountList[j] => i = j
      BY <3>1, AccountAssumption
    <3>3. /\ AccountList[1] # AccountList[3] /\ AccountList[1] # AccountList[7]
          /\ AccountList[6] # AccountList[3] /\ AccountList[6] # AccountList[7]
      BY <3>2
    <3> QED BY <3>3 DEF AccountList
  <2> QED BY <2>1, <2>2
<1>6. tx = [f \in Fields |-> tx[f]]
  BY <1>2 DEF Transaction, ContractResult, Fields
<1>7. /\ tx.type = "normal" /\ tx.hash = <<executed + 1, 0>> /\ tx.sender = caller
      /\ tx.receiver = callee /\ tx.value = value /\ tx.fee = PaidFee /\ tx.relayer = NoAddress
      /\ tx.processing = "SCInvoking" /\ tx.operation = "" /\ tx.nonce = 0 /\ tx.dataLength = 0
      /\ tx.isGuarded = FALSE /\ tx.isRefund = FALSE /\ tx.original = <<>>
      /\ tx.sourceShard = caller.shard /\ tx.destinationShard = callee.shard /\ tx.epoch = epoch
      /\ tx.inner = NoInner /\ tx.events = <<>>
  BY <1>2 DEF Transaction, ContractResult
<1>8. tx \in ApiTransactions /\ tx.hash[1] = executed + 1
  <2>1. tx.events \in Seq(ReadableEvents(epoch))
    BY <1>7, NoEvents, Zenon
  <2>2. tx.type \in KnownTypes /\ tx.processing \in ProcessingTypes
    BY <1>7 DEF KnownTypes, ProcessingTypes
  <2>3. tx.value \in Nat /\ tx.fee \in Nat /\ tx.dataLength \in Nat
    BY <1>7, FeesAre, ZeroIs, <1>4, Zenon
  <2> QED BY <1>4, <1>6, <1>7, <2>1, <2>2, <2>3, MadeTransaction
<1>9. scr = [f \in Fields |-> scr[f]]
  <2>1. PICK base : base = ContractResult(1, callee, to, Refund)
    OBVIOUS
  <2>2. base = [f \in Fields |-> base[f]]
    BY <2>1 DEF Transaction, ContractResult, Fields
  <2>3. scr = [base EXCEPT !.isRefund = TRUE]
    BY <1>2, <2>1, Zenon
  <2> QED BY <2>2, <2>3
<1>10. /\ scr.type = "unsigned" /\ scr.hash = <<executed + 1, 1>> /\ scr.sender = callee
      /\ scr.receiver = to /\ scr.value = Refund /\ scr.fee = 0 /\ scr.relayer = NoAddress
      /\ scr.processing = "MoveBalance" /\ scr.operation = "" /\ scr.nonce = 0
      /\ scr.dataLength = 0 /\ scr.isGuarded = FALSE /\ scr.isRefund = TRUE
      /\ scr.original = <<executed + 1, 0>> /\ scr.sourceShard = callee.shard
      /\ scr.destinationShard = to.shard /\ scr.epoch = epoch /\ scr.inner = NoInner
      /\ scr.events = <<>>
  BY <1>2 DEF Transaction, ContractResult
<1>11. scr \in ApiTransactions /\ scr.hash[1] = executed + 1
  <2>1. scr.events \in Seq(ReadableEvents(epoch))
    BY <1>10, NoEvents, Zenon
  <2>2. scr.type \in KnownTypes /\ scr.processing \in ProcessingTypes
    BY <1>10 DEF KnownTypes, ProcessingTypes
  <2>3. scr.value \in Nat /\ scr.fee \in Nat /\ scr.dataLength \in Nat
    BY <1>10, FeesAre, ZeroIs, <1>4, Zenon
  <2> QED BY <1>4, <1>9, <1>10, <2>1, <2>2, <2>3, MadeTransaction
<1>12. \A a, b : /\ cs \in Seq(Changes)
                 /\ SumOf(cs, ChangeWeight(a, b))
                      = Flow(caller, callee, value, NativeBalance, a, b)
                        + Share(caller, -PaidFee, NativeBalance, a, b)
  BY <1>2, <1>4, MovedForFee
<1>13. cs \in Seq(Changes)
  BY <1>12, Zenon
<1>14. ASSUME NEW block, NEW a, NEW b
       PROVE  /\ Said(TxOperations(tx, block), a, b) = SumOf(cs, ChangeWeight(a, b))
              /\ Said(TxOperations(tx, block), a, b) \in Int
  <2>1. Said(TxOperations(tx, block), a, b)
           = Flow(tx.sender, tx.receiver, tx.value, NativeBalance, a, b)
             + Share(decideFeePayer(tx), -tx.fee, NativeBalance, a, b)
    <3>1. tx.type = "normal" /\ tx.events = <<>>
      BY <1>7, Zenon
    <3> QED BY <1>8, <3>1, QuietSuccessSays
  <2>2. decideFeePayer(tx) = caller
    BY <1>7 DEF decideFeePayer, IsRelayedTxV3
  <2>3. tx.sender = caller /\ tx.receiver = callee /\ tx.value = value /\ tx.fee = PaidFee
    BY <1>7, Zenon
  <2>4. Said(TxOperations(tx, block), a, b) \in Int
    BY <1>8, SaidIsInt
  <2> QED BY <1>12, <2>1, <2>2, <2>3, <2>4, Zenon
<1>15. ASSUME NEW block, NEW a, NEW b
       PROVE  Said(TxOperations(scr, block), a, b)
                = IF refund = "result" THEN Share(caller, Refund, NativeBalance, a, b) ELSE 0
  <2>1. Said(TxOperations(scr, block), a, b)
           = IF isSmartContractResultIneffectiveRefund(scr) THEN 0
             ELSE Share(scr.receiver, scr.value, NativeBalance, a, b)
    <3>1. scr.isRefund /\ scr.type = "unsigned" /\ scr.events = <<>>
      BY <1>10, Zenon
    <3> QED BY <1>11, <3>1, RefundSays
  <2>2. scr.sender = callee /\ scr.receiver = to /\ scr.value = Refund /\ scr.isRefund
    BY <1>10, Zenon
  <2>3. /\ to = (IF refund = "result" THEN caller ELSE callee)
        /\ isSmartContractResultIneffectiveRefund(scr) <=> refund # "result"
    <3>1. to = IF refund = "result" THEN caller ELSE callee
      BY <1>2, Zenon
    <3>2. isSmartContractResultIneffectiveRefund(scr) <=> callee = to
      BY <1>5, <2>2, Zenon DEF isSmartContractResultIneffectiveRefund
    <3> QED BY <1>5, <3>1, <3>2
  <2> QED BY <2>1, <2>2, <2>3
<1>16. tx.hash # scr.hash /\ tx.type # "invalid" /\ scr.type # "invalid"
  <2>1. tx.hash # scr.hash
    BY <1>7, <1>10, DifferentHashes, Zenon
  <2> QED BY <1>7, <1>10, <2>1
<1>17. \A a, b : /\ cs \o << Change(caller, NativeBalance, Refund) >> \in Seq(Changes)
                 /\ SumOf(cs \o << Change(caller, NativeBalance, Refund) >>, ChangeWeight(a, b))
                      = SumOf(cs, ChangeWeight(a, b)) + Share(caller, Refund, NativeBalance, a, b)
  BY <1>4, <1>13, ChangesWithRefund
<1>18. cs \o <<>> = cs
  BY <1>13
<1>19. Receipts(caller, refund)
         = IF refund = "receipt" /\ caller = Alice THEN GasReceipts(executed + 1, caller) ELSE <<>>
  BY Zenon
<1> HIDE DEF Tx, To, Result, Block, Receipts, Changed
<1>20. CASE refund = "none" \/ (refund = "receipt" /\ caller # Alice)
  <2>1. Execute(<<tx>>, <<>>, cs)
    <3>1. refund \notin {"result", "ineffective"} /\ ~(refund = "receipt" /\ caller = Alice)
      BY <1>20
    <3>2. /\ Block(value, caller, callee, refund) = <<tx>> /\ Receipts(caller, refund) = <<>>
          /\ Changed(value, caller, callee, refund) = cs \o <<>>
      BY <1>3, <1>19, <3>1
    <3> QED BY <1>1, <1>18, <3>2, Zenon
  <2>2. \A a \in Here : \A b \in ServedBalances :
          Said(TxOperations(tx, <<tx>>), a, b) = SumOf(cs, ChangeWeight(a, b))
    BY <1>14
  <2> QED BY <1>8, <1>13, <2>1, <2>2, ExecutionOfOne
<1>21. CASE refund = "ineffective"
  <2>1. Execute(<<tx, scr>>, <<>>, cs)
    <3>1. refund \in {"result", "ineffective"} /\ refund # "result" /\ refund # "receipt"
      BY <1>21
    <3>2. /\ Block(value, caller, callee, refund) = <<tx, scr>> /\ Receipts(caller, refund) = <<>>
          /\ Changed(value, caller, callee, refund) = cs \o <<>>
      BY <1>3, <1>19, <3>1
    <3> QED BY <1>1, <1>18, <3>2, Zenon
  <2>2. ASSUME NEW a \in Here, NEW b \in ServedBalances
        PROVE  Said(TxOperations(tx, <<tx, scr>>), a, b) + Said(TxOperations(scr, <<tx, scr>>), a, b)
                 = SumOf(cs, ChangeWeight(a, b))
    <3>1. PICK f, block : f = Said(TxOperations(tx, block), a, b) /\ block = <<tx, scr>>
      OBVIOUS
    <3>2. f \in Int /\ f = SumOf(cs, ChangeWeight(a, b))
      BY <1>14, <3>1, Zenon
    <3>3. Said(TxOperations(scr, block), a, b) = 0
      BY <1>15, <1>21
    <3>4. f + 0 = f
      BY <3>2
    <3> QED BY <3>1, <3>2, <3>3, <3>4, Zenon
  <2> QED BY <1>8, <1>11, <1>13, <1>16, <2>1, <2>2, ExecutionOfTwo
<1>22. CASE refund = "result"
  <2>1. PICK all : all = cs \o << Change(caller, NativeBalance, Refund) >>
    OBVIOUS
  <2>2. Execute(<<tx, scr>>, <<>>, all)
    <3>1. refund \in {"result", "ineffective"} /\ refund = "result" /\ refund # "receipt"
      BY <1>22
    <3>2. /\ Block(value, caller, callee, refund) = <<tx, scr>> /\ Receipts(caller, refund) = <<>>
          /\ Changed(value, caller, callee, refund) = all
      BY <1>3, <1>19, <2>1, <3>1
    <3> QED BY <1>1, <3>2, Zenon
  <2>3. ASSUME NEW a \in Here, NEW b \in ServedBalances
        PROVE  Said(TxOperations(tx, <<tx, scr>>), a, b) + Said(TxOperations(scr, <<tx, scr>>), a, b)
                 = SumOf(all, ChangeWeight(a, b))
    <3>1. PICK block : block = <<tx, scr>>
      OBVIOUS
    <3>2. Said(TxOperations(tx, block), a, b) = SumOf(cs, ChangeWeight(a, b))
      BY <1>14
    <3>3. Said(TxOperations(scr, block), a, b) = Share(caller, Refund, NativeBalance, a, b)
      BY <1>15, <1>22
    <3> QED BY <1>17, <2>1, <3>1, <3>2, <3>3, Zenon
  <2>4. all \in Seq(Changes)
    BY <1>17, <2>1, Zenon
  <2> QED BY <1>8, <1>11, <1>16, <2>2, <2>3, <2>4, ExecutionOfTwo
<1>23. CASE refund = "receipt" /\ caller = Alice
  <2>1. PICK n, rs, all : /\ n = executed + 1 /\ rs = GasReceipts(n, caller)
                          /\ all = cs \o << Change(caller, NativeBalance, Refund) >>
    OBVIOUS
  <2>2. Execute(<<tx>>, rs, all)
    <3>1. refund \notin {"result", "ineffective"} /\ refund = "receipt" /\ caller = Alice
      BY <1>23
    <3>2. /\ Block(value, caller, callee, refund) = <<tx>> /\ Receipts(caller, refund) = rs
          /\ Changed(value, caller, callee, refund) = all
      BY <1>3, <1>19, <2>1, <3>1
    <3> QED BY <1>1, <3>2, Zenon
  <2>3. n \in Nat
    BY <2>1, InContext
  <2>4. /\ ReceiptsAre(n, rs)
        /\ \A a, b : SumOf(rs, ReceiptWeight(a, b)) = Share(caller, Refund, NativeBalance, a, b)
    BY <1>4, <2>1, <2>3, GasReceiptsAre
  <2>5. all \in Seq(Changes)
    BY <1>17, <2>1, Zenon
  <2>6. \A a \in Here : \A b \in ServedBalances :
          Balanced(Said(TxOperations(tx, <<tx>>), a, b), rs, all, a, b)
    <3> TAKE a \in Here
    <3> TAKE b \in ServedBalances
    <3>1. Said(TxOperations(tx, <<tx>>), a, b) = SumOf(cs, ChangeWeight(a, b))
      BY <1>14
    <3> QED BY <1>17, <2>1, <2>4, <3>1, Zenon DEF Balanced
  <2>7. tx.hash[1] = n
    BY <1>8, <2>1
  <2>8. IsReconciledBlock(n, n, <<tx>>, rs, all)
    BY <1>8, <2>3, <2>4, <2>5, <2>6, <2>7, OneTransaction
  <2>9. IsReconciledBlock(executed + 1, executed + 1, <<tx>>, rs, all)
    BY <2>1, <2>8, Zenon
  <2> QED BY <2>2, <2>9, ExecutionKeepsIInv
<1>24. \/ refund = "none" \/ (refund = "receipt" /\ caller # Alice)
       \/ refund = "ineffective" \/ refund = "result" \/ (refund = "receipt" /\ caller = Alice)
  OBVIOUS
<1> QED BY <1>20, <1>21, <1>22, <1>23, <1>24

-----------------------------------------------------------------------------
(* The theorems *)

\* Every step keeps the inductive invariant.
LEMMA NextKeepsIInv ==
  ASSUME IInv, [Next]_vars
  PROVE  IInv'
<1>1. CASE MoveBalance
  BY <1>1, MoveBalanceKeepsIInv
<1>2. CASE InvalidTransaction
  BY <1>2, InvalidTransactionKeepsIInv
<1>3. CASE InvalidMoveBalance
  BY <1>3, InvalidMoveBalanceKeepsIInv
<1>4. CASE InvalidRelayedTransaction
  BY <1>4, InvalidRelayedTransactionKeepsIInv
<1>5. CASE ContractCall
  BY <1>5, ContractCallKeepsIInv
<1>6. CASE ContractPays
  BY <1>6, ContractPaysKeepsIInv
<1>7. CASE ExecutionFails
  BY <1>7, ExecutionFailsKeepsIInv
<1>8. CASE ValueReturnsFromOtherShard
  BY <1>8, ValueReturnsFromOtherShardKeepsIInv
<1>9. CASE Deployment
  BY <1>9, DeploymentKeepsIInv
<1>10. CASE ClaimDeveloperRewards
  BY <1>10, ClaimDeveloperRewardsKeepsIInv
<1>11. CASE TokenTransfer
  BY <1>11, TokenTransferKeepsIInv
<1>12. CASE SupplyChange
  BY <1>12, SupplyChangeKeepsIInv
<1>13. CASE RewardTransaction
  BY <1>13, RewardTransactionKeepsIInv
<1>14. CASE RelayedTransaction
  BY <1>14, RelayedTransactionKeepsIInv
<1>15. CASE UNCHANGED vars
  <2>1. /\ config' = config /\ epoch' = epoch /\ executed' = executed
        /\ txs' = txs /\ receipts' = receipts /\ changes' = changes
    BY <1>15 DEF vars
  <2> QED BY <2>1, Zenon DEF IInv
<1> QED BY <1>1, <1>2, <1>3, <1>4, <1>5, <1>6, <1>7, <1>8, <1>9, <1>10, <1>11, <1>12, <1>13,
           <1>14, <1>15, Zenon DEF Next

\* What the executions of a block did is explained, execution by execution, by what the
\* transformer makes of their transactions and receipts.
THEOREM EveryExecutionIsExplained ==
  Spec => []IInv
<1>1. Init => IInv
  BY InitIInv
<1>2. IInv /\ [Next]_vars => IInv'
  BY NextKeepsIInv
<1> QED BY <1>1, <1>2, PTL DEF Spec

\* No block that the protocol makes is one that transformBlockTxs fails on.
THEOREM SpecBlockIsServed ==
  Spec => []BlockIsServed
<1>1. IInv => BlockIsServed
  BY IInvImplies
<1> QED BY <1>1, EveryExecutionIsExplained, PTL

\* For every account that is observed and every balance that is served, the successful
\* operations of the block add up to what changed.
THEOREM SpecReconciled ==
  Spec => []Reconciled
<1>1. IInv => Reconciled
  BY IInvImplies
<1> QED BY <1>1, EveryExecutionIsExplained, PTL

\* The block that transformBlockTxs makes is one that a Rosetta client accepts.
THEOREM SpecBlockIsAcceptable ==
  Spec => []BlockIsAcceptable
<1>1. IInv => BlockIsAcceptable
  BY IInvImplies
<1> QED BY <1>1, EveryExecutionIsExplained, PTL

=============================================================================
