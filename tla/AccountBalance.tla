---------------------------- MODULE AccountBalance ----------------------------
(***************************************************************************)
(* The balance that /account/balance asks the observer for                 *)
(* (server/provider/accounts.go, tokenIdentifierParts.go).  A symbol is    *)
(* the sequence of its parts between dashes: <<"EGLD">> (native),          *)
(* <<ticker, random>> and <<ticker, random, digits>>, where `digits' are   *)
(* those of ExtendedIdentifier in TransactionsTransformer.  Whose balance, *)
(* and at which block, is in SyncingClient; the decimals are left out:     *)
(* they are looked up by symbol both here and in operations.               *)
(***************************************************************************)
EXTENDS Integers, Sequences

CONSTANT nativeCurrency

ErrCannotParseTokenIdentifier == [error |-> "errCannotParseTokenIdentifier"]

\* strconv.ParseUint in base 16, of at most 16 digits (a nonce has 64 bits)
ParseNonce(digits) ==
  LET nonce[n \in 0 .. Len(digits)] == IF n = 0 THEN 0 ELSE 16 * nonce[n - 1] + digits[n]
  IN  nonce[Len(digits)]

\* parseTokenIdentifierIntoParts, of a symbol with two or three parts
TickerWithRandomSequence(symbol) == SubSeq(symbol, 1, 2)
NonceOf(symbol) == IF Len(symbol) = 3 THEN ParseNonce(symbol[3]) ELSE 0

\* Variation: every token is asked for as a fungible one.
AsFungible(symbol) == [identifier |-> symbol, nonce |-> 0]

\* The request to the observer: a token whose nonce is 0 is asked for by its whole symbol.
decideCustomTokenBalanceUrl(symbol) ==
  CASE Len(symbol) \notin {2, 3} -> ErrCannotParseTokenIdentifier
    [] Len(symbol) \in {2, 3} /\ NonceOf(symbol) = 0 -> [identifier |-> symbol, nonce |-> 0]
    [] Len(symbol) \in {2, 3} /\ NonceOf(symbol) # 0 ->
         [identifier |-> TickerWithRandomSequence(symbol), nonce |-> NonceOf(symbol)]

\* networkProvider.GetAccountBalance: which balance the observer answers with
GetAccountBalance(symbol) ==
  IF symbol = nativeCurrency THEN [identifier |-> nativeCurrency, nonce |-> 0]
  ELSE decideCustomTokenBalanceUrl(symbol)
=============================================================================
