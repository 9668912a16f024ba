---------------------------- MODULE MCConstruction ----------------------------
(* Two sessions of one account: one states its payment in every way there is, *)
(* the other makes a plain payment, native or custom. *)
EXTENDS PaymentShown

MCAddress(name, lastByte) == [name |-> name, shard |-> 0, contract |-> FALSE, lastByte |-> lastByte]
Alice == MCAddress("alice", 0)
Bob == MCAddress("bob", 1)

MCNative == [symbol |-> "EGLD", decimals |-> 18]
Token == [symbol |-> "TOKEN-123456", decimals |-> 6]
MCCustomCurrencies == {Token}
WrongDecimals == [Token EXCEPT !.decimals = 0]
NotEnabled == [symbol |-> "OTHER-987654", decimals |-> 4]

\* Numbers of gas are scaled down; a custom transfer needs less than what is configured.
MCNetworkConfig ==
  [ MinGasLimit |-> 10, GasPerDataByte |-> 2, MinGasPrice |-> 4, GasLimitCustomTransfer |-> 9,
    modifierNum |-> 1, modifierDen |-> 4 ]

MCPayment(currency, form, data, gasLimit, gasPrice) ==
  [ intent |-> [sender |-> Alice, receiver |-> Bob, amount |-> 5, currency |-> currency],
    form |-> form, data |-> data, gasLimit |-> gasLimit, gasPrice |-> gasPrice ]

Datas == {NoData, Message(3), MalformedTransfer, TransferData(Token.symbol, 5)}

\* Every form with every currency; then all data, gas limits and gas prices in the plainest form.
MCPayments ==
  { MCPayment(currency, form, NoData, 0, 0) :
      currency \in {MCNative, Token, WrongDecimals, NotEnabled}, form \in Forms }
  \cup { MCPayment(currency, "operations", data, 0, 0) :
      currency \in {MCNative, Token}, data \in Datas }
  \cup { MCPayment(MCNative, "operations", data, 40, 0) : data \in Datas \ {Message(3)} }
  \cup { MCPayment(MCNative, "operations", Message(3), gasLimit, 17) : gasLimit \in {12, 16} }
  \cup { MCPayment(Token, "operations", NoData, gasLimit, 0) : gasLimit \in {18, 27, 40} }
  \cup { MCPayment(MCNative, "metadata", NoData, 0, 3) }

CONSTANTS s1, s2
MCPaymentsOf ==
  [s \in {s1, s2} |->
     IF s = s1 THEN MCPayments
     ELSE {MCPayment(currency, "operations", NoData, 0, 0) : currency \in {MCNative, Token}}]
=============================================================================
