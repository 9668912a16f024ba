--------------------------- MODULE MCBlockExecution ---------------------------
(* A small shard: two users and two contracts here, one of each elsewhere. *)
EXTENDS BlockExecution

Account(name, shard, contract, lastByte) ==
  [name |-> name, shard |-> shard, contract |-> contract, lastByte |-> lastByte]

MCAlice == Account("alice", 0, FALSE, 0)
MCBob == Account("bob", 0, FALSE, 2)
MCCon == Account("con", 0, TRUE, 0)
MCNewCon == Account("newCon", 0, TRUE, 2)
MCCarol == Account("carol", 1, FALSE, 1)
MCRemoteCon == Account("remoteCon", 1, TRUE, 1)
MCSystem == Account("system", 0, TRUE, 0)
MCMetachain == [name |-> "metachain"]
MCNoAddress == [name |-> ""]

MCNetworkConfig ==
  [ MinGasLimit |-> 50, GasPerDataByte |-> 2, ExtraGasLimitGuardedTx |-> 7,
    ExtraGasLimitRelayedTxV3 |-> 11, GasPrice |-> 3 ]

\* A plain configuration, one for a projected shard, and one that leaves out contracts, too.
MCConfig(projected, contracts) ==
  [observedActualShard |-> 0, projected |-> projected, shouldHandleContracts |-> contracts]
MCConfigs == {MCConfig(-1, TRUE), MCConfig(2, TRUE), MCConfig(0, FALSE)}
MCNativeCurrency == <<"EGLD">>
MCNativeAsESDTIdentifier == <<"EGLD", "000000">>
MCCustomCurrencies == {<<"TOKEN", "123456">>, <<"NFT", "abcdef">>}

\* A fungible token, one with nonces, and one that is not enabled.
MCTokens ==
  { [identifier |-> <<"TOKEN", "123456">>, nonce |-> 0, value |-> 40],
    [identifier |-> <<"NFT", "abcdef">>, nonce |-> 266, value |-> 1],
    [identifier |-> <<"OTHER", "987654">>, nonce |-> 0, value |-> 40] }
=============================================================================
