----------------------------- MODULE RpcMethods -----------------------------
(***************************************************************************)
(* The methods of DigiDollarRPC: the RPC each one calls and the positional *)
(* arguments it makes of named parameters.  An optional parameter that is  *)
(* not given is left out, unless a later one is given: then a placeholder  *)
(* takes its position.                                                     *)
(***************************************************************************)
EXTENDS SequencesExt

Given(name) == [of |-> "caller", value |-> name]

Placeholder(value) == [of |-> "method", value |-> value]

(* A parameter with its placeholder, sent if one of later is given. *)
Optional(name, placeholder, later) ==
  [name |-> name, placeholder |-> placeholder, later |-> later]

Final(name) == Optional(name, "", {})

Method(rpc, required, optional) ==
  [rpc |-> rpc, required |-> required, optional |-> optional, wallet |-> FALSE]

OfWallet(method) == [method EXCEPT !.wallet = TRUE]

----------------------------------------------------------------------------
OracleMethods ==
  [getOraclePrice |-> Method("getoracleprice", << >>, << >>),
   getAllOraclePrices |-> Method("getalloracleprices", << >>, <<Final("blocks")>>),
   getOracles |-> Method("getoracles", << >>, <<Final("activeOnly")>>),
   listOracle |-> Method("listoracle", << >>, << >>),
   stopOracle |-> Method("stoporacle", <<"oracleId">>, << >>),
   getOraclePubkey |-> Method("getoraclepubkey", <<"oracleId">>, << >>),
   sendOraclePrice |-> Method("sendoracleprice", <<"priceUsd">>, <<Final("oracleId")>>),
   submitOraclePrice |-> Method("submitoracleprice", <<"oracleId", "priceMicroUsd">>, << >>),
   startOracle |-> OfWallet(Method("startoracle", <<"oracleId">>, <<Final("privateKey")>>)),
   createOracleKey |-> OfWallet(Method("createoraclekey", <<"oracleId">>, << >>)),
   setMockOraclePrice |-> Method("setmockoracleprice", <<"priceMicroUsd">>, << >>),
   getMockOraclePrice |-> Method("getmockoracleprice", << >>, << >>),
   enableMockOracle |-> Method("enablemockoracle", <<"enable">>, << >>),
   simulatePriceVolatility |->
     Method("simulatepricevolatility", <<"percentChange">>, << >>)]

BalanceMethods ==
  [getBalance |-> OfWallet(Method("getdigidollarbalance", << >>,
     <<Optional("address", "", {"minconf", "includeWatchonly"}),
       Optional("minconf", "1", {"includeWatchonly"}), Final("includeWatchonly")>>))]

TransactionMethods ==
  [mint |-> OfWallet(Method("mintdigidollar", <<"ddAmountCents", "lockTier">>,
     <<Final("feeRate")>>)),
   send |-> OfWallet(Method("senddigidollar", <<"address", "amountCents">>,
     <<Optional("comment", "", {"feeRate"}), Final("feeRate")>>)),
   redeem |-> OfWallet(Method("redeemdigidollar", <<"positionId", "ddAmountCents">>,
     <<Optional("redemptionAddress", "", {"feeRate"}), Final("feeRate")>>)),
   listTransactions |-> OfWallet(Method("listdigidollartxs", << >>,
     <<Optional("count", "10", {"skip", "address", "category"}),
       Optional("skip", "0", {"address", "category"}),
       Optional("address", "", {"category"}), Final("category")>>))]

PositionMethods ==
  [listPositions |-> OfWallet(Method("listdigidollarpositions", << >>,
     <<Optional("activeOnly", "true", {"tierFilter", "minAmount"}),
       Optional("tierFilter", "null", {"minAmount"}), Final("minAmount")>>)),
   getRedemptionInfo |->
     Method("getredemptioninfo", <<"positionId">>, <<Final("ddAmountCents")>>),
   calculateCollateral |-> Method("calculatecollateralrequirement",
     <<"ddAmountCents", "lockDays">>, <<Final("oraclePrice")>>),
   estimateCollateral |-> Method("estimatecollateral",
     <<"ddAmount", "lockTier">>, <<Final("oraclePriceMicroUsd")>>)]

WalletMethods ==
  [getAddress |-> OfWallet(Method("getdigidollaraddress", << >>, <<Final("label")>>)),
   validateAddress |-> Method("validateddaddress", <<"address">>, << >>),
   listAddresses |-> Method("listdigidollaraddresses", << >>,
     <<Optional("includeWatchonly", "false", {"minBalance"}), Final("minBalance")>>),
   importAddress |-> Method("importdigidollaraddress", <<"address">>,
     <<Optional("label", "", {"rescan", "p2sh"}),
       Optional("rescan", "false", {"p2sh"}), Final("p2sh")>>)]

SystemMethods ==
  [getStats |-> Method("getdigidollarstats", << >>, << >>),
   getDcaMultiplier |-> Method("getdcamultiplier", << >>, <<Final("systemHealth")>>),
   getDeploymentInfo |-> Method("getdigidollardeploymentinfo", << >>, << >>),
   getProtectionStatus |-> Method("getprotectionstatus", << >>, << >>)]

BlockchainMethods ==
  [listUnspent |-> OfWallet(Method("listunspent", << >>,
     <<Optional("minconf", "1", {"maxconf", "addresses"}),
       Optional("maxconf", "9999999", {"addresses"}), Final("addresses")>>)),
   getRawTransaction |-> Method("getrawtransaction", <<"txid">>, <<Final("verbose")>>),
   sendRawTransaction |-> Method("sendrawtransaction", <<"hexstring">>, << >>),
   getBlockCount |-> Method("getblockcount", << >>, << >>)]

(* Object.assign: the methods of a group replace those of the same name. *)
Assign(client, methods) ==
  [name \in DOMAIN client \cup DOMAIN methods |->
     IF name \in DOMAIN methods THEN methods[name] ELSE client[name]]

DigiDollarRPC ==
  Assign(Assign(Assign(Assign(Assign(Assign(OracleMethods, BalanceMethods),
    TransactionMethods), PositionMethods), WalletMethods), SystemMethods), BlockchainMethods)

----------------------------------------------------------------------------
OnlyGiven(optional, given) ==             \* mutant: no placeholders
  IF optional.name \in given THEN <<Given(optional.name)>> ELSE << >>

(* What a method pushes for an optional parameter. *)
Pushes(optional, given) ==
  IF optional.name \in given THEN <<Given(optional.name)>>
  ELSE IF optional.later \cap given # {} THEN <<Placeholder(optional.placeholder)>>
  ELSE << >>

(* The call that reaches the transport, for the optional parameters given. *)
Call(method, given) ==
  [rpc |-> method.rpc, wallet |-> method.wallet,
   params |-> [i \in DOMAIN method.required |-> Given(method.required[i])]
                \o FlattenSeq([i \in DOMAIN method.optional |->
                                 Pushes(method.optional[i], given)])]
=============================================================================
