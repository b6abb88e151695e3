SPECIFICATION Spec
CONSTANTS
  m1 = m1
  p1 = p1
  p2 = p2
  f1 = f1
  f2 = f2
  f3 = f3
  d1 = d1
  Second = Second
  Friend = Friend
  Wallet = Wallet
  Nobody = Nobody
  None = None
  MintCalls = {}
  TransferCalls = {t1}
  RedeemCalls = {}
  LOCK_TIERS <- MCTiers
  COIN = 100
  MAX_MONEY = 2000000000
  MAX_TX_INPUTS = 400
  MintRequests <- OneMint
  TransferRequests <- OneTransfer
  RedeemRequests <- FullRedeems
  Others = {f1, f2, f3, p1}
  OtherTx <- MCOtherTx
  Earlier = {f1, f2, p1}
  OraclePrices <- OnePrice
  SignerTweaks = TRUE
  Derived = {Second}
  ScriptSpendTypes = {2}
  MaxHeight = 2
INVARIANTS
  RecipientsArePaid
CHECK_DEADLOCK FALSE
