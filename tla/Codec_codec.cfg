SPECIFICATION Spec
CONSTANTS
  Base = 8
  HashSize = 3
  OP_PUSHDATA1 = 4
  OP_RETURN = 7
  DD_MARKER <- MCMarker
  Wallet = Wallet
  Nobody = Nobody
  LOCK_TIERS <- MCTiers
  COIN = 10
  MAX_MONEY = 2000000000
  MAX_TX_INPUTS = 7
  Precision = 12
  Samples <- MCSamples
INVARIANTS
  NumbersSurvive
  PushesAreRead
  MetadataSurvives
  NodeReadsTx
  KeyPathAgrees
  MessageBinds
  SelectionIsBest
  EstimateCovers
  FeesAreFair
  ConversionsAgree
  AmountsSurvive
  ArgumentsArrive
