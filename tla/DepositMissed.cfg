SPECIFICATION FairSpec
CONSTANTS
  v1 = v1  v2 = v2  w1 = w1  w2 = w2  x1 = x1
  e1 = e1  t1 = t1  t2 = t2  g1 = g1  s1 = s1  g2 = g2  n1 = n1
  NoWallet = NoWallet  NoTransfer = NoTransfer
  Network = {"TRON"}
  Wallet = {w1}
  Token = {"USDT", "native"}
  Native = "native"
  Transfer = {t1}
  NetworkOf <- Networks
  To <- Recipients
  TokenOf <- Tokens
  HashOf <- Hashes
  Kind <- Kinds
  Adversity = {}
  MaxBlocksBack = 1
  MaxNativeScan = 50
  PageSize = 1
  MaxBlock = 2
  MaxFaults = 0
PROPERTIES DepositIsDetected
