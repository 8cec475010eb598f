SPECIFICATION FairSpec
CONSTANTS
  v1 = v1  v2 = v2  w1 = w1  w2 = w2  x1 = x1
  e1 = e1  t1 = t1  t2 = t2  g1 = g1  s1 = s1  g2 = g2  n1 = n1
  NoWallet = NoWallet  NoTransfer = NoTransfer
  Network = {"EVM", "TRON", "SOLANA"}
  Wallet = {v1, v2, w1, w2, x1}
  Token = {"USDT", "native"}
  Native = "native"
  Transfer = {e1, t1, t2, g1, s1, g2, n1}
  NetworkOf <- Networks
  To <- Recipients
  TokenOf <- Tokens
  HashOf <- Hashes
  Kind <- Kinds
  Adversity = {"throw", "crash", "late"}
  MaxBlocksBack = 1
  MaxNativeScan = 50
  PageSize = 1
  MaxBlock = 3
  MaxFaults = 2
INVARIANTS TypeOK NoGap UntoldAreFaults
PROPERTIES KeepsRegister WatchedIsDetected
