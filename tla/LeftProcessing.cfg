SPECIFICATION FairSpec
CONSTANTS
  w1 = w1  w2 = w2
  Withdrawal = {w1, w2}
  Amount <- OneToken
  Unit = 2
  FeePercent = 100
  Funds = 3
  MaxAttempts = 2
  Concurrency = 2
  WaitsForConfirmation = FALSE
  Adversity = {"crash"}
  MaxCrashes = 1
PROPERTIES QueuedIsDecided
CHECK_DEADLOCK FALSE
