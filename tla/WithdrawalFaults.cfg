SPECIFICATION FairSpec
CONSTANTS
  w1 = w1  w2 = w2
  Withdrawal = {w1, w2}
  Amount <- OneToken
  Unit = 2
  FeePercent = 100
  Funds = 2
  MaxAttempts = 2
  Concurrency = 2
  WaitsForConfirmation = FALSE
  Adversity = {"throw", "crash", "apicrash", "revert"}
  MaxCrashes = 2
INVARIANTS TypeOK PendingIsNotDone
PROPERTIES KeepsLedger QueuedIsTold
CHECK_DEADLOCK FALSE
