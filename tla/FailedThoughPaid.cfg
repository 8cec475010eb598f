SPECIFICATION Spec
CONSTANTS
  w1 = w1  w2 = w2
  Withdrawal = {w1}
  Amount <- OneToken
  Unit = 2
  FeePercent = 100
  Funds = 3
  MaxAttempts = 2
  Concurrency = 2
  WaitsForConfirmation = FALSE
  Adversity = {"throw"}
  MaxCrashes = 0
PROPERTIES FailedEventIsTrue
CHECK_DEADLOCK FALSE
