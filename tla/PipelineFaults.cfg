SPECIFICATION Spec
CONSTANTS
  p1 = p1  p2 = p2  a1 = a1  a2 = a2
  j1 = j1  j2 = j2  j3 = j3  t1 = t1  t2 = t2  t3 = t3  r1 = r1  r2 = r2
  NoTx = NoTx  NoPayment = NoPayment
  Payment = {p1}
  Account = {a1}
  AccountOf <- OneAccount
  Job = {j1, j2}
  Tx = {t1, t2}
  Recoverer = {r1}
  WaitsForConfirmation = TRUE
  Adversity = {"crash", "throw", "slow", "revert"}
  MaxCrashes = 1
  MaxAttempts = 2
  SweepConcurrency = 2
SYMMETRY Symmetric
VIEW WithoutOtherEvents
INVARIANTS TypeOK ConfirmedIsOwned CompletionBacked ClaimedIsWorkedOn CompletedIsAnnounced
