-------------------------- MODULE WithdrawalProofs --------------------------
(* Theorems about Withdrawals, for every number of withdrawals and crashes,  *)
(* every amount, fee and balance, and every set of faults.                   *)
EXTENDS Withdrawals, TLAPS

USE DEF WithdrawalStatus, EventType, RequestPc, ProcPc, JobState, PayoutState

\* What a payout is worth is an integer, whatever the fee.
LEMMA NetIsInt == ASSUME NEW w \in Withdrawal PROVE Net(w) \in Int
<1>1. Amount[w] \in Nat /\ Requested(w) \in Int /\ Fee(w) \in Int
  BY AmountAssumption DEF Requested, Fee
<1> QED
  BY <1>1, AmountAssumption DEF Net

-----------------------------------------------------------------------------
(* Amounts.                                                                  *)

\* The fee is the share of the whole tokens asked for, rounded down to a whole
\* token: none at all as long as the share is less than a token, whatever its worth
\* (createWithdrawal's feeAmount, withdrawalService.ts:40).
THEOREM FeeIsRoundedDown ==
  ASSUME NEW w \in Withdrawal
  PROVE  /\ Fee(w) \in Nat
         /\ Fee(w) * 10000 <= Requested(w) * FeePercent
         /\ Requested(w) * FeePercent < Fee(w) * 10000 + 10000
         /\ Requested(w) * FeePercent < 10000 => Net(w) = Amount[w]
<1>1. Amount[w] \in Nat /\ Unit \in Nat \ {0} /\ FeePercent \in Nat
  BY AmountAssumption
<1>2. Requested(w) \in Nat
  BY <1>1 DEF Requested
<1>3. PICK share \in Nat : share = Requested(w) * FeePercent
  BY <1>1, <1>2
<1>4. Fee(w) \in Nat /\ Fee(w) * 10000 <= share /\ share < Fee(w) * 10000 + 10000
  BY <1>3 DEF Fee
<1>5. ASSUME share < 10000 PROVE Net(w) = Amount[w]
  <2>1. Fee(w) = 0
    BY <1>4, <1>5
  <2> QED
    BY <1>1, <2>1 DEF Net
<1> QED
  BY <1>3, <1>4, <1>5

\* A fee of at most a hundred percent leaves between nothing and all of a request
\* of whole tokens to be paid out (processWithdrawal's netAmount, :98-103).
THEOREM PayoutIsWithinRequest ==
  ASSUME NEW w \in Withdrawal, IsWhole(w), FeePercent <= 10000
  PROVE  Net(w) \in 0..Amount[w]
<1>1. Amount[w] \in Nat /\ Unit \in Nat \ {0} /\ FeePercent \in 0..10000
  BY AmountAssumption
<1>2. Requested(w) \in Nat /\ Fee(w) \in Nat
  <2>1. Requested(w) \in Nat
    BY <1>1 DEF Requested
  <2> QED
    BY <2>1, FeeIsRoundedDown
<1>3. Fee(w) <= Requested(w)
  <2>1. Requested(w) * FeePercent <= Requested(w) * 10000
    BY <1>1, <1>2
  <2>2. PICK share \in Nat : share = Requested(w) * FeePercent
    BY <1>1, <1>2
  <2> QED
    BY <1>2, <2>1, <2>2, FeeIsRoundedDown
<1>4. Amount[w] = Requested(w) * Unit
  BY <1>1 DEF IsWhole, Requested
<1>5. PICK rest \in Nat : Requested(w) = Fee(w) + rest
  <2>1. Requested(w) - Fee(w) \in Nat
    BY <1>2, <1>3
  <2> QED
    BY <1>2, <2>1
<1>6. Amount[w] = Fee(w) * Unit + rest * Unit /\ Fee(w) * Unit \in Nat /\ rest * Unit \in Nat
  BY <1>1, <1>2, <1>4, <1>5
<1> QED
  BY <1>1, <1>6 DEF Net

-----------------------------------------------------------------------------
(* The inductive invariant.                                                  *)

\* The invariant holds initially.
LEMMA InitIInv == Init => IInv
<1> SUFFICES ASSUME Init PROVE IInv
  OBVIOUS
<1>1. TypeOK
  BY AmountAssumption, WorkerAssumption DEF Init, TypeOK, NoJob, NoPayout
<1>2. ProcIsCurrent /\ RowsAreTrue /\ RequestsAreTrue
  BY DEF Init, ProcIsCurrent, RowsAreTrue, RequestsAreTrue, NoJob, NoPayout
<1> QED
  BY <1>1, <1>2 DEF IInv

-----------------------------------------------------------------------------
(* Every step keeps the invariant.                                           *)

\* The POST handler of a withdrawal runs before any processor has its row.
LEMMA RequestKeepsIInv ==
  ASSUME IInv, NEW w \in Withdrawal, RequestStep(w)
  PROVE  IInv'
<1> USE DEF chainVars, rowVars, RequestGoes
<1> USE DEF IInv, TypeOK, ProcIsCurrent, RowsAreTrue, RequestsAreTrue
<1>1. CASE CheckFunds(w)
  BY <1>1 DEF CheckFunds
<1>2. CASE Refuse(w)
  BY <1>2 DEF Refuse
<1>3. CASE CreateRow(w)
  BY <1>3 DEF CreateRow
<1>4. CASE Enqueue(w)
  <2>1. [state |-> "waiting", left |-> MaxAttempts, stalled |-> FALSE]
          \in [state: JobState, left: 0..MaxAttempts, stalled: BOOLEAN]
    BY WorkerAssumption
  <2>2. TypeOK'
    BY <1>4, <2>1 DEF Enqueue
  <2>3. /\ status[w] # "NONE" /\ proc[w] = "idle"
        /\ job'[w].state = "waiting" /\ job'[w].left > 0
        /\ \A v \in Withdrawal : v # w => job'[v] = job[v] /\ request'[v] = request[v]
    BY <1>4, WorkerAssumption DEF Enqueue
  <2>4. ProcIsCurrent' /\ RowsAreTrue' /\ RequestsAreTrue'
    BY <1>4, <2>3 DEF Enqueue
  <2> QED
    BY <2>2, <2>4
<1>5. CASE RequestThrows(w) \/ RequestLost(w)
  BY <1>5 DEF RequestThrows, RequestLost
<1> QED
  BY <1>1, <1>2, <1>3, <1>4, <1>5 DEF RequestStep

\* A job is taken from the queue and claims its row, or finds it claimed.
LEMMA StartKeepsIInv ==
  ASSUME IInv, NEW w \in Withdrawal, Start(w) \/ ClaimThrows(w)
  PROVE  IInv'
<1> USE DEF chainVars, rowVars, ProcGoes, SetStatus, CanStart, Claimable
<1> USE DEF IInv, TypeOK, ProcIsCurrent, RowsAreTrue, RequestsAreTrue
<1>1. CASE Start(w) /\ Claimable(w) /\ status' = [status EXCEPT ![w] = "PROCESSING"]
  <2>1. status[w] = "PENDING" /\ payout[w].count = 0 /\ request[w] \notin {"new", "checked"}
    BY <1>1
  <2>a. \A v \in Withdrawal : /\ v # w => job'[v] = job[v] /\ status'[v] = status[v]
                              /\ job'[v].left = job[v].left
    BY <1>1 DEF Start
  <2>b. request[w] = "queued" /\ job[w].left > 0 /\ status'[w] = "PROCESSING"
    BY <1>1 DEF Start
  <2>d. /\ job' = [job EXCEPT ![w].state = "active"]
        /\ proc' = [proc EXCEPT ![w] = "claimed"]
        /\ UNCHANGED <<hot, payout, events, request, crashes>>
    BY <1>1 DEF Start
  <2>c. TypeOK'
    <3>1. job' \in [Withdrawal -> [state: JobState, left: 0..MaxAttempts, stalled: BOOLEAN]]
      BY <2>d
    <3>2. proc' \in [Withdrawal -> ProcPc] /\ status' \in [Withdrawal -> WithdrawalStatus]
      BY <1>1, <2>d
    <3> QED
      BY <2>d, <3>1, <3>2
  <2>2. ProcIsCurrent'
    BY <1>1, <2>1, <2>a, <2>b, <2>d DEF Start
  <2>3. RowsAreTrue'
    BY <1>1, <2>1 DEF Start
  <2>4. RequestsAreTrue'
    BY <1>1, <2>a, <2>b DEF Start
  <2> QED
    BY <2>2, <2>3, <2>4, <2>c
<1>2. CASE Start(w) /\ ~Claimable(w) /\ status' = status
  <2>1. TypeOK' /\ ProcIsCurrent' /\ RowsAreTrue'
    BY <1>2 DEF Start
  <2>2. \A v \in Withdrawal : (v # w => job'[v] = job[v]) /\ job'[v].left = job[v].left
    BY <1>2 DEF Start
  <2>3. request[w] = "queued" /\ job[w].left > 0
    BY <1>2 DEF Start
  <2>4. RequestsAreTrue'
    BY <1>2, <2>2, <2>3 DEF Start
  <2> QED
    BY <2>1, <2>4
<1>3. CASE ClaimThrows(w)
  BY <1>3 DEF ClaimThrows
<1> QED
  BY <1>1, <1>2, <1>3 DEF Start

\* The steps of a processor that leave its job active.
Working(w) ==
  \/ SendPayout(w) \/ SendThrows(w) \/ RecordPayout(w) \/ RecordThrows(w)
  \/ MarkFailed(w) \/ MarkThrows(w) \/ NotifyThrows(w)

\* A processor moves its own row on as far as it knows it.
LEMMA WorkingKeepsIInv ==
  ASSUME IInv, NEW w \in Withdrawal, Working(w)
  PROVE  IInv'
<1> USE DEF chainVars, rowVars, ProcGoes, SetStatus
<1> USE DEF IInv, TypeOK, ProcIsCurrent, RowsAreTrue, RequestsAreTrue
<1>1. CASE SendPayout(w)
  <2>1. payout[w].count = 0 /\ payout[w].count + 1 = 1 /\ status[w] = "PROCESSING"
    BY <1>1 DEF SendPayout
  <2>2. payout' = [payout EXCEPT ![w] = [count |-> 1, state |-> "pending"]]
    BY <1>1, <2>1 DEF SendPayout
  <2> QED
    BY <1>1, <2>1, <2>2 DEF SendPayout
<1>2. CASE SendThrows(w)
  BY <1>2 DEF SendThrows
<1>3. CASE RecordPayout(w)
  BY <1>3 DEF RecordPayout
<1>4. CASE RecordThrows(w)
  BY <1>4 DEF RecordThrows
<1>5. CASE MarkFailed(w)
  BY <1>5 DEF MarkFailed
<1>6. CASE MarkThrows(w)
  BY <1>6 DEF MarkThrows
<1>7. CASE NotifyThrows(w)
  BY <1>7 DEF NotifyThrows
<1> QED
  BY <1>1, <1>2, <1>3, <1>4, <1>5, <1>6, <1>7 DEF Working

\* The job of a processor that rethrows has an attempt less, and waits or failed.
LEMMA RetriedJob ==
  ASSUME TypeOK, NEW w \in Withdrawal, job[w].left > 0, RetryJob(w)
  PROVE  /\ job' \in [Withdrawal -> [state: JobState, left: 0..MaxAttempts, stalled: BOOLEAN]]
         /\ \A v \in Withdrawal : v # w => job'[v] = job[v]
         /\ job'[w].state \in {"waiting", "failed"}
         /\ job'[w].state = "waiting" => job'[w].left > 0
<1> DEFINE state == IF job[w].left > 1 THEN "waiting" ELSE "failed"
           left == job[w].left - 1
           retried == [job[w] EXCEPT !.state = state, !.left = left]
<1>1. /\ left \in 0..MaxAttempts /\ state \in {"waiting", "failed"}
      /\ state = "waiting" => left > 0
  BY WorkerAssumption DEF TypeOK
<1>2. job' = [job EXCEPT ![w] = retried]
  BY DEF RetryJob
<1> HIDE DEF state, left
<1>3. /\ retried \in [state: JobState, left: 0..MaxAttempts, stalled: BOOLEAN]
      /\ retried.state = state /\ retried.left = left
  BY <1>1 DEF TypeOK
<1> HIDE DEF retried
<1> QED
  BY <1>1, <1>2, <1>3 DEF TypeOK

\* A processor ends: its job is done, or delayed for another attempt, or fails.
LEMMA EndingKeepsIInv ==
  ASSUME IInv, NEW w \in Withdrawal, NotifyFailed(w) \/ NotifyCompleted(w)
  PROVE  IInv'
<1> USE DEF chainVars, ProcGoes, QueueWebhook
<1>1. job[w].state = "active" /\ job[w].left > 0 /\ job[w].left - 1 \in 0..MaxAttempts
  BY WorkerAssumption
  DEF IInv, TypeOK, ProcIsCurrent, RequestsAreTrue, NotifyFailed, NotifyCompleted
<1>2. TypeOK'
  <2>1. job' \in [Withdrawal -> [state: JobState, left: 0..MaxAttempts, stalled: BOOLEAN]]
    <3>1. CASE NotifyFailed(w)
      BY <1>1, <3>1, RetriedJob DEF IInv, NotifyFailed
    <3>2. CASE NotifyCompleted(w)
      BY <3>2 DEF IInv, TypeOK, NotifyCompleted
    <3> QED
      BY <3>1, <3>2
  <2>2. proc' \in [Withdrawal -> ProcPc]
    BY DEF IInv, TypeOK, NotifyFailed, NotifyCompleted
  <2>3. events' \in [Withdrawal -> SUBSET EventType]
    <3>1. events' = events \/ \E e \in EventType : events' = [events EXCEPT ![w] = @ \cup {e}]
      BY DEF NotifyFailed, NotifyCompleted
    <3>2. events \in [Withdrawal -> SUBSET EventType]
      BY DEF IInv, TypeOK
    <3> QED
      BY <3>1, <3>2
  <2>4. UNCHANGED <<hot, payout, status, request, crashes>>
    BY DEF NotifyFailed, NotifyCompleted
  <2> QED
    BY <2>1, <2>2, <2>3, <2>4 DEF IInv, TypeOK
<1>3. ProcIsCurrent' /\ RowsAreTrue'
  <2>1. \A v \in Withdrawal : v # w => job'[v] = job[v]
    BY <1>1, RetriedJob DEF IInv, TypeOK, NotifyFailed, NotifyCompleted
  <2> QED
    BY <2>1 DEF IInv, TypeOK, ProcIsCurrent, RowsAreTrue, NotifyFailed, NotifyCompleted
<1>4. RequestsAreTrue'
  <2>1. /\ \A v \in Withdrawal : v # w => job'[v] = job[v]
        /\ job'[w].state = "waiting" => job'[w].left > 0
        /\ job'[w].state # "active"
    <3>1. CASE NotifyFailed(w)
      BY <1>1, <3>1, RetriedJob DEF IInv, NotifyFailed
    <3>2. CASE NotifyCompleted(w)
      BY <3>2 DEF IInv, TypeOK, NotifyCompleted
    <3> QED
      BY <3>1, <3>2
  <2>2. request[w] = "queued"
    BY <1>1 DEF IInv, RequestsAreTrue
  <2> QED
    BY <2>1, <2>2 DEF IInv, RequestsAreTrue, NotifyFailed, NotifyCompleted
<1> QED
  BY <1>2, <1>3, <1>4 DEF IInv

\* The chain executes a payout, or does not.
LEMMA SettleKeepsIInv ==
  ASSUME IInv, NEW w \in Withdrawal, Settle(w)
  PROVE  IInv'
<1> USE DEF rowVars
<1>1. /\ payout' \in [Withdrawal -> [count: Nat, state: PayoutState]]
      /\ \A v \in Withdrawal : payout'[v].count = payout[v].count
  <2>1. PICK s \in PayoutState : payout' = [payout EXCEPT ![w].state = s]
    BY DEF Settle
  <2> QED
    BY <2>1 DEF IInv, TypeOK
<1>2. TypeOK'
  <2>1. hot' \in Nat
    BY NetIsInt DEF IInv, TypeOK, Settle
  <2> QED
    BY <1>1, <2>1 DEF IInv, TypeOK, Settle
<1>3. ProcIsCurrent' /\ RowsAreTrue' /\ RequestsAreTrue'
  BY <1>1 DEF IInv, ProcIsCurrent, RowsAreTrue, RequestsAreTrue, Settle
<1> QED
  BY <1>2, <1>3 DEF IInv

\* A crash empties the processors and puts their jobs back.
LEMMA CrashKeepsIInv ==
  ASSUME IInv, Crash
  PROVE  IInv'
<1> USE DEF chainVars, rowVars
<1>0. \A w \in Withdrawal :
        /\ job'[w] \in [state: JobState, left: 0..MaxAttempts, stalled: BOOLEAN]
        /\ job'[w].left = job[w].left
        /\ job[w].state = "none" => job'[w].state = "none"
        /\ job'[w].state = "waiting" => job[w].state \in {"waiting", "active"}
        /\ job'[w].state # "active"
  <2> SUFFICES ASSUME NEW w \in Withdrawal
               PROVE  /\ job'[w] \in [state: JobState, left: 0..MaxAttempts, stalled: BOOLEAN]
                      /\ job'[w].left = job[w].left
                      /\ job[w].state = "none" => job'[w].state = "none"
                      /\ job'[w].state = "waiting" => job[w].state \in {"waiting", "active"}
                      /\ job'[w].state # "active"
    OBVIOUS
  <2>1. job[w] \in [state: JobState, left: 0..MaxAttempts, stalled: BOOLEAN]
    BY DEF IInv, TypeOK
  <2>2. CASE w \notin Active
    BY <2>1, <2>2 DEF Crash, StallJobs, Active
  <2>3. CASE w \in Active /\ job[w].stalled
    BY <2>1, <2>3 DEF Crash, StallJobs, Active
  <2>4. CASE w \in Active /\ ~job[w].stalled
    BY <2>1, <2>4 DEF Crash, StallJobs, Active
  <2> QED
    BY <2>2, <2>3, <2>4
<1>1. TypeOK'
  <2>1. job' \in [Withdrawal -> [state: JobState, left: 0..MaxAttempts, stalled: BOOLEAN]]
    BY <1>0 DEF Crash, StallJobs
  <2>2. crashes' \in 0..MaxCrashes
    BY WorkerAssumption DEF IInv, TypeOK, Crash
  <2> QED
    BY <2>1, <2>2 DEF IInv, TypeOK, Crash
<1>2. ProcIsCurrent' /\ RowsAreTrue'
  BY DEF IInv, TypeOK, ProcIsCurrent, RowsAreTrue, Crash
<1>3. RequestsAreTrue'
  BY <1>0 DEF IInv, TypeOK, RequestsAreTrue, Crash
<1> QED
  BY <1>1, <1>2, <1>3 DEF IInv

\* Every step, and no step, keeps the invariant.
LEMMA NextIInv == IInv /\ [Next]_vars => IInv'
<1> SUFFICES ASSUME IInv, [Next]_vars PROVE IInv'
  OBVIOUS
<1>1. CASE \E w \in Withdrawal : RequestStep(w)
  BY <1>1, RequestKeepsIInv
<1>2. CASE \E w \in Withdrawal : Start(w) \/ ClaimThrows(w)
  BY <1>2, StartKeepsIInv
<1>3. CASE \E w \in Withdrawal : ProcStep(w)
  BY <1>3, WorkingKeepsIInv, EndingKeepsIInv DEF ProcStep, Working
<1>4. CASE \E w \in Withdrawal : Settle(w)
  BY <1>4, SettleKeepsIInv
<1>5. CASE Crash
  BY <1>5, CrashKeepsIInv
<1>6. CASE UNCHANGED vars
  BY <1>6 DEF vars, IInv, TypeOK, ProcIsCurrent, RowsAreTrue, RequestsAreTrue
<1> QED
  BY <1>1, <1>2, <1>3, <1>4, <1>5, <1>6 DEF Next

\* The invariant holds in every reachable state.
LEMMA AlwaysIInv == Spec => []IInv
  BY InitIInv, NextIInv, PTL DEF Spec

\* Every variable keeps its type: attempts and the hot wallet's balance never go
\* below zero (the withdrawal queue, the chain).
THEOREM TypeCorrect == Spec => []TypeOK
<1>1. IInv => TypeOK
  BY DEF IInv
<1> QED
  BY <1>1, AlwaysIInv, PTL

-----------------------------------------------------------------------------
(* Every step is a step of PayoutLedger, or none.                            *)

\* A step that moves no status and broadcasts nothing.
LEMMA LedgerStutter ==
  ASSUME TypeOK, status' = status, \A v \in Withdrawal : payout'[v].count = payout[v].count
  PROVE  UNCHANGED Ledger!vars
  BY DEF Ledger!vars, Outcome

\* A step that moves one status and broadcasts nothing moves one outcome.
LEMMA LedgerMove ==
  ASSUME TypeOK, NEW w \in Withdrawal, NEW s \in WithdrawalStatus, SetStatus(w, s),
         payout' = payout
  PROVE  /\ [v \in Withdrawal |-> Outcome(v)]'
              = [[v \in Withdrawal |-> Outcome(v)] EXCEPT ![w] = Outcome(w)']
         /\ UNCHANGED [v \in Withdrawal |-> payout[v].count]
         /\ status'[w] = s
  BY DEF SetStatus, TypeOK, Outcome

\* The initial states are initial states of the ledger.
LEMMA LedgerInit == Init => Ledger!Init
  BY DEF Init, Ledger!Init, Outcome, NoPayout

\* A new row is an order.
LEMMA LedgerOrder ==
  ASSUME IInv, NEW w \in Withdrawal, CreateRow(w)
  PROVE  Ledger!Next
<1>1. status[w] = "NONE" /\ SetStatus(w, "PENDING") /\ payout' = payout
  BY DEF IInv, RequestsAreTrue, CreateRow, RequestGoes, SetStatus, chainVars
<1>2. Ledger!Order(w)
  BY <1>1, LedgerMove DEF IInv, Ledger!Order, Ledger!Becomes, Outcome
<1> QED
  BY <1>2 DEF Ledger!Next

\* The broadcast of a payout is a payment of an undecided withdrawal.
LEMMA LedgerPay ==
  ASSUME IInv, NEW w \in Withdrawal, SendPayout(w)
  PROVE  Ledger!Next
<1>1. status[w] = "PROCESSING" /\ payout[w].count = 0 /\ status' = status
  BY DEF IInv, ProcIsCurrent, SendPayout, ProcGoes, rowVars
<1>2. [v \in Withdrawal |-> payout[v].count]'
        = [[v \in Withdrawal |-> payout[v].count] EXCEPT ![w] = 1]
  <2>1. payout[w].count + 1 = 1
    BY <1>1
  <2> QED
    BY <2>1 DEF IInv, TypeOK, SendPayout
<1>3. Ledger!Pay(w)
  BY <1>1, <1>2 DEF Ledger!Pay, Outcome
<1> QED
  BY <1>3 DEF Ledger!Next

\* The hash is recorded for a withdrawal that was paid and is undecided.
LEMMA LedgerComplete ==
  ASSUME IInv, NEW w \in Withdrawal, RecordPayout(w)
  PROVE  Ledger!Next
<1>1. /\ status[w] = "PROCESSING" /\ payout[w].count = 1
      /\ SetStatus(w, "COMPLETED") /\ payout' = payout
  BY DEF IInv, ProcIsCurrent, RecordPayout, ProcGoes, chainVars
<1>2. Ledger!Complete(w)
  BY <1>1, LedgerMove DEF IInv, Ledger!Complete, Ledger!Becomes, Outcome
<1> QED
  BY <1>2 DEF Ledger!Next

\* FAILED is written to an undecided withdrawal only.
LEMMA LedgerFail ==
  ASSUME IInv, NEW w \in Withdrawal, MarkFailed(w)
  PROVE  Ledger!Next
<1>1. status[w] = "PROCESSING" /\ SetStatus(w, "FAILED") /\ payout' = payout
  BY DEF IInv, ProcIsCurrent, MarkFailed, ProcGoes, chainVars
<1>2. Ledger!Fail(w)
  BY <1>1, LedgerMove DEF IInv, Ledger!Fail, Ledger!Becomes, Outcome
<1> QED
  BY <1>2 DEF Ledger!Next

\* A claim leaves the outcome open.
LEMMA LedgerClaim ==
  ASSUME IInv, NEW w \in Withdrawal, Start(w)
  PROVE  UNCHANGED Ledger!vars
<1>1. CASE status' = status
  BY <1>1, LedgerStutter DEF IInv, Start, chainVars
<1>2. CASE Claimable(w) /\ SetStatus(w, "PROCESSING")
  <2>1. payout' = payout
    BY DEF Start, chainVars
  <2>2. \A v \in Withdrawal : Outcome(v)' = Outcome(v)
    BY <1>2 DEF IInv, TypeOK, Claimable, SetStatus, Outcome
  <2> QED
    BY <2>1, <2>2 DEF Ledger!vars
<1> QED
  BY <1>1, <1>2 DEF Start

\* What else may happen moves no status and broadcasts nothing.
LEMMA LedgerQuiet ==
  ASSUME IInv, NEW w \in Withdrawal,
         \/ CheckFunds(w) \/ Refuse(w) \/ Enqueue(w) \/ RequestThrows(w) \/ RequestLost(w)
         \/ ClaimThrows(w) \/ SendThrows(w) \/ RecordThrows(w) \/ MarkThrows(w) \/ NotifyFailed(w)
         \/ NotifyCompleted(w) \/ NotifyThrows(w) \/ Settle(w)
  PROVE  UNCHANGED Ledger!vars
<1> USE DEF CheckFunds, Refuse, Enqueue, RequestThrows, RequestLost, ClaimThrows, SendThrows,
        RecordThrows, MarkThrows, NotifyFailed, NotifyCompleted, NotifyThrows, Settle,
        rowVars, chainVars
<1>1. status' = status
  OBVIOUS
<1>2. CASE payout' = payout
  BY <1>1, <1>2, LedgerStutter DEF IInv
<1>3. CASE Settle(w)
  <2>1. \A v \in Withdrawal : payout'[v].count = payout[v].count
    BY <1>3 DEF IInv, TypeOK
  <2> QED
    BY <1>1, <2>1, LedgerStutter DEF IInv
<1> QED
  BY <1>2, <1>3

\* A withdrawal is paid at most once and only while it is undecided, is decided
\* once, and is COMPLETED only if it was paid, whatever throws, crashes or is
\* retried (createWithdrawal, processWithdrawal, withdrawalWorker).
THEOREM WithdrawalsKeepLedger == Spec => KeepsLedger
<1>1. IInv /\ [Next]_vars => [Ledger!Next]_(Ledger!vars)
  <2> SUFFICES ASSUME IInv, [Next]_vars PROVE [Ledger!Next]_(Ledger!vars)
    OBVIOUS
  <2>1. CASE UNCHANGED vars \/ Crash
    BY <2>1, LedgerStutter DEF vars, Crash, rowVars, chainVars, IInv
  <2>2. ASSUME NEW w \in Withdrawal, RequestStep(w)
        PROVE  [Ledger!Next]_(Ledger!vars)
    BY <2>2, LedgerOrder, LedgerQuiet DEF RequestStep
  <2>3. ASSUME NEW w \in Withdrawal, Start(w) \/ ClaimThrows(w) \/ Settle(w)
        PROVE  [Ledger!Next]_(Ledger!vars)
    BY <2>3, LedgerClaim, LedgerQuiet
  <2>4. ASSUME NEW w \in Withdrawal, ProcStep(w)
        PROVE  [Ledger!Next]_(Ledger!vars)
    BY <2>4, LedgerPay, LedgerComplete, LedgerFail, LedgerQuiet DEF ProcStep
  <2> QED
    BY <2>1, <2>2, <2>3, <2>4 DEF Next
<1> QED
  BY <1>1, LedgerInit, AlwaysIInv, PTL DEF Spec, KeepsLedger, Ledger!Spec
-----------------------------------------------------------------------------
(* A pending withdrawal is not done.                                         *)

\* A step that reports nothing new, gives no row back and drops no job.
LEMMA NothingReported ==
  ASSUME DoneIsClaimed,
         \A v \in Withdrawal :
           /\ ReportsDone(v)' => ReportsDone(v)
           /\ status[v] \in Claimed => status'[v] \in Claimed
           /\ request'[v] = "queued" /\ job'[v].state = "none"
                => request[v] = "queued" /\ job[v].state = "none"
  PROVE  DoneIsClaimed'
  BY DEF DoneIsClaimed, Claimed

\* The POST handler's steps: a job is there before the request counts as queued.
LEMMA RequestKeepsDone ==
  ASSUME PendingInv, NEW w \in Withdrawal, RequestStep(w)
  PROVE  DoneIsClaimed'
<1> USE DEF PendingInv, IInv, TypeOK, RequestsAreTrue, RequestGoes, rowVars, ReportsDone, Claimed
<1>1. CASE CheckFunds(w) \/ Refuse(w) \/ RequestThrows(w) \/ RequestLost(w)
  BY <1>1, NothingReported DEF CheckFunds, Refuse, RequestThrows, RequestLost
<1>2. CASE CreateRow(w)
  BY <1>2, NothingReported DEF CreateRow
<1>3. CASE Enqueue(w)
  <2>1. /\ job'[w].state = "waiting" /\ UNCHANGED <<status, events, proc>>
        /\ \A v \in Withdrawal : v # w => job'[v] = job[v] /\ request'[v] = request[v]
    BY <1>3 DEF Enqueue
  <2> QED
    BY <2>1, NothingReported
<1> QED
  BY <1>1, <1>2, <1>3 DEF RequestStep

\* A claim that matches no row of a queued job found the row claimed.
LEMMA StartKeepsDone ==
  ASSUME PendingInv, NEW w \in Withdrawal, Start(w) \/ ClaimThrows(w)
  PROVE  DoneIsClaimed'
<1> USE DEF CanStart, ProcGoes, SetStatus, rowVars, Claimed
<1> USE DEF PendingInv, IInv, TypeOK
<1>1. /\ job[w].state = "waiting" /\ job'[w].state = "active"
      /\ \A v \in Withdrawal : v # w => job'[v] = job[v] /\ proc'[v] = proc[v]
      /\ UNCHANGED <<events, request>>
  BY DEF Start, ClaimThrows
<1>2. CASE Start(w) /\ ~Claimable(w) /\ status' = status /\ proc'[w] = "notify"
  <2>1. status[w] \in Claimed
    BY <1>1, <1>2 DEF Claimable, RequestsAreTrue
  <2> QED
    BY <1>1, <1>2, <2>1 DEF DoneIsClaimed, ReportsDone
<1>3. CASE proc'[w] # "notify" /\ (status' = status \/ SetStatus(w, "PROCESSING"))
  <2>1. \A v \in Withdrawal : ReportsDone(v)' => ReportsDone(v)
    BY <1>1, <1>3 DEF ReportsDone
  <2>2. \A v \in Withdrawal : status[v] \in Claimed => status'[v] \in Claimed
    BY <1>3
  <2> QED
    BY <1>1, <2>1, <2>2, NothingReported
<1> QED
  BY <1>2, <1>3 DEF Start, ClaimThrows

\* A processor reports a payout after it recorded it, and only its own.
LEMMA ProcKeepsDone ==
  ASSUME PendingInv, NEW w \in Withdrawal, ProcStep(w)
  PROVE  DoneIsClaimed'
<1> USE DEF ProcGoes, SetStatus, QueueWebhook, rowVars, chainVars, Claimed
<1> USE DEF PendingInv, IInv, TypeOK
<1>1. CASE SendPayout(w) \/ SendThrows(w) \/ RecordThrows(w) \/ MarkThrows(w) \/ NotifyThrows(w)
  BY <1>1, NothingReported
  DEF SendPayout, SendThrows, RecordThrows, MarkThrows, NotifyThrows, ReportsDone
<1>2. CASE MarkFailed(w)
  BY <1>2, NothingReported DEF MarkFailed, ReportsDone
<1>3. CASE RecordPayout(w)
  BY <1>3 DEF RecordPayout, ReportsDone, DoneIsClaimed
<1>4. CASE NotifyFailed(w)
  <2>1. job[w].left > 0
    BY <1>4 DEF NotifyFailed, ProcIsCurrent, RequestsAreTrue
  <2>2. /\ job'[w].state \in {"waiting", "failed"}
        /\ \A v \in Withdrawal : v # w => job'[v] = job[v]
    BY <1>4, <2>1, RetriedJob DEF NotifyFailed
  <2>3. /\ UNCHANGED <<status, request>> /\ proc' = [proc EXCEPT ![w] = "idle"]
        /\ \A v \in Withdrawal : "WITHDRAWAL_COMPLETED" \in events'[v]
                                   => "WITHDRAWAL_COMPLETED" \in events[v]
    BY <1>4 DEF NotifyFailed
  <2> QED
    BY <2>2, <2>3, NothingReported DEF ReportsDone
<1>5. CASE NotifyCompleted(w)
  <2>1. status[w] \in Claimed
    BY <1>5 DEF NotifyCompleted, DoneIsClaimed, ReportsDone
  <2>2. /\ job'[w].state = "done" /\ UNCHANGED <<status, request>>
        /\ \A v \in Withdrawal : v # w => /\ job'[v] = job[v] /\ proc'[v] = proc[v]
                                          /\ events'[v] = events[v]
    BY <1>5 DEF NotifyCompleted
  <2> QED
    BY <2>1, <2>2 DEF DoneIsClaimed, ReportsDone
<1> QED
  BY <1>1, <1>2, <1>3, <1>4, <1>5 DEF ProcStep

\* A crash puts jobs back or fails them: it ends none and drops none.
LEMMA CrashKeepsDone ==
  ASSUME PendingInv, Crash
  PROVE  DoneIsClaimed'
<1>1. \A v \in Withdrawal :
        /\ job'[v].state = "done" => job[v].state = "done"
        /\ job'[v].state = "none" => job[v].state = "none"
  BY DEF PendingInv, IInv, TypeOK, Crash, StallJobs, Active
<1>2. UNCHANGED <<status, events, request>> /\ \A v \in Withdrawal : proc'[v] = "idle"
  BY DEF Crash, rowVars
<1> QED
  BY <1>1, <1>2, NothingReported DEF PendingInv, ReportsDone

\* No job ends, and nobody is told of a payout, before the withdrawal was claimed.
LEMMA AlwaysPendingInv == Spec => []PendingInv
<1>1. Init => PendingInv
  BY InitIInv DEF Init, PendingInv, DoneIsClaimed, ReportsDone, NoJob
<1>2. PendingInv /\ [Next]_vars => PendingInv'
  <2> SUFFICES ASSUME PendingInv, [Next]_vars PROVE DoneIsClaimed'
    BY NextIInv DEF PendingInv
  <2>1. CASE \E w \in Withdrawal : RequestStep(w)
    BY <2>1, RequestKeepsDone
  <2>2. CASE \E w \in Withdrawal : Start(w) \/ ClaimThrows(w)
    BY <2>2, StartKeepsDone
  <2>3. CASE \E w \in Withdrawal : ProcStep(w)
    BY <2>3, ProcKeepsDone
  <2>4. CASE (\E w \in Withdrawal : Settle(w)) \/ UNCHANGED vars
    BY <2>4, NothingReported DEF PendingInv, Settle, vars, rowVars, ReportsDone
  <2>5. CASE Crash
    BY <2>5, CrashKeepsDone
  <2> QED
    BY <2>1, <2>2, <2>3, <2>4, <2>5 DEF Next
<1> QED
  BY <1>1, <1>2, PTL DEF Spec

\* A withdrawal that nobody has claimed was never reported completed, and no job
\* ended for it without an error, whatever throws, crashes or stalls
\* (routes/withdrawals.ts, processWithdrawal, withdrawalWorker).
THEOREM PendingIsNeverDone == Spec => []PendingIsNotDone
<1>1. PendingInv => PendingIsNotDone
  <2> SUFFICES ASSUME PendingInv, NEW w \in Withdrawal, status[w] = "PENDING"
               PROVE  /\ "WITHDRAWAL_COMPLETED" \notin events[w]
                      /\ \/ job[w].state \in {"waiting", "active", "failed"}
                         \/ job[w].state = "none" /\ request[w] \in {"created", "lost"}
    BY DEF PendingIsNotDone
  <2>1. ~ReportsDone(w)
    BY DEF PendingInv, DoneIsClaimed, Claimed
  <2>2. request[w] \in {"created", "queued", "lost"}
    BY DEF PendingInv, IInv, TypeOK, RequestsAreTrue
  <2> QED
    BY <2>1, <2>2 DEF PendingInv, IInv, TypeOK, DoneIsClaimed, ReportsDone
<1> QED
  BY <1>1, AlwaysPendingInv, PTL
=============================================================================
