----------------------------- MODULE Withdrawals -----------------------------
(***************************************************************************)
(* Withdrawals: the POST /withdrawals handler of the API processes         *)
(* (src/src/api/routes/withdrawals.ts), WithdrawalService and the BullMQ   *)
(* processor of src/src/workers/withdrawalWorker.ts, interleaved at every  *)
(* await over the withdrawals table, the withdrawal queue and the hot      *)
(* wallet of one network and token.                                        *)
(*                                                                         *)
(* Every withdrawal is one request, and its handler adds one job, so       *)
(* request, row, job and processor are all indexed by the withdrawal.      *)
(* Amounts are in the smallest unit (wei, sun); a request names its amount *)
(* in whole tokens, of Unit smallest units each.                           *)
(*                                                                         *)
(*   request  new, checked (the balance sufficed), created (the row is     *)
(*            there), queued, refused (no row was created), or lost (the   *)
(*            API process died, or Redis refused the job)                  *)
(*   proc     claimed   the row is PROCESSING                              *)
(*            sent      the network accepted the payout, it is awaited     *)
(*            marking   processWithdrawal's catch: FAILED is next          *)
(*            failing   the processor's catch: its webhook is next         *)
(*            notify    processWithdrawal returned: its webhook is next    *)
(***************************************************************************)
EXTENDS Integers, FiniteSets

CONSTANTS
  Withdrawal,
  Amount,               \* what each request asks for, in smallest units
  Unit,                 \* smallest units in a token (10^decimals)
  FeePercent,           \* settings.feePercent, in hundredths of a percent
  Funds,                \* the hot wallet's balance at first
  MaxAttempts,          \* attempts of a job; 3 in the handler
  Concurrency,          \* jobs processed at a time; createWorker(.., 3)
  WaitsForConfirmation, \* as in SweepWorker
  Adversity,            \* the faults a configuration admits
  MaxCrashes            \* crashes of the worker process (BOUND)

Faults == {"throw", "crash", "apicrash", "revert"}

ASSUME AmountAssumption ==
  /\ Amount \in [Withdrawal -> Nat]
  /\ Unit \in Nat \ {0}
  /\ FeePercent \in Nat
  /\ Funds \in Nat
ASSUME WorkerAssumption ==
  /\ MaxAttempts \in Nat \ {0}
  /\ Concurrency \in Nat \ {0}
  /\ WaitsForConfirmation \in BOOLEAN
  /\ Adversity \subseteq Faults
  /\ MaxCrashes \in Nat

VARIABLES
  hot,        \* balance of the hot wallet
  payout,     \* transactions broadcast for each withdrawal, and the last one's fate
  status,     \* withdrawals.status, "NONE" before the row exists
  events,     \* event types queued for each withdrawal
  job,        \* the withdrawal queue
  request,    \* the POST handlers
  proc,       \* the processors
  crashes

rowVars == <<status, events>>
chainVars == <<hot, payout>>
vars == <<hot, payout, status, events, job, request, proc, crashes>>

WithdrawalStatus == {"NONE", "PENDING", "PROCESSING", "COMPLETED", "FAILED"}
EventType == {"WITHDRAWAL_COMPLETED", "WITHDRAWAL_FAILED"}
RequestPc == {"new", "checked", "created", "queued", "refused", "lost"}
ProcPc == {"idle", "claimed", "sent", "marking", "failing", "notify"}
JobState == {"none", "waiting", "active", "done", "failed"}
PayoutState == {"none", "pending", "success", "failed"}

NoJob == [state |-> "none", left |-> 0, stalled |-> FALSE]
NoPayout == [count |-> 0, state |-> "none"]

TypeOK ==
  /\ hot \in Nat
  /\ payout \in [Withdrawal -> [count: Nat, state: PayoutState]]
  /\ status \in [Withdrawal -> WithdrawalStatus]
  /\ events \in [Withdrawal -> SUBSET EventType]
  /\ job \in [Withdrawal -> [state: JobState, left: 0..MaxAttempts, stalled: BOOLEAN]]
  /\ request \in [Withdrawal -> RequestPc]
  /\ proc \in [Withdrawal -> ProcPc]
  /\ crashes \in 0..MaxCrashes

Init ==
  /\ hot = Funds
  /\ payout = [w \in Withdrawal |-> NoPayout]
  /\ status = [w \in Withdrawal |-> "NONE"]
  /\ events = [w \in Withdrawal |-> {}]
  /\ job = [w \in Withdrawal |-> NoJob]
  /\ request = [w \in Withdrawal |-> "new"]
  /\ proc = [w \in Withdrawal |-> "idle"]
  /\ crashes = 0

-----------------------------------------------------------------------------
(* Amounts. *)

\* BigInt(req.amount): the number of tokens; it throws unless it is whole.
IsWhole(w) == Amount[w] % Unit = 0
Requested(w) == Amount[w] \div Unit

\* The fee is computed on the number of tokens, in integers.
Fee(w) == (Requested(w) * FeePercent) \div 10000

\* parseUnits of the amount and of the fee.
Net(w) == Amount[w] - Fee(w) * Unit

-----------------------------------------------------------------------------
(* The POST handler. *)

RequestGoes(w, from, to) ==
  /\ request[w] = from
  /\ request' = [request EXCEPT ![w] = to]

\* The master wallet's balance, in smallest units, against the number of tokens.
EnoughFunds(w) == IsWhole(w) /\ hot >= Requested(w)

CheckFunds(w) ==
  /\ EnoughFunds(w)
  /\ RequestGoes(w, "new", "checked")
  /\ UNCHANGED <<chainVars, rowVars, job, proc, crashes>>

\* The balance does not suffice, the amount is not whole, or a call throws: 400.
Refuse(w) ==
  /\ ~EnoughFunds(w) \/ "throw" \in Adversity
  /\ RequestGoes(w, "new", "refused")
  /\ UNCHANGED <<chainVars, rowVars, job, proc, crashes>>

\* The row is created after another await; nothing was reserved for it.
CreateRow(w) ==
  /\ RequestGoes(w, "checked", "created")
  /\ status' = [status EXCEPT ![w] = "PENDING"]
  /\ UNCHANGED <<chainVars, events, job, proc, crashes>>

Enqueue(w) ==
  /\ RequestGoes(w, "created", "queued")
  /\ job' = [job EXCEPT ![w] = [state |-> "waiting", left |-> MaxAttempts, stalled |-> FALSE]]
  /\ UNCHANGED <<chainVars, rowVars, proc, crashes>>

\* The insert or the add throws, and the client is told 400; a row that is there by
\* then stays PENDING without a job.
RequestThrows(w) ==
  /\ "throw" \in Adversity
  /\ \/ RequestGoes(w, "checked", "refused")
     \/ RequestGoes(w, "created", "lost")
  /\ UNCHANGED <<chainVars, rowVars, job, proc, crashes>>

\* The API process dies: the row, if there is one, stays behind without a job.
RequestLost(w) ==
  /\ "apicrash" \in Adversity
  /\ \/ RequestGoes(w, "checked", "lost")
     \/ RequestGoes(w, "created", "lost")
  /\ UNCHANGED <<chainVars, rowVars, job, proc, crashes>>

RequestStep(w) ==
  \/ CheckFunds(w) \/ Refuse(w) \/ CreateRow(w) \/ Enqueue(w)
  \/ RequestThrows(w) \/ RequestLost(w)

-----------------------------------------------------------------------------
(* The processor. *)

Active == {w \in Withdrawal : job[w].state = "active"}
SetStatus(w, s) == status' = [status EXCEPT ![w] = s]
QueueWebhook(w, e) == events' = [events EXCEPT ![w] = @ \cup {e}]
ProcGoes(w, from, to) ==
  /\ proc[w] = from
  /\ proc' = [proc EXCEPT ![w] = to]

CanStart(w) ==
  /\ job[w].state = "waiting"
  /\ Cardinality(Active) < Concurrency

\* Mutant: a row left PROCESSING by an earlier attempt is claimed again.
ClaimableAgain(w) == status[w] \in {"PENDING", "PROCESSING"}

Claimable(w) == status[w] = "PENDING"

\* Mutant: a job that lost the claim ends without a webhook.
StartQuietly(w) ==
  /\ CanStart(w)
  /\ \/ /\ Claimable(w)
        /\ SetStatus(w, "PROCESSING")
        /\ ProcGoes(w, "idle", "claimed")
        /\ job' = [job EXCEPT ![w].state = "active"]
     \/ /\ ~Claimable(w)
        /\ job' = [job EXCEPT ![w].state = "done"]
        /\ UNCHANGED <<status, proc>>
  /\ UNCHANGED <<chainVars, events, request, crashes>>

\* The claim; when it matches no row processWithdrawal returns, and the processor
\* goes on to its webhook as it does after a payout.
Start(w) ==
  /\ CanStart(w)
  /\ job' = [job EXCEPT ![w].state = "active"]
  /\ \/ Claimable(w) /\ SetStatus(w, "PROCESSING") /\ ProcGoes(w, "idle", "claimed")
     \/ ~Claimable(w) /\ ProcGoes(w, "idle", "notify") /\ UNCHANGED status
  /\ UNCHANGED <<chainVars, events, request, crashes>>

\* Mutant: a claim that threw is taken for one that matched no row.
ClaimThrowsQuietly(w) ==
  /\ "throw" \in Adversity
  /\ CanStart(w)
  /\ job' = [job EXCEPT ![w].state = "active"]
  /\ ProcGoes(w, "idle", "notify")
  /\ UNCHANGED <<chainVars, rowVars, request, crashes>>

\* The claim is outside processWithdrawal's try: the row is not marked FAILED.
ClaimThrows(w) ==
  /\ "throw" \in Adversity
  /\ CanStart(w)
  /\ job' = [job EXCEPT ![w].state = "active"]
  /\ ProcGoes(w, "idle", "failing")
  /\ UNCHANGED <<chainVars, rowVars, request, crashes>>

\* sendTransaction: the network accepts the payout.
Payable(w) == Net(w) > 0 /\ hot >= Net(w)

SendPayout(w) ==
  /\ Payable(w)
  /\ ProcGoes(w, "claimed", "sent")
  /\ payout' = [payout EXCEPT ![w] = [count |-> @.count + 1, state |-> "pending"]]
  /\ UNCHANGED <<hot, rowVars, job, request, crashes>>

\* Nothing is left after the fee, the node refuses the payout, or a call throws.
SendThrows(w) ==
  /\ ~Payable(w) \/ "throw" \in Adversity
  /\ ProcGoes(w, "claimed", "marking")
  /\ UNCHANGED <<chainVars, rowVars, job, request, crashes>>

\* sendTransaction returned the hash: the row is COMPLETED.
RecordPayout(w) ==
  /\ WaitsForConfirmation => payout[w].state = "success"
  /\ ProcGoes(w, "sent", "notify")
  /\ SetStatus(w, "COMPLETED")
  /\ UNCHANGED <<chainVars, events, job, request, crashes>>

\* After the broadcast: the wait for the confirmation fails or times out, or the
\* update of the row throws.
RecordThrows(w) ==
  /\ \/ "throw" \in Adversity
     \/ WaitsForConfirmation /\ payout[w].state = "failed"
  /\ ProcGoes(w, "sent", "marking")
  /\ UNCHANGED <<chainVars, rowVars, job, request, crashes>>

MarkFailed(w) ==
  /\ ProcGoes(w, "marking", "failing")
  /\ SetStatus(w, "FAILED")
  /\ UNCHANGED <<chainVars, events, job, request, crashes>>

MarkThrows(w) ==
  /\ "throw" \in Adversity
  /\ ProcGoes(w, "marking", "failing")
  /\ UNCHANGED <<chainVars, rowVars, job, request, crashes>>

\* Mutant: a job is retried without counting its attempts out.
RetryUncounted(w) ==
  job' = [job EXCEPT ![w] = [@ EXCEPT !.state = "waiting", !.left = job[w].left - 1]]

\* The processor rethrows: the job is delayed for another attempt, or fails.
RetryJob(w) ==
  job' = [job EXCEPT ![w] = [@ EXCEPT !.state = IF job[w].left > 1 THEN "waiting" ELSE "failed",
                                      !.left = job[w].left - 1]]

NotifyFailed(w) ==
  /\ ProcGoes(w, "failing", "idle")
  /\ \/ QueueWebhook(w, "WITHDRAWAL_FAILED")
     \/ "throw" \in Adversity /\ UNCHANGED events
  /\ RetryJob(w)
  /\ UNCHANGED <<chainVars, status, request, crashes>>

\* The webhook is queued whatever the row says, and the job is done.
NotifyCompleted(w) ==
  /\ ProcGoes(w, "notify", "idle")
  /\ QueueWebhook(w, "WITHDRAWAL_COMPLETED")
  /\ job' = [job EXCEPT ![w].state = "done"]
  /\ UNCHANGED <<chainVars, status, request, crashes>>

\* Queueing it is inside the processor's try.
NotifyThrows(w) ==
  /\ "throw" \in Adversity
  /\ ProcGoes(w, "notify", "failing")
  /\ UNCHANGED <<chainVars, rowVars, job, request, crashes>>

ProcStep(w) ==
  \/ SendPayout(w) \/ SendThrows(w) \/ RecordPayout(w) \/ RecordThrows(w)
  \/ MarkFailed(w) \/ MarkThrows(w) \/ NotifyFailed(w) \/ NotifyCompleted(w)
  \/ NotifyThrows(w)

-----------------------------------------------------------------------------
(* The chain, and the worker process. *)

\* A payout is executed if the hot wallet still holds its amount.
Settle(w) ==
  /\ payout[w].state = "pending"
  /\ \/ /\ hot >= Net(w)
        /\ hot' = hot - Net(w)
        /\ payout' = [payout EXCEPT ![w].state = "success"]
     \/ /\ (hot < Net(w) \/ "revert" \in Adversity)
        /\ payout' = [payout EXCEPT ![w].state = "failed"]
        /\ UNCHANGED hot
  /\ UNCHANGED <<rowVars, job, request, proc, crashes>>

\* BullMQ puts a stalled job back once, and fails one that stalls again.
StallJobs ==
  job' = [w \in Withdrawal |->
    IF w \notin Active THEN job[w]
    ELSE IF job[w].stalled THEN [job[w] EXCEPT !.state = "failed"]
    ELSE [job[w] EXCEPT !.state = "waiting", !.stalled = TRUE]]

Crash ==
  /\ "crash" \in Adversity
  /\ crashes < MaxCrashes
  /\ crashes' = crashes + 1
  /\ proc' = [w \in Withdrawal |-> "idle"]
  /\ StallJobs
  /\ UNCHANGED <<chainVars, rowVars, request>>

-----------------------------------------------------------------------------
Next ==
  \/ \E w \in Withdrawal :
       RequestStep(w) \/ Start(w) \/ ClaimThrows(w) \/ ProcStep(w) \/ Settle(w)
  \/ Crash

Spec == Init /\ [][Next]_vars

\* The event loops serve what is pending, the queue is first-in first-out, the
\* chain settles what was broadcast.  Faults and requests are never forced.
Fairness ==
  \A w \in Withdrawal :
    /\ SF_vars(Start(w))
    /\ WF_vars(ProcStep(w))
    /\ WF_vars(Settle(w))

FairSpec == Spec /\ Fairness

-----------------------------------------------------------------------------
(* Properties. *)

Outcome(w) ==
  CASE status[w] = "NONE" -> "none"
    [] status[w] = "COMPLETED" -> "completed"
    [] status[w] = "FAILED" -> "failed"
    [] OTHER -> "open"

Ledger == INSTANCE PayoutLedger WITH
  outcome <- [w \in Withdrawal |-> Outcome(w)],
  payments <- [w \in Withdrawal |-> payout[w].count]

\* Whatever throws, crashes or is retried, a withdrawal is paid at most once and
\* only while it is undecided, is decided once, and is COMPLETED only if it was
\* paid (the claim "prevents double-broadcast on retry", withdrawalService.ts:79).
KeepsLedger == Ledger!Spec

\* A withdrawal that was queued is told to the operator in the end, or its job is
\* in the failed set, whatever throws, reverts or crashes (withdrawalWorker.ts).
QueuedIsTold ==
  \A w \in Withdrawal :
    job[w].state = "waiting" ~> events[w] # {} \/ job[w].state = "failed"

\* A withdrawal that nobody has claimed was never reported completed, and no job
\* ended for it without an error: it waits for an attempt, or its job is in the
\* failed set, unless the handler has not queued it yet, or died or was refused first
\* (routes/withdrawals.ts:35, withdrawalWorker.ts).
PendingIsNotDone ==
  \A w \in Withdrawal : status[w] = "PENDING" =>
    /\ "WITHDRAWAL_COMPLETED" \notin events[w]
    /\ \/ job[w].state \in {"waiting", "active", "failed"}
       \/ job[w].state = "none" /\ request[w] \in {"created", "lost"}

-----------------------------------------------------------------------------
(* The inductive invariant: what a processor believes of its row is true,    *)
(* since a row is claimed once and only its processor moves it.              *)

ProcIsCurrent ==
  \A w \in Withdrawal :
    /\ proc[w] # "idle" => job[w].state = "active"
    /\ proc[w] \in {"claimed", "sent", "marking"} => status[w] = "PROCESSING"
    /\ proc[w] = "claimed" => payout[w].count = 0
    /\ proc[w] = "sent" => payout[w].count = 1

RowsAreTrue ==
  \A w \in Withdrawal :
    /\ payout[w].count <= 1
    /\ status[w] \in {"NONE", "PENDING"} => payout[w].count = 0
    /\ status[w] = "COMPLETED" => payout[w].count = 1

RequestsAreTrue ==
  \A w \in Withdrawal :
    /\ request[w] \in {"new", "checked", "refused"} => status[w] = "NONE"
    /\ request[w] \in {"created", "queued"} => status[w] # "NONE"
    /\ request[w] # "queued" => job[w].state = "none"
    /\ job[w].state \in {"waiting", "active"} => job[w].left > 0

IInv == TypeOK /\ ProcIsCurrent /\ RowsAreTrue /\ RequestsAreTrue

\* For PendingIsNotDone: who reports a withdrawal completed, or ends its job, found
\* it claimed, and no row is given back.
Claimed == {"PROCESSING", "COMPLETED", "FAILED"}

ReportsDone(w) ==
  proc[w] = "notify" \/ job[w].state = "done" \/ "WITHDRAWAL_COMPLETED" \in events[w]

DoneIsClaimed ==
  \A w \in Withdrawal :
    /\ ReportsDone(w) => status[w] \in Claimed
    /\ request[w] = "queued" => job[w].state # "none"

PendingInv == IInv /\ DoneIsClaimed

-----------------------------------------------------------------------------
(* What the documents say, and the code does not keep. *)

\* docs/API.md:159-160: a queued withdrawal is executed, or fails.
QueuedIsDecided ==
  \A w \in Withdrawal : job[w].state = "waiting" ~> status[w] \in {"COMPLETED", "FAILED"}

\* docs/API.md:260: withdrawal.completed means the transfer was made.
CompletedEventIsTrue ==
  [][\A w \in Withdrawal : NotifyCompleted(w) => status[w] = "COMPLETED"]_vars

\* docs/API.md:261: withdrawal.failed means that the transfer failed.
FailedEventIsTrue ==
  [][\A w \in Withdrawal : NotifyFailed(w) => payout[w].state # "success"]_vars
=============================================================================
