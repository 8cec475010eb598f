--------------------------- MODULE PaymentPipeline ---------------------------
(***************************************************************************)
(* The payment pipeline of the worker process (src/src/worker.ts): the     *)
(* block watcher, the sweep worker and the recovery of stuck sweeps run    *)
(* interleaved at every await over one payments table, one job queue and   *)
(* one chain, and all die together when the process does.                  *)
(***************************************************************************)
EXTENDS SweepWorker, BlockWatcher, SweepRecovery

CONSTANT MaxCrashes   \* crashes of the worker process (BOUND)

ASSUME CrashAssumption == MaxCrashes \in Nat

VARIABLE crashes

vars == <<chainVars, storeVars, sweep, watcherVars, recoveryVars, crashes>>

Init ==
  /\ ChainInit /\ StoreInit /\ SweepInit /\ WatcherInit /\ RecoveryInit
  /\ crashes = 0

-----------------------------------------------------------------------------
(* Who runs.  A component leaves the locals of the others alone.            *)

SweepFrame == UNCHANGED <<watcherVars, recoveryVars, crashes>>
RecoveryFrame == UNCHANGED <<sweep, watcherVars, crashes>>
EnvironmentFrame == UNCHANGED <<sweep, watcherVars, recoveryVars, crashes>>

Sweeping == SweepNext /\ SweepFrame

\* main starts the watcher after the startup recovery; then it loops forever.
Watching ==
  /\ booted
  /\ WatcherStep
  /\ UNCHANGED <<chainVars, sweep, recoveryVars, crashes>>

Recovering == (Boot \/ \E r \in Recoverer : RecoveryStep(r)) /\ RecoveryFrame

Blocks(p) == (Land(p) \/ Mature(p) \/ Orphan(p)) /\ UNCHANGED storeVars /\ EnvironmentFrame
Settles(t) == Settle(t) /\ UNCHANGED storeVars /\ EnvironmentFrame
Ages(p) == Age(p) /\ UNCHANGED chainVars /\ EnvironmentFrame

Environment == \/ \E p \in Payment : Blocks(p) \/ Ages(p)
               \/ \E t \in Tx : Settles(t)

\* The worker process dies and is restarted by its supervisor.
Crash ==
  /\ "crash" \in Adversity
  /\ crashes < MaxCrashes
  /\ crashes' = crashes + 1
  /\ SweepCrash /\ WatcherCrash /\ RecoveryCrash /\ StallJobs
  /\ UNCHANGED <<chainVars, rowVars, events>>

Next == Sweeping \/ Watching \/ Recovering \/ Environment \/ Crash

Spec == Init /\ [][Next]_vars

-----------------------------------------------------------------------------
(* Fairness: the event loop serves every pending await, the watcher's loop  *)
(* and the timer go on, the queue is first-in first-out so a job that can   *)
(* start again and again is started, and the chain settles what was         *)
(* broadcast and buries what it included.  Faults, crashes, new transfers   *)
(* and the finding of a transfer by the scan are never forced.              *)

Fairness ==
  /\ \A j \in Job : /\ SF_vars(StartSweep(j) /\ SweepFrame)
                    /\ WF_vars(SweepStep(j) /\ SweepFrame)
  /\ WF_vars(Watching)
  /\ WF_vars(Boot /\ RecoveryFrame)
  /\ \A r \in Recoverer : WF_vars(RecoveryStep(r) /\ RecoveryFrame)
  /\ \A t \in Tx : WF_vars(Settles(t))
  /\ \A p \in Payment : /\ WF_vars(Mature(p) /\ Blocks(p))
                        /\ WF_vars(Ages(p))

FairSpec == Spec /\ Fairness

-----------------------------------------------------------------------------
(* Properties. *)

TypeOK ==
  /\ ChainTypeOK /\ StoreTypeOK /\ SweepTypeOK /\ WatcherTypeOK /\ RecoveryTypeOK
  /\ crashes \in 0..MaxCrashes

\* A payment whose deposit was accepted (README.md:172).
PastConfirmation(p) == status[p] \in {"CONFIRMED", "SWEEPING", "COMPLETED"}

\* Nothing is swept for a deposit the chain has not confirmed, in whatever order
\* the watcher, the queue, the recovery and the crashes come (checkConfirmations,
\* requeeLostSweeps, recoverStuckSweeps, the claim in sweepPayment).
SweptOnlyIfMature == \A p \in Broadcasted : deposit[p] = "mature"

\* A COMPLETED row names a transaction that was broadcast to sweep this very
\* payment, and one that succeeded where sendTransaction waits for it
\* (sweepPayment, onSweepCompleted, recoverStuckSweeps).
CompletionBacked ==
  \A p \in Payment : status[p] = "COMPLETED" =>
    /\ sweepTx[p] # NoTx
    /\ txs[sweepTx[p]].by = p
    /\ WaitsForConfirmation => txs[sweepTx[p]].state = "success"

\* Whoever has a CONFIRMED payment to move on: a job, the watcher between the
\* status and the job, the recovery between the two, or the next scan.
Owned(p) ==
  \/ HasJob(p)
  \/ watcher.pc \in {"confirmed", "announced"} /\ watcher.cur = p
  \/ \E r \in Recoverer : rec[r].pc = "add" /\ rec[r].cur = p
  \/ sweepTx[p] = NoTx /\ p \notin requeued

\* Whatever crashes or throws between the status and the job, a CONFIRMED payment
\* has an owner or its job is in the failed set.  The one thing that orphans it is
\* an add that Redis refused and none has followed, and a restart heals that: the
\* refusal and requeuedOnStartup die together (checkConfirmations,
\* requeeLostSweeps, recoverStuckSweeps).
ConfirmedIsOwned ==
  \A p \in Payment :
    status[p] = "CONFIRMED" => Owned(p) \/ p \in failedJobs \/ p \in refused

\* A job of p that will claim the row, or has claimed it and not finished the sweep.
WorkedOn(p) ==
  \E j \in Job : /\ queue[j].pay = p
                 /\ \/ queue[j].state = "waiting"
                    \/ queue[j].state = "active" /\ sweep[j].pc \notin {"idle", "notify"}

\* A claim outlives the process that made it: a SWEEPING payment without a hash has
\* a job that works on it or will take the claim over, whoever else was given the
\* row meanwhile, or its job is in the failed set (the claim in sweepPayment,
\* recoverStuckSweeps, BullMQ's stalled jobs).
ClaimedIsWorkedOn ==
  \A p \in Payment : status[p] = "SWEEPING" /\ sweepTx[p] = NoTx =>
    WorkedOn(p) \/ p \in failedJobs

\* PAYMENT_COMPLETED is queued, or a job is there that cannot end without queueing
\* it, or its job is in the failed set.
Announced(p) == "PAYMENT_COMPLETED" \in events[p] \/ HasJob(p) \/ p \in failedJobs

\* No payment is COMPLETED in silence: though only the worker's processor queues the
\* webhook (sweepWorker.ts:24) and the recovery completes rows without one
\* (worker.ts:62), a job that must still announce it is always left.
CompletedIsAnnounced == \A p \in Payment : status[p] = "COMPLETED" => Announced(p)

\* The pipeline seen from outside.
Verdict(p) ==
  CASE status[p] \in {"NONE", "DETECTED"} -> "open"
    [] status[p] = "FAILED" -> "rejected"
    [] OTHER -> "accepted"

Promise == INSTANCE PaymentVerdict WITH
  verdict <- [p \in Payment |-> Verdict(p)],
  mature <- {p \in Payment : deposit[p] = "mature"},
  swept <- Broadcasted,
  told <- events

\* The pipeline keeps the promise of PaymentVerdict: verdicts are final, nothing
\* is accepted unconfirmed or swept unaccepted, and every webhook queued
\* (expireStuckDetected, checkConfirmations, sweepWorker) is true when queued.
KeepsPromise == Promise!Spec

\* Every DETECTED deposit is decided in the end: it is confirmed, or expires,
\* a reorganised one too (checkConfirmations, expireStuckDetected).
DetectedIsDecided ==
  \A p \in Payment : status[p] = "DETECTED" ~> status[p] # "DETECTED"

\* The funds of an accepted deposit leave the deposit address in the end, when
\* the worker crashes in the middle of a sweep too (the claim's retry clause in
\* sweepPayment, requeeLostSweeps, recoverStuckSweeps).
AcceptedIsSwept ==
  \A p \in Payment : status[p] = "CONFIRMED" ~> bal[AccountOf[p]] = 0

\* A completed payment is told to the operator in the end, though the worker dies
\* once between the status and the webhook (docs/API.md:131, sweepWorker.ts:24).
CompletedIsTold ==
  \A p \in Payment : status[p] = "COMPLETED" ~> "PAYMENT_COMPLETED" \in events[p]

-----------------------------------------------------------------------------
(* The inductive invariant: who may hold what.  All of it says that a        *)
(* snapshot, a job or a transaction in flight is about a payment that has    *)
(* already been decided the way its holder believes.                         *)

\* Only a mature deposit is accepted.
AcceptedIsMature == \A p \in Payment : PastConfirmation(p) => deposit[p] = "mature"

\* Every job is about an accepted payment; only a job of the queue is processed.
JobsAreAccepted ==
  /\ \A j \in Job : Live(j) => Pay(j) \in Payment /\ PastConfirmation(Pay(j))
  /\ \A j \in Job : sweep[j].pc # "idle" => queue[j].state = "active"

\* Every hash in use belongs to an accepted payment.
TxsAreAccepted ==
  \A t \in Tx :
    /\ txs[t].by # NoPayment => PastConfirmation(txs[t].by)
    /\ txs[t].state # "unused" <=> txs[t].by # NoPayment

\* t was broadcast for p, and had succeeded before anybody could know of it.
Backs(t, p) ==
  /\ t \in Tx
  /\ txs[t].by = p
  /\ WaitsForConfirmation => txs[t].state = "success"

\* A processor past its broadcast holds the hash of its own payment.
SweepsAreBacked ==
  \A j \in Job :
    /\ sweep[j].pc = "sent" => sweep[j].tx \in Tx /\ txs[sweep[j].tx].by = Pay(j)
    /\ sweep[j].pc = "recorded" => Backs(sweep[j].tx, Pay(j))
    /\ sweep[j].pc = "notify" => Pay(j) \in Broadcasted

\* A hash in a row is one of the row's own payment, and COMPLETED rows have one.
RowsAreBacked ==
  \A p \in Payment :
    /\ sweepTx[p] # NoTx => Backs(sweepTx[p], p)
    /\ status[p] = "COMPLETED" => sweepTx[p] # NoTx

\* The watcher's snapshots cannot go stale: it alone moves a row into and out of
\* DETECTED and FAILED, and accepted rows stay accepted.
WatcherIsCurrent ==
  /\ watcher.pc \in {"expire", "check", "confirmed", "announced"} =>
       \A p \in watcher.todo : status[p] = "DETECTED"
  /\ watcher.pc = "failing" => \A p \in watcher.todo : status[p] = "FAILED"
  /\ watcher.pc = "requeue" => \A p \in watcher.todo : PastConfirmation(p)
  /\ watcher.pc \in {"confirmed", "announced"} =>
       watcher.cur \in Payment /\ PastConfirmation(watcher.cur)
  /\ watcher.pc = "detected" => watcher.cur \in Payment

\* The recovery's snapshot can go stale, but only among accepted payments.
RecoveryIsAccepted ==
  \A r \in Recoverer :
    /\ \A p \in rec[r].todo : PastConfirmation(p)
    /\ \A p \in Payment : rec[r].seen[p] # NoTx => Backs(rec[r].seen[p], p)
    /\ rec[r].pc \in {"complete", "reset", "add"} =>
         rec[r].cur \in Payment /\ PastConfirmation(rec[r].cur)
    /\ rec[r].pc = "complete" => rec[r].seen[rec[r].cur] # NoTx

IInv ==
  /\ TypeOK /\ AcceptedIsMature /\ JobsAreAccepted /\ TxsAreAccepted
  /\ SweepsAreBacked /\ RowsAreBacked /\ WatcherIsCurrent /\ RecoveryIsAccepted

-----------------------------------------------------------------------------
(* The inductive invariant of ConfirmedIsOwned, ClaimedIsWorkedOn and         *)
(* CompletedIsAnnounced: an owner that may go away leaves another behind.     *)

InRecovery(p) == \E r \in Recoverer : rec[r].pc = "add" /\ rec[r].cur = p

Runs(p) == \E j \in Job : queue[j].state = "active" /\ queue[j].pay = p

\* No job and no recovery has the row in hand: nobody will write it.
Untouched(p) ==
  /\ ~Runs(p)
  /\ \A r \in Recoverer :
       /\ p \notin rec[r].todo
       /\ rec[r].pc \in {"complete", "reset", "add"} => rec[r].cur # p

\* A row without a hash is requeued by the next scan unless this process has done so;
\* a row that was reset after it was swept has its webhook told or coming, since
\* another recovery may complete it again without a job.
ConfirmedIsSafe(p) ==
  \/ WorkedOn(p) \/ p \in failedJobs
  \/ /\ sweepTx[p] = NoTx
     /\ \/ Untouched(p) /\ (p \notin requeued \/ p \in refused)
        \/ Announced(p) /\ (InRecovery(p) \/ p \in refused)

\* The job of a row with a hash may have left for its webhook without the claim.
SweepingIsSafe(p) ==
  \/ WorkedOn(p) \/ p \in failedJobs
  \/ sweepTx[p] # NoTx /\ Announced(p)

RowIsSafe(p) ==
  /\ status[p] = "CONFIRMED" => ConfirmedIsSafe(p)
  /\ status[p] = "SWEEPING" => SweepingIsSafe(p)
  /\ status[p] = "COMPLETED" => Announced(p)

OwnedInv ==
  /\ \A p \in Payment : RowIsSafe(p)
  /\ \A p \in requeued : PastConfirmation(p)

-----------------------------------------------------------------------------
(* What the documents say, and the code does not keep. *)

\* README.md:172, docs/API.md:42-43: a confirmed payment is marked COMPLETED in
\* the end: confirmation, claim, sweep, onSweepCompleted.
ConfirmedIsCompleted ==
  \A p \in Payment : status[p] = "CONFIRMED" ~> status[p] = "COMPLETED"
=============================================================================
