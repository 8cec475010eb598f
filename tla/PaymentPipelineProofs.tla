----------------------- MODULE PaymentPipelineProofs -----------------------
(* Theorems about PaymentPipeline, for every number of payments, accounts,   *)
(* jobs, hashes, recoveries and crashes, and every set of faults.            *)
EXTENDS PaymentPipeline, TLAPS

USE DEF PaymentStatus, EventType, JobState, DepositState, TxState, SweepPc, WatcherPc,
        RecoveryPc

\* Every variable starts with its type.
LEMMA InitTypeOK == Init => TypeOK
<1> SUFFICES ASSUME Init PROVE TypeOK
  OBVIOUS
<1>1. ChainTypeOK
  BY DEF Init, ChainInit, ChainTypeOK
<1>2. StoreTypeOK
  BY AttemptsAssumption DEF Init, StoreInit, StoreTypeOK, FreeSlot
<1>3. SweepTypeOK
  BY DEF Init, SweepInit, SweepTypeOK, IdleSweep
<1>4. WatcherTypeOK
  BY DEF Init, WatcherInit, WatcherTypeOK, IdleWatcher
<1>5. RecoveryTypeOK
  BY DEF Init, RecoveryInit, RecoveryTypeOK, IdleRecovery, NothingSeen
<1>6. crashes \in 0..MaxCrashes
  BY CrashAssumption DEF Init
<1> QED
  BY <1>1, <1>2, <1>3, <1>4, <1>5, <1>6 DEF TypeOK

-----------------------------------------------------------------------------
(* The operations of the queue keep its type.                                *)

QueueTypeOK ==
  /\ queue \in [Job -> [state: JobState, pay: Payment \cup {NoPayment},
                        left: 0..MaxAttempts, stalled: BOOLEAN]]
  /\ failedJobs \subseteq Payment
  /\ refused \subseteq Payment

\* The processor threw: the job waits again with an attempt less, or is in the failed
\* set; no other job changes.
LEMMA FailedJob ==
  ASSUME QueueTypeOK, NEW j \in Job, FailJob(j)
  PROVE  /\ queue[j].pay \in Payment => QueueTypeOK'
         /\ \A k \in Job \ {j} : queue'[k] = queue[k]
         /\ \/ /\ queue'[j].state = "waiting" /\ queue'[j].pay = queue[j].pay
               /\ failedJobs' = failedJobs
            \/ queue'[j].state = "free" /\ failedJobs' = failedJobs \cup {queue[j].pay}
<1>1. CASE /\ queue[j].left > 1
           /\ queue' = [queue EXCEPT ![j] = [@ EXCEPT !.state = "waiting",
                                                     !.left = queue[j].left - 1]]
           /\ failedJobs' = failedJobs /\ refused' = refused
  <2> DEFINE slot == [queue[j] EXCEPT !.state = "waiting", !.left = queue[j].left - 1]
  <2>1. queue[j].left - 1 \in 0..MaxAttempts
    BY <1>1, AttemptsAssumption DEF QueueTypeOK
  <2>2. /\ slot \in [state: JobState, pay: Payment \cup {NoPayment},
                     left: 0..MaxAttempts, stalled: BOOLEAN]
        /\ slot.state = "waiting" /\ slot.pay = queue[j].pay
    BY <2>1 DEF QueueTypeOK, JobState
  <2>3. queue' = [queue EXCEPT ![j] = slot]
    BY <1>1
  <2> HIDE DEF slot
  <2> QED
    BY <1>1, <2>2, <2>3 DEF QueueTypeOK
<1>2. CASE /\ queue' = [queue EXCEPT ![j] = FreeSlot] /\ failedJobs' = failedJobs \cup {queue[j].pay}
           /\ refused' = refused
  BY <1>2, AttemptsAssumption DEF QueueTypeOK, FreeSlot
<1> QED
  BY <1>1, <1>2 DEF FailJob, QueueTypeOK

\* A failed job goes back to the queue or leaves it with a well-typed slot.
LEMMA FailJobType ==
  ASSUME QueueTypeOK, NEW j \in Job, FailJob(j), queue[j].pay \in Payment
  PROVE  QueueTypeOK'
BY FailedJob

\* sweepQueue.add fills a free slot with a well-typed job.
LEMMA AddJobType ==
  ASSUME QueueTypeOK, NEW p \in Payment, AddJob(p)
  PROVE  QueueTypeOK'
  BY AttemptsAssumption DEF AddJob, QueueTypeOK, Live

\* A refused add leaves the queue as it is.
LEMMA RefuseJobType ==
  ASSUME QueueTypeOK, NEW p \in Payment, RefuseJob(p)
  PROVE  QueueTypeOK'
  BY DEF RefuseJob, QueueTypeOK

\* A finished job leaves a well-typed free slot.
LEMMA FinishJobType ==
  ASSUME QueueTypeOK, NEW j \in Job, FinishJob(j)
  PROVE  QueueTypeOK'
  BY AttemptsAssumption DEF FinishJob, QueueTypeOK, FreeSlot

\* The stalled check after a crash keeps the queue well typed.
LEMMA StallJobsType ==
  ASSUME QueueTypeOK, \A j \in Active : queue[j].pay \in Payment, StallJobs
  PROVE  QueueTypeOK'
<1> DEFINE JobRecord == [state: JobState, pay: Payment \cup {NoPayment},
                         left: 0..MaxAttempts, stalled: BOOLEAN]
<1>1. FreeSlot \in JobRecord
  BY AttemptsAssumption DEF FreeSlot
<1>2. \A j \in Job : [queue[j] EXCEPT !.state = "waiting", !.stalled = TRUE] \in JobRecord
  BY DEF QueueTypeOK
<1>3. \A j \in Job : queue'[j] \in JobRecord
  BY <1>1, <1>2 DEF StallJobs, QueueTypeOK
<1>4. queue' \in [Job -> JobRecord]
  BY <1>3 DEF StallJobs
<1>5. failedJobs' \subseteq Payment /\ refused' \subseteq Payment
  BY DEF StallJobs, QueueTypeOK
<1> QED
  BY <1>4, <1>5 DEF QueueTypeOK

\* The loop of a recovery takes a payment out of those it has to do.
LEMMA TakesPayment ==
  ASSUME RecoveryTypeOK, NEW r \in Recoverer, NEW p \in Payment, NEW pc \in RecoveryPc,
         Takes(r, p, pc)
  PROVE  /\ booted' = booted => RecoveryTypeOK'
         /\ rec'[r].pc = pc /\ rec'[r].cur = p
         /\ rec'[r].todo = rec[r].todo \ {p} /\ rec'[r].seen = rec[r].seen
         /\ \A o \in Recoverer \ {r} : rec'[o] = rec[o]
<1> DEFINE taken == [rec[r] EXCEPT !.pc = pc, !.cur = p, !.todo = rec[r].todo \ {p}]
<1>1. /\ taken \in [pc: RecoveryPc, todo: SUBSET Payment, seen: [Payment -> Tx \cup {NoTx}],
                    cur: Payment \cup {NoPayment}]
      /\ taken.pc = pc /\ taken.cur = p /\ taken.todo = rec[r].todo \ {p}
      /\ taken.seen = rec[r].seen
  BY DEF RecoveryTypeOK
<1>2. rec' = [rec EXCEPT ![r] = taken]
  BY DEF Takes
<1> HIDE DEF taken
<1> QED
  BY <1>1, <1>2 DEF RecoveryTypeOK

-----------------------------------------------------------------------------
(* Every step keeps the types.                                               *)

\* The sweep worker keeps every type.
LEMMA SweepTypeStep ==
  ASSUME TypeOK, JobsAreAccepted, SweepsAreBacked, Sweeping
  PROVE  TypeOK'
<1> USE DEF SweepFrame, chainVars, storeVars, rowVars, queueVars, watcherVars, recoveryVars
<1>0. /\ WatcherTypeOK' /\ RecoveryTypeOK' /\ (crashes \in 0..MaxCrashes)'
      /\ QueueTypeOK
  BY DEF Sweeping, TypeOK, WatcherTypeOK, RecoveryTypeOK, StoreTypeOK, QueueTypeOK
<1> SUFFICES ChainTypeOK' /\ StoreTypeOK' /\ SweepTypeOK'
  BY <1>0 DEF TypeOK
<1>1. PICK j \in Job : StartSweep(j) \/ ClaimThrows(j) \/ SweepStep(j)
  BY DEF Sweeping, SweepNext
<1>j. queue[j].state # "free" => Pay(j) \in Payment
  BY DEF JobsAreAccepted, Live
<1>k. sweep[j].pc # "idle" => Pay(j) \in Payment
  BY <1>j DEF JobsAreAccepted
<1>2. CASE StartSweep(j)
  <2>1. ChainTypeOK' /\ SweepTypeOK'
    BY <1>2 DEF StartSweep, GoTo, TypeOK, ChainTypeOK, SweepTypeOK
  <2>2. QueueTypeOK'
    BY <1>0, <1>2 DEF StartSweep, QueueTypeOK
  <2>3. status' \in [Payment -> PaymentStatus] /\ aged' \subseteq Payment
    BY <1>2 DEF StartSweep, SetStatus, TypeOK, StoreTypeOK
  <2> QED
    BY <1>2, <2>1, <2>2, <2>3 DEF StartSweep, TypeOK, StoreTypeOK, QueueTypeOK
<1>3. CASE ClaimThrows(j)
  BY <1>0, <1>3, <1>j, FailJobType, Zenon
  DEF ClaimThrows, CanStart, TypeOK, ChainTypeOK, StoreTypeOK, SweepTypeOK, QueueTypeOK, Pay
<1>4. CASE ReadBalance(j)
  BY <1>4, <1>k, AccountAssumption
  DEF ReadBalance, TypeOK, ChainTypeOK, StoreTypeOK, SweepTypeOK, Pay, Acc
<1>5. CASE Broadcast(j)
  <2>1. PICK t \in Tx : /\ Send(Pay(j), t, sweep[j].amt)
                        /\ sweep' = [sweep EXCEPT ![j] = [@ EXCEPT !.pc = "sent", !.tx = t]]
    BY <1>5 DEF Broadcast
  <2>2. SweepTypeOK'
    BY <2>1 DEF TypeOK, SweepTypeOK
  <2>3. Pay(j) \in Payment /\ sweep[j].amt \in Nat
    BY <1>5, <1>k DEF Broadcast, TypeOK, SweepTypeOK
  <2>4. ChainTypeOK'
    BY <1>5, <2>1, <2>3 DEF Broadcast, Send, TypeOK, ChainTypeOK
  <2> QED
    BY <1>5, <2>2, <2>4 DEF Broadcast, TypeOK, StoreTypeOK
<1>6. CASE RecordTx(j)
  BY <1>6, <1>k
  DEF RecordTx, GoTo, TypeOK, ChainTypeOK, StoreTypeOK, SweepTypeOK, Pay
<1>7. CASE Complete(j)
  BY <1>7, <1>k
  DEF Complete, CompleteRow, SetStatus, GoTo, TypeOK, ChainTypeOK, StoreTypeOK, SweepTypeOK, Pay
<1>8. CASE NotifyCompleted(j)
  BY <1>0, <1>8, <1>k, FinishJobType
  DEF NotifyCompleted, QueueWebhook, TypeOK, ChainTypeOK, StoreTypeOK, SweepTypeOK, Pay,
      QueueTypeOK, IdleSweep
<1>9. CASE SweepThrows(j)
  <2>1. QueueTypeOK'
    BY <1>0, <1>9, <1>k, FailJobType DEF SweepThrows, Rejects, Pay
  <2> QED
    BY <2>1, <1>9 DEF SweepThrows, TypeOK, ChainTypeOK, StoreTypeOK, SweepTypeOK, QueueTypeOK, IdleSweep
<1> QED
  BY <1>1, <1>2, <1>3, <1>4, <1>5, <1>6, <1>7, <1>8, <1>9 DEF SweepStep

\* The block watcher keeps every type.
LEMMA WatcherTypeStep ==
  ASSUME TypeOK, WatcherIsCurrent, Watching
  PROVE  TypeOK'
<1> USE DEF chainVars, storeVars, rowVars, queueVars, recoveryVars, At, Phase, OnPayment, IdleWatcher
<1>0. /\ ChainTypeOK' /\ SweepTypeOK' /\ RecoveryTypeOK' /\ (crashes \in 0..MaxCrashes)'
      /\ QueueTypeOK
  BY DEF Watching, TypeOK, ChainTypeOK, SweepTypeOK, RecoveryTypeOK, StoreTypeOK, QueueTypeOK
<1> SUFFICES StoreTypeOK' /\ WatcherTypeOK'
  BY <1>0 DEF TypeOK
<1>t. StoreTypeOK /\ WatcherTypeOK
  BY DEF TypeOK
<1>1. CASE ReadOverdue
  BY <1>1, <1>t DEF ReadOverdue, Overdue, StoreTypeOK, WatcherTypeOK
<1>2. CASE ExpireStuck
  BY <1>2, <1>t DEF ExpireStuck, StoreTypeOK, WatcherTypeOK
<1>3. CASE ReadLost
  BY <1>3, <1>t DEF ReadLost, Lost, StoreTypeOK, WatcherTypeOK
<1>4. CASE ReadPending
  BY <1>4, <1>t DEF ReadPending, StoreTypeOK, WatcherTypeOK
<1>5. CASE QueueConfirmed
  BY <1>5, <1>t DEF QueueConfirmed, QueueWebhook, StoreTypeOK, WatcherTypeOK, WatcherIsCurrent
<1>6. CASE ConfirmedUnannounced \/ ScanWallets \/ DetectedUnannounced \/ EndScan \/ ScanThrows
  BY <1>6, <1>t DEF ConfirmedUnannounced, ScanWallets, DetectedUnannounced, EndScan, ScanThrows,
     StoreTypeOK, WatcherTypeOK
<1>7. CASE QueueSweep
  <2>1. QueueTypeOK'
    BY <1>0, <1>7, AddJobType DEF QueueSweep, WatcherIsCurrent
  <2> QED
    BY <2>1, <1>7, <1>t DEF QueueSweep, StoreTypeOK, WatcherTypeOK, QueueTypeOK
<1>8. CASE QueueDetected
  BY <1>8, <1>t DEF QueueDetected, QueueWebhook, StoreTypeOK, WatcherTypeOK
<1>9. ASSUME NEW p \in Payment, QueueFailed(p) PROVE StoreTypeOK' /\ WatcherTypeOK'
  BY <1>9, <1>t DEF QueueFailed, QueueWebhook, StoreTypeOK, WatcherTypeOK
<1>10. ASSUME NEW p \in Payment, Requeue(p) PROVE StoreTypeOK' /\ WatcherTypeOK'
  <2>1. QueueTypeOK'
    BY <1>0, <1>10, AddJobType DEF Requeue
  <2> QED
    BY <2>1, <1>10, <1>t DEF Requeue, StoreTypeOK, WatcherTypeOK, QueueTypeOK
<1>11. ASSUME NEW p \in Payment, Confirm(p) PROVE StoreTypeOK' /\ WatcherTypeOK'
  BY <1>11, <1>t DEF Confirm, SetStatus, StoreTypeOK, WatcherTypeOK
<1>12. ASSUME NEW p \in Payment, SkipCheck(p) PROVE StoreTypeOK' /\ WatcherTypeOK'
  BY <1>12, <1>t DEF SkipCheck, StoreTypeOK, WatcherTypeOK
<1>13. ASSUME NEW p \in Payment, DetectDeposit(p) PROVE StoreTypeOK' /\ WatcherTypeOK'
  BY <1>13, <1>t DEF DetectDeposit, SetStatus, StoreTypeOK, WatcherTypeOK
<1>14. CASE SweepRefused
  <2>1. QueueTypeOK'
    BY <1>0, <1>14, RefuseJobType DEF SweepRefused, WatcherIsCurrent
  <2> QED
    BY <2>1, <1>14, <1>t DEF SweepRefused, StoreTypeOK, WatcherTypeOK, QueueTypeOK
<1>15. ASSUME NEW p \in Payment, RequeueRefused(p) PROVE StoreTypeOK' /\ WatcherTypeOK'
  <2>1. QueueTypeOK'
    BY <1>0, <1>15, RefuseJobType DEF RequeueRefused
  <2> QED
    BY <2>1, <1>15, <1>t DEF RequeueRefused, StoreTypeOK, WatcherTypeOK, QueueTypeOK
<1> QED
  BY <1>1, <1>2, <1>3, <1>4, <1>5, <1>6, <1>7, <1>8, <1>9, <1>10, <1>11, <1>12, <1>13, <1>14,
     <1>15
  DEF Watching, WatcherStep

\* recoverStuckSweeps keeps every type.
LEMMA RecoveryTypeStep ==
  ASSUME TypeOK, RecoveryIsAccepted, Recovering
  PROVE  TypeOK'
<1> USE DEF chainVars, storeVars, rowVars, queueVars, watcherVars, RecoveryFrame
<1>0. SweepTypeOK' /\ WatcherTypeOK' /\ (crashes \in 0..MaxCrashes)' /\ QueueTypeOK
  BY DEF Recovering, TypeOK, SweepTypeOK, WatcherTypeOK, StoreTypeOK, QueueTypeOK
<1> SUFFICES ChainTypeOK' /\ StoreTypeOK' /\ RecoveryTypeOK'
  BY <1>0 DEF TypeOK
<1>t. ChainTypeOK /\ StoreTypeOK /\ RecoveryTypeOK
  BY DEF TypeOK
<1>g. ASSUME NEW r \in Recoverer, GoesOn(r), booted' = booted PROVE RecoveryTypeOK'
  <2> DEFINE g == [rec[r] EXCEPT !.pc = "loop", !.cur = NoPayment]
  <2>1. g \in [pc: RecoveryPc, todo: SUBSET Payment, seen: [Payment -> Tx \cup {NoTx}],
               cur: Payment \cup {NoPayment}]
    BY <1>t DEF RecoveryTypeOK
  <2>2. rec' = [rec EXCEPT ![r] = g]
    BY <1>g, <1>t DEF GoesOn, RecoveryTypeOK
  <2> QED
    BY <1>g, <1>t, <2>1, <2>2 DEF RecoveryTypeOK
<1>1. CASE Boot
  BY <1>1, <1>t DEF Boot, ChainTypeOK, StoreTypeOK, RecoveryTypeOK
<1>2. ASSUME NEW r \in Recoverer, RecoveryStep(r)
      PROVE  ChainTypeOK' /\ StoreTypeOK' /\ RecoveryTypeOK'
  <2>1. CASE ReadStuck(r)
    <3>1. [p \in Payment |-> IF p \in Stuck THEN sweepTx[p] ELSE NoTx] \in [Payment -> Tx \cup {NoTx}]
      BY <1>t DEF StoreTypeOK
    <3>2. Stuck \in SUBSET Payment
      BY DEF Stuck
    <3>3. RecoveryTypeOK'
      BY <2>1, <1>t, <3>1, <3>2 DEF ReadStuck, RecoveryTypeOK
    <3> QED
      BY <2>1, <1>t, <3>3 DEF ReadStuck, ChainTypeOK, StoreTypeOK
  <2>2. CASE RecoverCompleted(r)
    BY <2>2, <1>t, <1>g DEF RecoverCompleted, CompleteRow, SetStatus, RecoveryIsAccepted,
       ChainTypeOK, StoreTypeOK, RecoveryTypeOK
  <2>3. CASE ResetToConfirmed(r)
    BY <2>3, <1>t DEF ResetToConfirmed, SetStatus, RecoveryIsAccepted,
       ChainTypeOK, StoreTypeOK, RecoveryTypeOK
  <2>4. CASE RequeueRecovered(r)
    <3>1. QueueTypeOK'
      BY <1>0, <2>4, AddJobType DEF RequeueRecovered, RecoveryIsAccepted
    <3> QED
      BY <3>1, <2>4, <1>t, <1>g DEF RequeueRecovered, QueueTypeOK, ChainTypeOK, StoreTypeOK
  <2>8. CASE RecoveredRefused(r)
    <3>1. QueueTypeOK'
      BY <1>0, <2>8, RefuseJobType DEF RecoveredRefused, RecoveryIsAccepted
    <3> QED
      BY <3>1, <2>8, <1>t, <1>g DEF RecoveredRefused, QueueTypeOK, ChainTypeOK, StoreTypeOK
  <2>5. CASE RecoveryThrows(r)
    BY <2>5, <1>t, <1>g DEF RecoveryThrows, ChainTypeOK, StoreTypeOK
  <2>6. CASE EndRecovery(r)
    BY <2>6, <1>t DEF EndRecovery, IdleRecovery, NothingSeen, ChainTypeOK, StoreTypeOK, RecoveryTypeOK
  <2>7. ASSUME NEW p \in Payment, Lookup(r, p)
        PROVE  ChainTypeOK' /\ StoreTypeOK' /\ RecoveryTypeOK'
    <3>1. PICK pc \in {"complete", "reset"} : Takes(r, p, pc)
      BY <2>7 DEF Lookup
    <3>2. RecoveryTypeOK'
      BY <2>7, <3>1, <1>t, TakesPayment DEF Lookup, RecoveryPc
    <3> QED
      BY <2>7, <3>2, <1>t DEF Lookup, ChainTypeOK, StoreTypeOK
  <2> QED
    BY <1>2, <2>1, <2>2, <2>3, <2>4, <2>5, <2>6, <2>7, <2>8 DEF RecoveryStep
<1> QED
  BY <1>1, <1>2 DEF Recovering

\* The chain and the clock keep every type.
LEMMA EnvironmentTypeStep ==
  ASSUME TypeOK, TxsAreAccepted, Environment
  PROVE  TypeOK'
<1> USE DEF chainVars, storeVars, watcherVars, recoveryVars, EnvironmentFrame
<1>t. ChainTypeOK /\ StoreTypeOK
  BY DEF TypeOK
<1>0. /\ SweepTypeOK' /\ WatcherTypeOK' /\ RecoveryTypeOK' /\ (crashes \in 0..MaxCrashes)'
  BY DEF Environment, Blocks, Ages, Settles, TypeOK, SweepTypeOK, WatcherTypeOK, RecoveryTypeOK
<1> SUFFICES ChainTypeOK' /\ StoreTypeOK'
  BY <1>0 DEF TypeOK
<1>1. ASSUME NEW p \in Payment, Blocks(p) PROVE ChainTypeOK' /\ StoreTypeOK'
  <2>1. AccountOf[p] \in Account
    BY AccountAssumption
  <2> QED
    BY <1>1, <1>t, <2>1 DEF Blocks, Land, Mature, Orphan, ChainTypeOK, StoreTypeOK
<1>2. ASSUME NEW p \in Payment, Ages(p) PROVE ChainTypeOK' /\ StoreTypeOK'
  BY <1>2, <1>t DEF Ages, Age, ChainTypeOK, StoreTypeOK
<1>3. ASSUME NEW t \in Tx, Settles(t) PROVE ChainTypeOK' /\ StoreTypeOK'
  <2>1. txs[t].by \in Payment /\ AccountOf[txs[t].by] \in Account
    BY <1>3, <1>t, AccountAssumption DEF Settles, Settle, TxsAreAccepted, ChainTypeOK
  <2>2. ChainTypeOK'
    BY <1>3, <1>t, <2>1 DEF Settles, Settle, ChainTypeOK
  <2> QED
    BY <1>3, <1>t, <2>2 DEF Settles, StoreTypeOK
<1> QED
  BY <1>1, <1>2, <1>3 DEF Environment

\* A crash and restart keep every type.
LEMMA CrashTypeStep ==
  ASSUME TypeOK, JobsAreAccepted, Crash
  PROVE  TypeOK'
<1>1. ChainTypeOK'
  BY DEF Crash, chainVars, TypeOK, ChainTypeOK
<1>2. QueueTypeOK'
  BY StallJobsType DEF Crash, TypeOK, StoreTypeOK, QueueTypeOK, JobsAreAccepted, Live, Active, Pay
<1>3. StoreTypeOK'
  BY <1>2 DEF Crash, rowVars, TypeOK, StoreTypeOK, QueueTypeOK
<1>4. SweepTypeOK' /\ WatcherTypeOK'
  BY DEF Crash, SweepCrash, WatcherCrash, IdleSweep, IdleWatcher, SweepTypeOK, WatcherTypeOK
<1>5. RecoveryTypeOK'
  BY DEF Crash, RecoveryCrash, IdleRecovery, NothingSeen, RecoveryTypeOK
<1>6. (crashes \in 0..MaxCrashes)'
  BY CrashAssumption DEF Crash, TypeOK
<1> QED
  BY <1>1, <1>3, <1>4, <1>5, <1>6 DEF TypeOK

-----------------------------------------------------------------------------
(* What every part of the invariant survives: a step that moves rows only     *)
(* among the accepted statuses, never takes a hash from its payment, and      *)
(* leaves the locals that the part is about alone.                            *)

KeepsVerdicts ==
  \A p \in Payment : status'[p] = status[p] \/ (PastConfirmation(p) /\ PastConfirmation(p)')

AcceptedStay == \A p \in Payment : PastConfirmation(p) => PastConfirmation(p)'

KeepsTxs ==
  \A t \in Tx :
    /\ txs[t].by # NoPayment => txs'[t].by = txs[t].by
    /\ txs[t].state = "success" => txs'[t].state = "success"

\* Where no verdict moves, accepted payments stay accepted.
LEMMA VerdictsKeptAcceptedStay == KeepsVerdicts => AcceptedStay
  BY DEF KeepsVerdicts, AcceptedStay, PastConfirmation

\* A step that leaves the statuses alone moves no verdict.
LEMMA UnchangedKeepsVerdicts == status' = status => KeepsVerdicts
  BY DEF KeepsVerdicts

\* A step that leaves the transactions alone keeps what they stand for.
LEMMA UnchangedKeepsTxs == txs' = txs => KeepsTxs
  BY DEF KeepsTxs

\* A hash that backs a payment goes on backing it.
LEMMA BacksKept ==
  ASSUME KeepsTxs, NEW t, NEW p \in Payment, Backs(t, p)
  PROVE  /\ t \in Tx
         /\ txs'[t].by = p
         /\ WaitsForConfirmation => txs'[t].state = "success"
  BY NullAssumption DEF KeepsTxs, Backs

\* A payment that was broadcast stays broadcast.
LEMMA BroadcastedKept ==
  ASSUME KeepsTxs
  PROVE  Broadcasted \subseteq Broadcasted'
  BY DEF KeepsTxs, Broadcasted

\* AcceptedIsMature survives a step that keeps verdicts and mature deposits.
LEMMA MaturityKept ==
  ASSUME AcceptedIsMature, KeepsVerdicts, deposit' = deposit
  PROVE  AcceptedIsMature'
  BY DEF AcceptedIsMature, KeepsVerdicts, PastConfirmation

\* JobsAreAccepted survives a step that leaves queue and processors alone.
LEMMA JobsKept ==
  ASSUME JobsAreAccepted, AcceptedStay, UNCHANGED <<queue, sweep>>
  PROVE  JobsAreAccepted'
  BY DEF JobsAreAccepted, AcceptedStay, Live, Pay

\* TxsAreAccepted survives a step that leaves the transactions alone.
LEMMA TxsKept ==
  ASSUME ChainTypeOK, TxsAreAccepted, AcceptedStay, txs' = txs
  PROVE  TxsAreAccepted'
  BY DEF ChainTypeOK, TxsAreAccepted, AcceptedStay

\* A processor keeps what it holds: the same locals, the same job.
LEMMA SweepKept ==
  ASSUME JobsAreAccepted, SweepsAreBacked, KeepsTxs, NEW j \in Job,
         sweep'[j] = sweep[j], sweep[j].pc # "idle" => Pay(j)' = Pay(j)
  PROVE  /\ sweep'[j].pc = "sent" => sweep'[j].tx \in Tx /\ txs'[sweep'[j].tx].by = Pay(j)'
         /\ sweep'[j].pc = "recorded" => Backs(sweep[j].tx, Pay(j))'
         /\ sweep'[j].pc = "notify" => Pay(j)' \in Broadcasted'
<1>1. sweep[j].pc # "idle" => Pay(j) \in Payment /\ Pay(j) # NoPayment
  BY NullAssumption DEF JobsAreAccepted, Live
<1>2. CASE sweep[j].pc = "sent"
  BY <1>1, <1>2 DEF SweepsAreBacked, KeepsTxs
<1>3. CASE sweep[j].pc = "recorded"
  <2>1. Backs(sweep[j].tx, Pay(j)) /\ Pay(j) \in Payment /\ Pay(j)' = Pay(j)
    BY <1>1, <1>3 DEF SweepsAreBacked
  <2>2. /\ sweep[j].tx \in Tx
        /\ txs'[sweep[j].tx].by = Pay(j)
        /\ WaitsForConfirmation => txs'[sweep[j].tx].state = "success"
    BY <2>1, BacksKept
  <2>3. Backs(sweep[j].tx, Pay(j))'
    BY <2>1, <2>2 DEF Backs
  <2> QED
    BY <1>3, <2>3
<1>4. CASE sweep[j].pc = "notify"
  BY <1>4, BroadcastedKept DEF SweepsAreBacked
<1> QED
  BY <1>2, <1>3, <1>4

\* SweepsAreBacked survives a step that leaves every processor what it holds.
LEMMA SweepsKept ==
  ASSUME JobsAreAccepted, SweepsAreBacked, KeepsTxs, sweep' = sweep,
         \A j \in Job : sweep[j].pc # "idle" => queue'[j].pay = queue[j].pay
  PROVE  SweepsAreBacked'
<1>1. \A j \in Job : sweep[j].pc # "idle" => Pay(j)' = Pay(j)
  BY DEF Pay
<1> QED
  BY <1>1, SweepKept, SMT DEF SweepsAreBacked

\* RowsAreBacked survives a step that leaves statuses and hashes alone.
LEMMA RowsKept ==
  ASSUME RowsAreBacked, KeepsTxs, UNCHANGED <<status, sweepTx>>
  PROVE  RowsAreBacked'
  BY BacksKept DEF RowsAreBacked, Backs

\* WatcherIsCurrent survives the steps of the others: they move no verdict and no watcher.
LEMMA WatcherKept ==
  ASSUME TypeOK, WatcherIsCurrent, KeepsVerdicts, watcher' = watcher
  PROVE  WatcherIsCurrent'
<1>1. \A p \in Payment : status[p] \in {"DETECTED", "FAILED"} => status'[p] = status[p]
  BY DEF KeepsVerdicts, PastConfirmation
<1>2. AcceptedStay
  BY VerdictsKeptAcceptedStay
<1> QED
  BY <1>1, <1>2 DEF WatcherIsCurrent, AcceptedStay, TypeOK, WatcherTypeOK

\* RecoveryIsAccepted survives the steps of the others.
LEMMA RecoveryKept ==
  ASSUME TypeOK, RecoveryIsAccepted, AcceptedStay, KeepsTxs, rec' = rec
  PROVE  RecoveryIsAccepted'
<1>1. ASSUME NEW r \in Recoverer PROVE \A p \in rec'[r].todo : PastConfirmation(p)'
  BY DEF RecoveryIsAccepted, AcceptedStay, TypeOK, RecoveryTypeOK
<1>2. ASSUME NEW r \in Recoverer, NEW p \in Payment, rec'[r].seen[p] # NoTx
      PROVE  Backs(rec[r].seen[p], p)'
  <2>1. Backs(rec[r].seen[p], p)
    BY <1>2 DEF RecoveryIsAccepted
  <2>2. /\ rec[r].seen[p] \in Tx
        /\ txs'[rec[r].seen[p]].by = p
        /\ WaitsForConfirmation => txs'[rec[r].seen[p]].state = "success"
    BY <2>1, BacksKept
  <2> QED
    BY <2>2 DEF Backs
<1>3. ASSUME NEW r \in Recoverer, rec'[r].pc \in {"complete", "reset", "add"}
      PROVE  rec'[r].cur \in Payment /\ PastConfirmation(rec[r].cur)'
  BY <1>3 DEF RecoveryIsAccepted, AcceptedStay
<1> QED
  BY <1>1, <1>2, <1>3 DEF RecoveryIsAccepted

-----------------------------------------------------------------------------
(* The sweep worker keeps the invariant.                                      *)

\* The sweep worker moves no verdict and no deposit, and keeps what transactions stand for.
LEMMA SweepKeeps ==
  ASSUME IInv, Sweeping
  PROVE  KeepsVerdicts /\ KeepsTxs /\ deposit' = deposit
<1> USE DEF chainVars, storeVars, rowVars, queueVars
<1>t. StoreTypeOK /\ ChainTypeOK /\ SweepTypeOK /\ JobsAreAccepted
  BY DEF IInv, TypeOK
<1>1. PICK j \in Job : StartSweep(j) \/ ClaimThrows(j) \/ SweepStep(j)
  BY DEF Sweeping, SweepNext
<1>2. queue[j].state # "free" => Pay(j) \in Payment /\ PastConfirmation(Pay(j))
  BY <1>t DEF JobsAreAccepted, Live
<1>3. CASE StartSweep(j)
  <2>1. KeepsVerdicts
    BY <1>t, <1>2, <1>3 DEF StartSweep, CanStart, SetStatus, KeepsVerdicts, PastConfirmation, StoreTypeOK
  <2> QED
    BY <1>3, <2>1, UnchangedKeepsTxs DEF StartSweep
<1>4. CASE ClaimThrows(j) \/ ReadBalance(j) \/ RecordTx(j) \/ NotifyCompleted(j) \/ SweepThrows(j)
  BY <1>4, UnchangedKeepsTxs, UnchangedKeepsVerdicts
  DEF ClaimThrows, ReadBalance, RecordTx, NotifyCompleted, SweepThrows
<1>5. CASE Broadcast(j)
  <2>1. PICK t \in Tx : Send(Pay(j), t, sweep[j].amt)
    BY <1>5 DEF Broadcast
  <2>2. txs[t].by = NoPayment
    BY <2>1 DEF Send, IInv, TxsAreAccepted
  <2>3. KeepsTxs
    BY <1>t, <2>1, <2>2 DEF Send, KeepsTxs, ChainTypeOK
  <2> QED
    BY <1>5, <2>3, UnchangedKeepsVerdicts DEF Broadcast
<1>6. CASE Complete(j)
  <2>1. Pay(j) \in Payment /\ PastConfirmation(Pay(j))
    BY <1>t, <1>2, <1>6 DEF Complete, JobsAreAccepted
  <2>2. KeepsVerdicts
    BY <1>t, <1>6, <2>1 DEF Complete, CompleteRow, SetStatus, KeepsVerdicts, PastConfirmation, StoreTypeOK
  <2> QED
    BY <1>6, <2>2, UnchangedKeepsTxs DEF Complete
<1> QED
  BY <1>1, <1>3, <1>4, <1>5, <1>6 DEF SweepStep

\* A job that failed is waiting for its payment again, or its slot is free.
LEMMA FailedJobGone ==
  ASSUME QueueTypeOK, NEW j \in Job, FailJob(j), NEW k \in Job
  PROVE  /\ k # j => queue'[k] = queue[k]
         /\ queue'[j].state # "active"
         /\ queue'[j].state # "free" => queue'[j].pay = queue[j].pay
BY FailedJob

\* The sweep worker keeps JobsAreAccepted.
LEMMA SweepKeepsJobs ==
  ASSUME IInv, Sweeping
  PROVE  JobsAreAccepted'
<1> USE DEF chainVars, storeVars, rowVars, queueVars
<1>t. QueueTypeOK /\ SweepTypeOK /\ JobsAreAccepted
  BY DEF IInv, TypeOK, StoreTypeOK, QueueTypeOK
<1>a. AcceptedStay
  BY SweepKeeps, VerdictsKeptAcceptedStay
<1>1. PICK j \in Job : StartSweep(j) \/ ClaimThrows(j) \/ SweepStep(j)
  BY DEF Sweeping, SweepNext
<1>2. CASE StartSweep(j)
  BY <1>2, <1>t, <1>a DEF StartSweep, CanStart, GoTo, JobsAreAccepted, AcceptedStay, Live, Pay,
     QueueTypeOK, SweepTypeOK
<1>3. CASE ClaimThrows(j)
  <2>1. \A k \in Job : k # j => queue'[k] = queue[k]
    BY <1>3, <1>t, FailedJobGone DEF ClaimThrows
  <2>2. queue'[j].state # "free" => queue'[j].pay = queue[j].pay
    BY <1>3, <1>t, FailedJobGone DEF ClaimThrows
  <2>3. sweep' = sweep /\ sweep[j].pc = "idle" /\ queue[j].state # "free"
    BY <1>3, <1>t DEF ClaimThrows, CanStart, JobsAreAccepted
  <2> QED
    BY <1>t, <1>a, <2>1, <2>2, <2>3 DEF JobsAreAccepted, AcceptedStay, Live, Pay
<1>4. CASE ReadBalance(j) \/ Broadcast(j) \/ RecordTx(j) \/ Complete(j)
  <2>1. queue' = queue /\ sweep[j].pc # "idle"
    BY <1>4 DEF ReadBalance, Broadcast, RecordTx, Complete
  <2>2. \A k \in Job : k # j => sweep'[k].pc = sweep[k].pc
    BY <1>4, <1>t DEF ReadBalance, Broadcast, RecordTx, Complete, GoTo, SweepTypeOK
  <2> QED
    BY <1>t, <1>a, <2>1, <2>2 DEF JobsAreAccepted, AcceptedStay, Live, Pay
<1>5. CASE NotifyCompleted(j)
  BY <1>5, <1>t, <1>a DEF NotifyCompleted, FinishJob, FreeSlot, IdleSweep, JobsAreAccepted,
     AcceptedStay, Live, Pay, QueueTypeOK, SweepTypeOK
<1>6. CASE SweepThrows(j)
  <2>0. FailJob(j)
    BY <1>6 DEF SweepThrows
  <2>1. \A k \in Job : k # j => queue'[k] = queue[k]
    BY <2>0, <1>t, FailedJobGone
  <2>2. queue'[j].state # "free" => queue'[j].pay = queue[j].pay
    BY <2>0, <1>t, FailedJobGone
  <2>3. sweep' = [sweep EXCEPT ![j] = IdleSweep] /\ queue[j].state # "free"
    BY <1>6, <1>t DEF SweepThrows, Rejects, JobsAreAccepted
  <2> QED
    BY <1>t, <1>a, <2>1, <2>2, <2>3 DEF JobsAreAccepted, AcceptedStay, Live, Pay, IdleSweep, SweepTypeOK
<1> QED
  BY <1>1, <1>2, <1>3, <1>4, <1>5, <1>6 DEF SweepStep

\* The sweep worker keeps TxsAreAccepted: it broadcasts for accepted payments only.
LEMMA SweepKeepsTxs ==
  ASSUME IInv, Sweeping
  PROVE  TxsAreAccepted'
<1>t. ChainTypeOK /\ TxsAreAccepted /\ JobsAreAccepted /\ AcceptedStay
  BY SweepKeeps, VerdictsKeptAcceptedStay DEF IInv, TypeOK
<1>1. CASE txs' = txs
  BY <1>1, <1>t, TxsKept
<1>2. ASSUME NEW j \in Job, Broadcast(j) PROVE TxsAreAccepted'
  <2>1. PICK t \in Tx : Send(Pay(j), t, sweep[j].amt)
    BY <1>2 DEF Broadcast
  <2>2. Pay(j) \in Payment /\ PastConfirmation(Pay(j))
    BY <1>2, <1>t DEF Broadcast, JobsAreAccepted, Live
  <2>3. PastConfirmation(Pay(j))' /\ Pay(j) # NoPayment
    BY <1>2, <1>t, <2>2, NullAssumption DEF AcceptedStay, Broadcast, storeVars, PastConfirmation, Pay
  <2> QED
    BY <1>t, <2>1, <2>2, <2>3 DEF Send, TxsAreAccepted, AcceptedStay, ChainTypeOK
<1> QED
  BY <1>1, <1>2 DEF Sweeping, SweepNext, SweepStep, StartSweep, ClaimThrows, ReadBalance, RecordTx,
     Complete, NotifyCompleted, SweepThrows, chainVars

\* An accepted payment that cannot be claimed was broadcast before.
LEMMA NotClaimableIsBroadcasted ==
  ASSUME RowsAreBacked, NEW p \in Payment, PastConfirmation(p), ~Claimable(p)
  PROVE  p \in Broadcasted
<1>1. sweepTx[p] # NoTx
  BY DEF Claimable, PastConfirmation, RowsAreBacked
<1>2. sweepTx[p] \in Tx /\ txs[sweepTx[p]].by = p
  BY <1>1 DEF RowsAreBacked, Backs
<1> QED
  BY <1>2, NullAssumption DEF Broadcasted

\* The sweep worker keeps SweepsAreBacked.
LEMMA SweepKeepsSweeps ==
  ASSUME IInv, Sweeping
  PROVE  SweepsAreBacked'
<1> USE DEF chainVars, storeVars, rowVars, queueVars
<1>t. /\ QueueTypeOK /\ SweepTypeOK /\ ChainTypeOK /\ StoreTypeOK
      /\ JobsAreAccepted /\ SweepsAreBacked /\ RowsAreBacked /\ TxsAreAccepted
  BY DEF IInv, TypeOK, StoreTypeOK, QueueTypeOK
<1>k. KeepsTxs
  BY SweepKeeps
<1>1. PICK j \in Job : StartSweep(j) \/ ClaimThrows(j) \/ SweepStep(j)
  BY DEF Sweeping, SweepNext
<1>2. \A k \in Job : k # j => sweep'[k] = sweep[k] /\ queue'[k] = queue[k]
  <2>1. CASE ClaimThrows(j) \/ SweepThrows(j)
    <3>1. FailJob(j)
      BY <2>1 DEF ClaimThrows, SweepThrows
    <3>2. \A k \in Job : k # j => queue'[k] = queue[k]
      BY <3>1, <1>t, FailedJobGone
    <3> QED
      BY <2>1, <3>2, <1>t DEF ClaimThrows, SweepThrows, SweepTypeOK
  <2>2. CASE ~(ClaimThrows(j) \/ SweepThrows(j))
    BY <2>2, <1>1, <1>t DEF SweepStep, StartSweep, ReadBalance, Broadcast, RecordTx, Complete,
       NotifyCompleted, GoTo, FinishJob, SweepTypeOK, QueueTypeOK
  <2> QED
    BY <2>1, <2>2
<1> DEFINE Good(k) ==
      /\ sweep[k].pc = "sent" => sweep[k].tx \in Tx /\ txs[sweep[k].tx].by = Pay(k)
      /\ sweep[k].pc = "recorded" => Backs(sweep[k].tx, Pay(k))
      /\ sweep[k].pc = "notify" => Pay(k) \in Broadcasted
<1>3. \A k \in Job : k # j => Good(k)'
  BY <1>2, <1>t, <1>k, SweepKept DEF Pay
<1>4. Good(j)'
  <2>1. CASE StartSweep(j)
    <3>1. Pay(j) \in Payment /\ PastConfirmation(Pay(j)) /\ Pay(j)' = Pay(j)
      BY <2>1, <1>t DEF StartSweep, CanStart, JobsAreAccepted, Live, Pay, QueueTypeOK
    <3>2. CASE Claimable(Pay(j)) /\ GoTo(j, "claimed")
      BY <3>2, <1>t DEF GoTo, SweepTypeOK
    <3>3. CASE ~Claimable(Pay(j)) /\ GoTo(j, "notify")
      <4>1. Pay(j)' \in Broadcasted'
        BY <3>1, <3>3, <1>t, <1>k, NotClaimableIsBroadcasted, BroadcastedKept
      <4> QED
        BY <3>3, <4>1, <1>t DEF GoTo, SweepTypeOK
    <3> QED
      BY <2>1, <3>2, <3>3 DEF StartSweep
  <2>2. CASE ClaimThrows(j)
    BY <2>2, <1>t DEF ClaimThrows, CanStart, JobsAreAccepted
  <2>3. CASE ReadBalance(j)
    BY <2>3, <1>t DEF ReadBalance, SweepTypeOK
  <2>4. CASE Broadcast(j)
    <3>1. PICK t \in Tx : /\ Send(Pay(j), t, sweep[j].amt)
                          /\ sweep' = [sweep EXCEPT ![j] = [@ EXCEPT !.pc = "sent", !.tx = t]]
      BY <2>4 DEF Broadcast
    <3>2. sweep'[j].pc = "sent" /\ sweep'[j].tx = t
      BY <3>1, <1>t DEF SweepTypeOK
    <3>3. txs'[t].by = Pay(j) /\ Pay(j)' = Pay(j)
      BY <2>4, <3>1, <1>t DEF Send, Broadcast, Pay, ChainTypeOK
    <3> QED
      BY <3>2, <3>3
  <2>5. CASE RecordTx(j)
    <3>1. sweep'[j].pc = "recorded" /\ sweep'[j].tx = sweep[j].tx /\ Pay(j)' = Pay(j)
      BY <2>5, <1>t DEF RecordTx, GoTo, SweepTypeOK, Pay
    <3>2. Backs(sweep[j].tx, Pay(j))
      BY <2>5, <1>t DEF RecordTx, SendReturned, SweepsAreBacked, Backs
    <3>3. Backs(sweep[j].tx, Pay(j))'
      BY <2>5, <3>1, <3>2 DEF RecordTx, Backs
    <3> QED
      BY <3>1, <3>3
  <2>6. CASE Complete(j)
    <3>1. sweep'[j].pc = "notify" /\ Pay(j)' = Pay(j) /\ Broadcasted' = Broadcasted
      BY <2>6, <1>t DEF Complete, GoTo, SweepTypeOK, Pay, Broadcasted
    <3>2. Pay(j) \in Broadcasted
      BY <2>6, <1>t, NullAssumption DEF Complete, SweepsAreBacked, Backs, Broadcasted,
         JobsAreAccepted, Live
    <3> QED
      BY <3>1, <3>2
  <2>7. CASE NotifyCompleted(j) \/ SweepThrows(j)
    BY <2>7, <1>t DEF NotifyCompleted, SweepThrows, IdleSweep, SweepTypeOK
  <2> QED
    BY <1>1, <2>1, <2>2, <2>3, <2>4, <2>5, <2>6, <2>7 DEF SweepStep
<1> QED
  BY <1>3, <1>4 DEF SweepsAreBacked

\* The sweep worker keeps RowsAreBacked.
LEMMA SweepKeepsRows ==
  ASSUME IInv, Sweeping
  PROVE  RowsAreBacked'
<1> USE DEF chainVars, storeVars, rowVars, queueVars
<1>t. /\ StoreTypeOK /\ SweepTypeOK /\ JobsAreAccepted /\ SweepsAreBacked /\ RowsAreBacked
  BY DEF IInv, TypeOK
<1>k. KeepsTxs
  BY SweepKeeps
<1>1. CASE UNCHANGED <<status, sweepTx>>
  BY <1>1, <1>t, <1>k, RowsKept
<1>2. ASSUME NEW j \in Job, StartSweep(j), Claimable(Pay(j)), SetStatus(Pay(j), "SWEEPING")
      PROVE RowsAreBacked'
  BY <1>2, <1>t DEF StartSweep, SetStatus, RowsAreBacked, Backs, StoreTypeOK
<1>3. ASSUME NEW j \in Job, RecordTx(j) PROVE RowsAreBacked'
  <2>1. Backs(sweep[j].tx, Pay(j)) /\ Pay(j) \in Payment
    BY <1>3, <1>t DEF RecordTx, SendReturned, SweepsAreBacked, Backs, JobsAreAccepted, Live
  <2> QED
    BY <1>3, <1>t, <2>1, NullAssumption DEF RecordTx, RowsAreBacked, Backs, StoreTypeOK
<1>4. ASSUME NEW j \in Job, Complete(j) PROVE RowsAreBacked'
  <2>1. Backs(sweep[j].tx, Pay(j)) /\ Pay(j) \in Payment
    BY <1>4, <1>t DEF Complete, SweepsAreBacked, JobsAreAccepted, Live
  <2> QED
    BY <1>4, <1>t, <2>1, NullAssumption DEF Complete, CompleteRow, SetStatus, RowsAreBacked, Backs, StoreTypeOK
<1> QED
  BY <1>1, <1>2, <1>3, <1>4 DEF Sweeping, SweepNext, SweepStep, StartSweep, ClaimThrows, ReadBalance,
     Broadcast, NotifyCompleted, SweepThrows

\* The sweep worker keeps the inductive invariant.
LEMMA SweepInvStep ==
  ASSUME IInv, Sweeping
  PROVE  IInv'
<1>1. KeepsVerdicts /\ AcceptedStay /\ KeepsTxs /\ deposit' = deposit
  BY SweepKeeps, VerdictsKeptAcceptedStay
<1>2. watcher' = watcher /\ rec' = rec
  BY DEF Sweeping, SweepFrame, watcherVars, recoveryVars
<1> QED
  BY <1>1, <1>2, SweepTypeStep, MaturityKept, SweepKeepsJobs, SweepKeepsTxs, SweepKeepsSweeps,
     SweepKeepsRows, WatcherKept, RecoveryKept DEF IInv

-----------------------------------------------------------------------------
(* The block watcher keeps the invariant.                                     *)

\* AddJob creates a job of p's and touches no other.
LEMMA AddJobKeeps ==
  ASSUME QueueTypeOK, JobsAreAccepted, NEW p \in Payment, AddJob(p), AcceptedStay,
         PastConfirmation(p), sweep' = sweep
  PROVE  /\ JobsAreAccepted'
         /\ \A j \in Job : sweep[j].pc # "idle" => queue'[j].pay = queue[j].pay
<1>1. PICK j \in Job : /\ ~Live(j)
                       /\ queue' = [queue EXCEPT ![j] = [state |-> "waiting", pay |-> p,
                                         left |-> MaxAttempts, stalled |-> FALSE]]
  BY DEF AddJob
<1>2. sweep[j].pc = "idle"
  BY <1>1 DEF JobsAreAccepted, Live
<1> QED
  BY <1>1, <1>2 DEF JobsAreAccepted, AcceptedStay, Live, Pay, QueueTypeOK

\* The watcher keeps accepted payments accepted, and accepts mature deposits only.
LEMMA WatcherKeeps ==
  ASSUME IInv, Watching
  PROVE  /\ AcceptedStay /\ AcceptedIsMature' /\ WatcherIsCurrent'
<1> USE DEF chainVars, storeVars, rowVars, queueVars, At, Phase, OnPayment
<1>t. /\ StoreTypeOK /\ WatcherTypeOK /\ AcceptedIsMature /\ WatcherIsCurrent /\ deposit' = deposit
  BY DEF IInv, TypeOK, Watching
<1> SUFFICES AcceptedStay /\ AcceptedIsMature' /\ WatcherIsCurrent'
  OBVIOUS
<1> USE <1>t DEF AcceptedStay, AcceptedIsMature, WatcherIsCurrent, PastConfirmation
<1>1. CASE ReadOverdue
  BY <1>1 DEF ReadOverdue, Overdue
<1>2. CASE ExpireStuck
  BY <1>2 DEF ExpireStuck, StoreTypeOK, WatcherTypeOK
<1>3. CASE ReadLost
  BY <1>3 DEF ReadLost, Lost, Unswept
<1>4. CASE ReadPending
  BY <1>4 DEF ReadPending
<1>5. CASE QueueConfirmed
  BY <1>5 DEF QueueConfirmed
<1>6. CASE ConfirmedUnannounced \/ ScanWallets \/ DetectedUnannounced \/ EndScan \/ ScanThrows
  BY <1>6 DEF ConfirmedUnannounced, ScanWallets, DetectedUnannounced, EndScan, ScanThrows
<1>7. CASE QueueSweep
  BY <1>7 DEF QueueSweep
<1>8. CASE QueueDetected
  BY <1>8 DEF QueueDetected
<1>9. ASSUME NEW p \in Payment, QueueFailed(p) PROVE AcceptedStay /\ AcceptedIsMature' /\ WatcherIsCurrent'
  BY <1>9 DEF QueueFailed
<1>10. ASSUME NEW p \in Payment, Requeue(p) PROVE AcceptedStay /\ AcceptedIsMature' /\ WatcherIsCurrent'
  BY <1>10 DEF Requeue
<1>11. ASSUME NEW p \in Payment, Confirm(p) PROVE AcceptedStay /\ AcceptedIsMature' /\ WatcherIsCurrent'
  BY <1>11 DEF Confirm, EnoughConfirmations, SetStatus, StoreTypeOK, WatcherTypeOK
<1>12. ASSUME NEW p \in Payment, SkipCheck(p) PROVE AcceptedStay /\ AcceptedIsMature' /\ WatcherIsCurrent'
  BY <1>12 DEF SkipCheck
<1>13. ASSUME NEW p \in Payment, DetectDeposit(p) PROVE AcceptedStay /\ AcceptedIsMature' /\ WatcherIsCurrent'
  BY <1>13 DEF DetectDeposit, SetStatus, StoreTypeOK, WatcherTypeOK
<1>14. CASE SweepRefused
  BY <1>14 DEF SweepRefused
<1>15. ASSUME NEW p \in Payment, RequeueRefused(p) PROVE AcceptedStay /\ AcceptedIsMature' /\ WatcherIsCurrent'
  BY <1>15 DEF RequeueRefused
<1> QED
  BY <1>1, <1>2, <1>3, <1>4, <1>5, <1>6, <1>7, <1>8, <1>9, <1>10, <1>11, <1>12, <1>13, <1>14,
     <1>15
  DEF Watching, WatcherStep

\* The watcher queues jobs for accepted payments only.
LEMMA WatcherKeepsJobs ==
  ASSUME IInv, Watching
  PROVE  JobsAreAccepted' /\ SweepsAreBacked'
<1> USE DEF chainVars, storeVars, rowVars, queueVars
<1>t. /\ QueueTypeOK /\ WatcherTypeOK /\ JobsAreAccepted /\ SweepsAreBacked /\ WatcherIsCurrent
      /\ sweep' = sweep
  BY DEF IInv, TypeOK, StoreTypeOK, QueueTypeOK, Watching
<1>a. AcceptedStay /\ KeepsTxs
  BY WatcherKeeps, UnchangedKeepsTxs DEF Watching
<1>1. CASE queue' = queue
  BY <1>1, <1>t, <1>a, JobsKept, SweepsKept
<1>2. CASE QueueSweep
  <2>1. AddJob(watcher.cur) /\ watcher.cur \in Payment /\ PastConfirmation(watcher.cur)
    BY <1>2, <1>t DEF QueueSweep, At, WatcherIsCurrent
  <2> QED
    BY <2>1, <1>t, <1>a, AddJobKeeps, SweepsKept
<1>3. ASSUME NEW p \in Payment, Requeue(p) PROVE JobsAreAccepted' /\ SweepsAreBacked'
  <2>1. AddJob(p) /\ PastConfirmation(p)
    BY <1>3, <1>t DEF Requeue, At, WatcherIsCurrent
  <2> QED
    BY <2>1, <1>t, <1>a, AddJobKeeps, SweepsKept
<1> QED
  BY <1>1, <1>2, <1>3
  DEF Watching, WatcherStep, ReadOverdue, ExpireStuck, ReadLost, ReadPending, QueueConfirmed,
      ConfirmedUnannounced, SweepRefused, RefuseJob, ScanWallets, QueueDetected,
      DetectedUnannounced, EndScan, ScanThrows, QueueFailed, RequeueRefused, Confirm, SkipCheck,
      DetectDeposit

\* The watcher completes no row and writes no hash.
LEMMA WatcherKeepsRows ==
  ASSUME IInv, Watching
  PROVE  RowsAreBacked'
<1> USE DEF chainVars, storeVars, rowVars, queueVars
<1>t. /\ StoreTypeOK /\ RowsAreBacked /\ txs' = txs
  BY DEF IInv, TypeOK, Watching
<1>1. sweepTx' = sweepTx
  BY DEF Watching, WatcherStep, ReadOverdue, ExpireStuck, ReadLost, ReadPending, QueueConfirmed,
      ConfirmedUnannounced, QueueSweep, SweepRefused, ScanWallets, QueueDetected,
      DetectedUnannounced, EndScan,
      ScanThrows, QueueFailed, Requeue, RequeueRefused, RefuseJob, Confirm, SkipCheck, DetectDeposit
<1>2. \A p \in Payment : status'[p] = "COMPLETED" => status[p] = "COMPLETED"
  BY <1>t DEF Watching, WatcherStep, ReadOverdue, ExpireStuck, ReadLost, ReadPending, QueueConfirmed,
      ConfirmedUnannounced, QueueSweep, SweepRefused, ScanWallets, QueueDetected,
      DetectedUnannounced, EndScan,
      ScanThrows, QueueFailed, Requeue, RequeueRefused, RefuseJob, Confirm, SkipCheck, DetectDeposit, SetStatus, StoreTypeOK
<1> QED
  BY <1>t, <1>1, <1>2 DEF RowsAreBacked, Backs

\* The block watcher keeps the inductive invariant.
LEMMA WatcherInvStep ==
  ASSUME IInv, Watching
  PROVE  IInv'
<1>1. AcceptedStay /\ KeepsTxs /\ txs' = txs /\ rec' = rec
  BY WatcherKeeps, UnchangedKeepsTxs DEF Watching, chainVars, recoveryVars
<1>2. TypeOK' /\ TypeOK /\ ChainTypeOK
  BY WatcherTypeStep DEF IInv, TypeOK
<1> QED
  BY <1>1, <1>2, WatcherKeeps, WatcherKeepsJobs, WatcherKeepsRows, TxsKept, RecoveryKept DEF IInv

-----------------------------------------------------------------------------
(* The recovery keeps the invariant.                                          *)

\* The recovery moves no verdict, no deposit and no transaction.
LEMMA RecoveryKeeps ==
  ASSUME IInv, Recovering
  PROVE  KeepsVerdicts /\ txs' = txs /\ deposit' = deposit
<1> USE DEF chainVars, storeVars, rowVars, queueVars
<1>t. StoreTypeOK /\ RecoveryIsAccepted
  BY DEF IInv, TypeOK
<1>0. txs' = txs /\ deposit' = deposit
  BY DEF Recovering, RecoveryStep, Boot, ReadStuck, RecoverCompleted, ResetToConfirmed,
     RequeueRecovered, RecoveredRefused, RefuseJob, RecoveryThrows, EndRecovery, Lookup
<1>1. CASE status' = status
  BY <1>0, <1>1, UnchangedKeepsVerdicts
<1>2. ASSUME NEW r \in Recoverer, RecoverCompleted(r) \/ ResetToConfirmed(r) PROVE KeepsVerdicts
  <2>1. rec[r].cur \in Payment /\ PastConfirmation(rec[r].cur)
    BY <1>2, <1>t DEF RecoverCompleted, ResetToConfirmed, RecoveryIsAccepted
  <2> QED
    BY <1>2, <1>t, <2>1 DEF RecoverCompleted, ResetToConfirmed, CompleteRow, SetStatus, KeepsVerdicts,
       PastConfirmation, StoreTypeOK
<1> QED
  BY <1>0, <1>1, <1>2 DEF Recovering, RecoveryStep, Boot, ReadStuck, RequeueRecovered,
     RecoveredRefused, RefuseJob, RecoveryThrows, EndRecovery, Lookup

\* The recovery queues jobs for accepted payments only.
LEMMA RecoveryKeepsJobs ==
  ASSUME IInv, Recovering
  PROVE  JobsAreAccepted' /\ SweepsAreBacked'
<1> USE DEF chainVars, storeVars, rowVars, queueVars
<1>t. /\ QueueTypeOK /\ JobsAreAccepted /\ SweepsAreBacked /\ RecoveryIsAccepted /\ sweep' = sweep
  BY DEF IInv, TypeOK, StoreTypeOK, QueueTypeOK, Recovering, RecoveryFrame
<1>a. AcceptedStay /\ KeepsTxs
  BY RecoveryKeeps, VerdictsKeptAcceptedStay, UnchangedKeepsTxs
<1>1. CASE queue' = queue
  BY <1>1, <1>t, <1>a, JobsKept, SweepsKept
<1>2. ASSUME NEW r \in Recoverer, RequeueRecovered(r) PROVE JobsAreAccepted' /\ SweepsAreBacked'
  <2>1. AddJob(rec[r].cur) /\ rec[r].cur \in Payment /\ PastConfirmation(rec[r].cur)
    BY <1>2, <1>t DEF RequeueRecovered, RecoveryIsAccepted
  <2> QED
    BY <2>1, <1>t, <1>a, AddJobKeeps, SweepsKept
<1> QED
  BY <1>1, <1>2 DEF Recovering, RecoveryStep, Boot, ReadStuck, RecoverCompleted, ResetToConfirmed,
     RecoveredRefused, RefuseJob, RecoveryThrows, EndRecovery, Lookup

\* The recovery keeps RowsAreBacked: it completes with a hash of the payment.
LEMMA RecoveryKeepsRows ==
  ASSUME IInv, Recovering
  PROVE  RowsAreBacked'
<1> USE DEF chainVars, storeVars, rowVars, queueVars
<1>t. /\ StoreTypeOK /\ RowsAreBacked /\ RecoveryIsAccepted /\ txs' = txs
  BY RecoveryKeeps DEF IInv, TypeOK
<1>1. CASE UNCHANGED <<status, sweepTx>>
  BY <1>1, <1>t, RowsKept, UnchangedKeepsTxs
<1>2. ASSUME NEW r \in Recoverer, RecoverCompleted(r) PROVE RowsAreBacked'
  <2>1. rec[r].cur \in Payment /\ Backs(rec[r].seen[rec[r].cur], rec[r].cur)
        /\ rec[r].seen[rec[r].cur] # NoTx
    BY <1>2, <1>t DEF RecoverCompleted, RecoveryIsAccepted
  <2> QED
    BY <1>2, <1>t, <2>1 DEF RecoverCompleted, CompleteRow, SetStatus, RowsAreBacked, Backs, StoreTypeOK
<1>3. ASSUME NEW r \in Recoverer, ResetToConfirmed(r) PROVE RowsAreBacked'
  BY <1>3, <1>t DEF ResetToConfirmed, SetStatus, RowsAreBacked, Backs, StoreTypeOK
<1> QED
  BY <1>1, <1>2, <1>3 DEF Recovering, RecoveryStep, Boot, ReadStuck, RequeueRecovered,
     RecoveredRefused, RefuseJob, RecoveryThrows, EndRecovery, Lookup

\* The recovery keeps RecoveryIsAccepted.
LEMMA RecoveryKeepsSnapshots ==
  ASSUME IInv, Recovering
  PROVE  RecoveryIsAccepted'
<1> USE DEF chainVars, storeVars, rowVars, queueVars
<1>t. /\ TypeOK /\ StoreTypeOK /\ RecoveryTypeOK /\ RowsAreBacked /\ RecoveryIsAccepted /\ txs' = txs
      /\ AcceptedStay
  BY RecoveryKeeps, VerdictsKeptAcceptedStay DEF IInv, TypeOK
<1>1. CASE rec' = rec
  BY <1>1, <1>t, RecoveryKept, UnchangedKeepsTxs
<1>2. ASSUME NEW r \in Recoverer, RecoveryStep(r) PROVE RecoveryIsAccepted'
  <2> DEFINE Good(o) ==
        /\ \A p \in rec[o].todo : PastConfirmation(p)
        /\ \A p \in Payment : rec[o].seen[p] # NoTx => Backs(rec[o].seen[p], p)
        /\ rec[o].pc \in {"complete", "reset", "add"} =>
             rec[o].cur \in Payment /\ PastConfirmation(rec[o].cur)
        /\ rec[o].pc = "complete" => rec[o].seen[rec[o].cur] # NoTx
  <2>0. \A o \in Recoverer : Good(o)
    BY <1>t DEF RecoveryIsAccepted
  <2>1. \A o \in Recoverer : o # r => rec'[o] = rec[o]
    BY <1>2, <1>t DEF RecoveryStep, ReadStuck, RecoverCompleted, ResetToConfirmed, RequeueRecovered,
       RecoveredRefused, RefuseJob, RecoveryThrows, EndRecovery, Lookup, GoesOn, Takes, RecoveryTypeOK
  <2>2. \A o \in Recoverer : o # r => Good(o)'
    BY <2>0, <2>1, <1>t DEF AcceptedStay, Backs, RecoveryTypeOK
  <2>3. Good(r)'
    <3>1. CASE ReadStuck(r)
      BY <3>1, <1>t DEF ReadStuck, Stuck, PastConfirmation, RecoveryTypeOK, RowsAreBacked, Backs, StoreTypeOK
    <3>2. CASE \/ RecoverCompleted(r) \/ RequeueRecovered(r) \/ RecoveredRefused(r)
               \/ RecoveryThrows(r)
      <4>1. GoesOn(r)
        BY <3>2 DEF RecoverCompleted, RequeueRecovered, RecoveredRefused, RefuseJob, RecoveryThrows
      <4>2. rec'[r].pc = "loop" /\ rec'[r].todo = rec[r].todo /\ rec'[r].seen = rec[r].seen
        BY <4>1, <1>t DEF GoesOn, RecoveryTypeOK
      <4> QED
        BY <2>0, <4>2, <1>t DEF AcceptedStay, Backs, RecoveryTypeOK
    <3>3. CASE ResetToConfirmed(r)
      BY <2>0, <3>3, <1>t DEF ResetToConfirmed, AcceptedStay, Backs, RecoveryTypeOK
    <3>4. CASE EndRecovery(r)
      BY <3>4, <1>t DEF EndRecovery, IdleRecovery, NothingSeen, RecoveryTypeOK
    <3>5. ASSUME NEW p \in Payment, Lookup(r, p) PROVE Good(r)'
      <4>1. PICK pc \in {"complete", "reset"} :
              Takes(r, p, pc) /\ (pc = "complete" => SweepSucceeded(r, p))
        BY <3>5 DEF Lookup
      <4>2. /\ rec'[r].pc = pc /\ rec'[r].cur = p
            /\ rec'[r].todo = rec[r].todo \ {p} /\ rec'[r].seen = rec[r].seen
        BY <4>1, <1>t, TakesPayment DEF RecoveryPc
      <4> QED
        BY <2>0, <3>5, <4>1, <4>2, <1>t
           DEF Lookup, SweepSucceeded, AcceptedStay, Backs, RecoveryTypeOK
    <3> QED
      BY <1>2, <3>1, <3>2, <3>3, <3>4, <3>5 DEF RecoveryStep
  <2> QED
    BY <2>2, <2>3 DEF RecoveryIsAccepted
<1> QED
  BY <1>1, <1>2 DEF Recovering, Boot

\* recoverStuckSweeps keeps the inductive invariant.
LEMMA RecoveryInvStep ==
  ASSUME IInv, Recovering
  PROVE  IInv'
<1>1. AcceptedStay /\ KeepsTxs /\ KeepsVerdicts /\ txs' = txs /\ deposit' = deposit /\ watcher' = watcher
  BY RecoveryKeeps, VerdictsKeptAcceptedStay, UnchangedKeepsTxs DEF Recovering, RecoveryFrame, watcherVars
<1>2. TypeOK' /\ TypeOK /\ ChainTypeOK
  BY RecoveryTypeStep DEF IInv, TypeOK
<1> QED
  BY <1>1, <1>2, MaturityKept, RecoveryKeepsJobs, TxsKept, RecoveryKeepsRows, WatcherKept,
     RecoveryKeepsSnapshots DEF IInv

-----------------------------------------------------------------------------
(* The chain, the clock and a crash keep the invariant.                       *)

\* The chain never takes a mature deposit or a success back.
LEMMA EnvironmentKeeps ==
  ASSUME IInv, Environment
  PROVE  KeepsTxs /\ TxsAreAccepted' /\ AcceptedIsMature' /\ UNCHANGED <<status, sweepTx, queue>>
<1> USE DEF chainVars, storeVars
<1>t. ChainTypeOK /\ TxsAreAccepted /\ AcceptedIsMature
  BY DEF IInv, TypeOK
<1> USE DEF PastConfirmation, AcceptedIsMature
<1>1. ASSUME NEW p \in Payment, Blocks(p)
      PROVE  KeepsTxs /\ TxsAreAccepted' /\ AcceptedIsMature' /\ UNCHANGED <<status, sweepTx, queue>>
  <2>1. UNCHANGED <<txs, status, sweepTx, queue>>
    BY <1>1 DEF Blocks, Land, Mature, Orphan
  <2>2. AcceptedIsMature'
    BY <1>1, <1>t, <2>1 DEF Blocks, Land, Mature, Orphan, ChainTypeOK
  <2> QED
    BY <2>1, <2>2, <1>t, UnchangedKeepsTxs DEF TxsAreAccepted
<1>2. ASSUME NEW p \in Payment, Ages(p)
      PROVE  KeepsTxs /\ TxsAreAccepted' /\ AcceptedIsMature' /\ UNCHANGED <<status, sweepTx, queue>>
  BY <1>2, <1>t, UnchangedKeepsTxs DEF Ages, Age, TxsAreAccepted
<1>3. ASSUME NEW t \in Tx, Settles(t)
      PROVE  KeepsTxs /\ TxsAreAccepted' /\ AcceptedIsMature' /\ UNCHANGED <<status, sweepTx, queue>>
  <2>1. UNCHANGED <<deposit, status, sweepTx, queue>> /\ txs[t].state = "pending"
    BY <1>3 DEF Settles, Settle
  <2>2. PICK s \in {"success", "failed"} : txs' = [txs EXCEPT ![t].state = s]
    BY <1>3 DEF Settles, Settle
  <2> QED
    BY <2>1, <2>2, <1>t DEF KeepsTxs, TxsAreAccepted, ChainTypeOK
<1> QED
  BY <1>1, <1>2, <1>3 DEF Environment

\* The chain and the clock keep the inductive invariant.
LEMMA EnvironmentInvStep ==
  ASSUME IInv, Environment
  PROVE  IInv'
<1>1. UNCHANGED <<sweep, watcher, rec>>
  BY DEF Environment, Blocks, Ages, Settles, EnvironmentFrame, watcherVars, recoveryVars
<1>2. KeepsVerdicts /\ AcceptedStay
  BY EnvironmentKeeps, UnchangedKeepsVerdicts, VerdictsKeptAcceptedStay
<1>3. TypeOK' /\ TypeOK
  BY EnvironmentTypeStep DEF IInv
<1>4. queue' = queue /\ sweep' = sweep
  BY <1>1, EnvironmentKeeps
<1> QED
  BY <1>1, <1>2, <1>3, <1>4, EnvironmentKeeps, JobsKept, SweepsKept, RowsKept, WatcherKept, RecoveryKept DEF IInv

\* A crash and restart keep the inductive invariant.
LEMMA CrashInvStep ==
  ASSUME IInv, Crash
  PROVE  IInv'
<1>1. UNCHANGED <<deposit, bal, txs, status, sweepTx, aged, events>>
  BY DEF Crash, chainVars, rowVars
<1>2. KeepsVerdicts /\ AcceptedStay /\ KeepsTxs
  BY <1>1, UnchangedKeepsVerdicts, VerdictsKeptAcceptedStay, UnchangedKeepsTxs
<1>3. JobsAreAccepted'
  <2>1. \A j \in Job : queue'[j].state # "free" =>
          queue[j].state # "free" /\ queue'[j].pay = queue[j].pay
    BY DEF Crash, StallJobs, FreeSlot, Active, IInv, TypeOK, StoreTypeOK
  <2> QED
    BY <1>2, <2>1 DEF Crash, SweepCrash, IdleSweep, IInv, JobsAreAccepted, AcceptedStay, Live, Pay
<1>4. SweepsAreBacked'
  BY DEF Crash, SweepCrash, IdleSweep, SweepsAreBacked
<1>5. WatcherIsCurrent'
  BY DEF Crash, WatcherCrash, IdleWatcher, WatcherIsCurrent
<1>6. RecoveryIsAccepted'
  BY DEF Crash, RecoveryCrash, IdleRecovery, NothingSeen, RecoveryIsAccepted
<1>7. TypeOK' /\ ChainTypeOK
  BY CrashTypeStep DEF IInv, TypeOK
<1> QED
  BY <1>1, <1>2, <1>3, <1>4, <1>5, <1>6, <1>7, MaturityKept, TxsKept, RowsKept DEF IInv

-----------------------------------------------------------------------------
(* The invariant.                                                             *)

\* The inductive invariant holds initially.
LEMMA InitIInv == Init => IInv
<1> SUFFICES ASSUME Init PROVE IInv
  OBVIOUS
<1>1. TypeOK
  BY InitTypeOK
<1>2. AcceptedIsMature /\ JobsAreAccepted
  BY DEF Init, StoreInit, SweepInit, AcceptedIsMature, JobsAreAccepted, PastConfirmation,
     Live, FreeSlot, IdleSweep
<1>3. TxsAreAccepted /\ SweepsAreBacked /\ RowsAreBacked
  BY DEF Init, ChainInit, StoreInit, SweepInit, TxsAreAccepted, SweepsAreBacked, RowsAreBacked, IdleSweep
<1>4. WatcherIsCurrent /\ RecoveryIsAccepted
  BY DEF Init, WatcherInit, RecoveryInit, IdleWatcher, IdleRecovery, NothingSeen,
     WatcherIsCurrent, RecoveryIsAccepted
<1> QED
  BY <1>1, <1>2, <1>3, <1>4 DEF IInv

\* A stuttering step keeps the inductive invariant.
LEMMA StutterIInv ==
  ASSUME IInv, UNCHANGED vars
  PROVE  IInv'
<1> USE DEF vars, chainVars, storeVars, rowVars, watcherVars, recoveryVars
<1>1. TypeOK'
  BY DEF IInv, TypeOK, ChainTypeOK, StoreTypeOK, SweepTypeOK, WatcherTypeOK, RecoveryTypeOK
<1>2. KeepsVerdicts /\ AcceptedStay /\ KeepsTxs
  BY UnchangedKeepsVerdicts, VerdictsKeptAcceptedStay, UnchangedKeepsTxs
<1> QED
  BY <1>1, <1>2, MaturityKept, JobsKept, TxsKept, SweepsKept, RowsKept, WatcherKept, RecoveryKept
  DEF IInv, TypeOK

\* Every step keeps the inductive invariant.
LEMMA NextIInv == IInv /\ [Next]_vars => IInv'
  BY SweepInvStep, WatcherInvStep, RecoveryInvStep, EnvironmentInvStep, CrashInvStep, StutterIInv
  DEF Next

\* The inductive invariant holds in every reachable state.
LEMMA AlwaysIInv == Spec => []IInv
  BY InitIInv, NextIInv, PTL DEF Spec

\* Every reachable state is well typed: rows, events, jobs, hashes and the
\* locals of every component (all modules of the pipeline).
THEOREM TypeCorrect == Spec => []TypeOK
<1>1. IInv => TypeOK
  BY DEF IInv
<1> QED
  BY <1>1, AlwaysIInv, PTL

\* No sweep is ever broadcast for a deposit the chain has not confirmed
\* (checkConfirmations, requeeLostSweeps, recoverStuckSweeps, sweepPayment).
THEOREM NothingSweptUnconfirmed == Spec => []SweptOnlyIfMature
<1>1. IInv => SweptOnlyIfMature
  BY DEF IInv, TypeOK, ChainTypeOK, SweptOnlyIfMature, AcceptedIsMature, TxsAreAccepted, Broadcasted
<1> QED
  BY <1>1, AlwaysIInv, PTL

\* A COMPLETED row always names a transaction broadcast for its own payment, and
\* a successful one where sendTransaction waits (sweepPayment, onSweepCompleted).
THEOREM CompletionIsBacked == Spec => []CompletionBacked
<1>1. IInv => CompletionBacked
  BY DEF IInv, CompletionBacked, RowsAreBacked, Backs
<1> QED
  BY <1>1, AlwaysIInv, PTL

-----------------------------------------------------------------------------
(* The pipeline implements PaymentVerdict.                                    *)

\* A step that moves no verdict, matures nothing, sweeps and tells nothing new.
LEMMA PromiseStutter ==
  ASSUME KeepsVerdicts, UNCHANGED <<deposit, events>>, Broadcasted' = Broadcasted
  PROVE  UNCHANGED Promise!vars
<1>1. \A p \in Payment : Verdict(p)' = Verdict(p)
  BY DEF KeepsVerdicts, PastConfirmation, Verdict
<1>2. [p \in Payment |-> Verdict(p)]' = [p \in Payment |-> Verdict(p)]
  BY <1>1
<1>3. {p \in Payment : deposit[p] = "mature"}' = {p \in Payment : deposit[p] = "mature"}
  OBVIOUS
<1> QED
  BY <1>2, <1>3 DEF Promise!vars

\* The initial states are initial states of the promise.
LEMMA PromiseInit == Init => Promise!Init
<1> SUFFICES ASSUME Init PROVE Promise!Init
  OBVIOUS
<1>1. [p \in Payment |-> Verdict(p)] = [p \in Payment |-> "open"]
  BY DEF Init, StoreInit, Verdict
<1>2. {p \in Payment : deposit[p] = "mature"} = {}
  BY DEF Init, ChainInit
<1>3. Broadcasted = {}
  BY DEF Init, ChainInit, Broadcasted
<1>4. events = [p \in Payment |-> {}]
  BY DEF Init, StoreInit
<1> QED
  BY <1>1, <1>2, <1>3, <1>4 DEF Promise!Init

\* Queueing one true webhook and nothing else is a Tell of the promise.
LEMMA PromiseTell ==
  ASSUME StoreTypeOK, NEW p \in Payment, NEW e \in EventType, QueueWebhook(p, e),
         Promise!MayTell(p, e), UNCHANGED <<status, deposit, txs>>
  PROVE  Promise!Next
<1>1. UNCHANGED <<[q \in Payment |-> Verdict(q)], {q \in Payment : deposit[q] = "mature"}, Broadcasted>>
  BY DEF Verdict, Broadcasted
<1>2. Promise!Tell(p, e)
  BY <1>1 DEF Promise!Tell, QueueWebhook
<1> QED
  BY <1>2 DEF Promise!Next, Promise!Event

\* Every step of the sweep worker is a Sweep, a Tell or a stutter.
LEMMA PromiseSweeping ==
  ASSUME IInv, Sweeping
  PROVE  [Promise!Next]_(Promise!vars)
<1> USE DEF chainVars, storeVars, rowVars, queueVars
<1>t. /\ StoreTypeOK /\ ChainTypeOK /\ JobsAreAccepted /\ SweepsAreBacked /\ TxsAreAccepted
      /\ KeepsVerdicts /\ deposit' = deposit
  BY SweepKeeps DEF IInv, TypeOK
<1>1. CASE UNCHANGED <<txs, events>>
  BY <1>1, <1>t, PromiseStutter DEF Broadcasted
<1>2. ASSUME NEW j \in Job, Broadcast(j) PROVE Promise!Next
  <2>1. Pay(j) \in Payment /\ PastConfirmation(Pay(j))
    BY <1>2, <1>t DEF Broadcast, JobsAreAccepted, Live
  <2>2. PICK t \in Tx : Send(Pay(j), t, sweep[j].amt)
    BY <1>2 DEF Broadcast
  <2>3. txs[t].by = NoPayment
    BY <2>2, <1>t DEF Send, TxsAreAccepted
  <2>4. Broadcasted' = Broadcasted \cup {Pay(j)}
    <3>1. txs'[t].by = Pay(j) /\ \A u \in Tx \ {t} : txs'[u] = txs[u]
      BY <2>2, <1>t DEF Send, ChainTypeOK
    <3>2. Pay(j) # NoPayment
      BY <2>1, NullAssumption
    <3> QED
      BY <2>3, <3>1, <3>2 DEF Broadcasted
  <2>5. UNCHANGED <<[p \in Payment |-> Verdict(p)], {p \in Payment : deposit[p] = "mature"}, events>>
    BY <1>2, <1>t DEF Broadcast, Verdict
  <2>6. [p \in Payment |-> Verdict(p)][Pay(j)] = "accepted"
    BY <2>1 DEF Verdict, PastConfirmation
  <2>7. Promise!Sweep(Pay(j))
    BY <2>4, <2>5, <2>6 DEF Promise!Sweep
  <2> QED
    BY <2>1, <2>7 DEF Promise!Next
<1>3. ASSUME NEW j \in Job, NotifyCompleted(j) PROVE Promise!Next
  <2>1. Pay(j) \in Payment /\ Pay(j) \in Broadcasted
    BY <1>3, <1>t DEF NotifyCompleted, JobsAreAccepted, SweepsAreBacked, Live
  <2>2. Promise!MayTell(Pay(j), "PAYMENT_COMPLETED")
    BY <2>1 DEF Promise!MayTell
  <2> QED
    BY <1>3, <1>t, <2>1, <2>2, PromiseTell DEF NotifyCompleted
<1> QED
  BY <1>1, <1>2, <1>3 DEF Sweeping, SweepNext, SweepStep, StartSweep, ClaimThrows, ReadBalance,
     RecordTx, Complete, SweepThrows

\* Every step of the watcher is an Accept, a Reject, a Tell or a stutter.
LEMMA PromiseWatching ==
  ASSUME IInv, Watching
  PROVE  [Promise!Next]_(Promise!vars)
<1> USE DEF chainVars, storeVars, rowVars, queueVars, At, Phase, OnPayment
<1>t. /\ StoreTypeOK /\ WatcherTypeOK /\ WatcherIsCurrent /\ UNCHANGED <<deposit, txs>>
  BY DEF IInv, TypeOK, Watching
<1>b. Broadcasted' = Broadcasted
  BY <1>t DEF Broadcasted
<1>m. {p \in Payment : deposit[p] = "mature"}' = {p \in Payment : deposit[p] = "mature"}
  BY <1>t
<1>1. CASE UNCHANGED <<status, events>>
  BY <1>1, <1>t, <1>b, UnchangedKeepsVerdicts, PromiseStutter
<1>2. CASE ExpireStuck
  <2>1. watcher.todo \in SUBSET Payment
    BY <1>t DEF WatcherTypeOK
  <2>2. \A p \in watcher.todo : [q \in Payment |-> Verdict(q)][p] = "open"
    BY <1>2, <1>t, <2>1 DEF ExpireStuck, WatcherIsCurrent, Verdict
  <2>3. [p \in Payment |-> Verdict(p)]' =
          [p \in Payment |-> IF p \in watcher.todo THEN "rejected" ELSE [q \in Payment |-> Verdict(q)][p]]
    <3>1. \A p \in Payment :
            Verdict(p)' = IF p \in watcher.todo THEN "rejected" ELSE Verdict(p)
      BY <1>2, <1>t DEF ExpireStuck, Verdict, StoreTypeOK
    <3> QED
      BY <3>1
  <2>4. events' = events
    BY <1>2 DEF ExpireStuck
  <2>5. Promise!Reject(watcher.todo)
    BY <2>2, <2>3, <2>4, <1>b, <1>m DEF Promise!Reject
  <2> QED
    BY <2>1, <2>5 DEF Promise!Next
<1>3. ASSUME NEW p \in Payment, QueueFailed(p) PROVE Promise!Next
  <2>1. status[p] = "FAILED"
    BY <1>3, <1>t DEF QueueFailed, WatcherIsCurrent
  <2>2. Promise!MayTell(p, "PAYMENT_FAILED")
    BY <2>1 DEF Promise!MayTell, Verdict
  <2> QED
    BY <1>3, <1>t, <2>2, PromiseTell DEF QueueFailed
<1>4. ASSUME NEW p \in Payment, Confirm(p) PROVE Promise!Next
  <2>1. status[p] = "DETECTED" /\ p \in {q \in Payment : deposit[q] = "mature"}
    BY <1>4, <1>t DEF Confirm, EnoughConfirmations, WatcherIsCurrent
  <2>2. [q \in Payment |-> Verdict(q)]' = [[q \in Payment |-> Verdict(q)] EXCEPT ![p] = "accepted"]
    <3>1. \A q \in Payment : Verdict(q)' = IF q = p THEN "accepted" ELSE Verdict(q)
      BY <1>4, <1>t DEF Confirm, SetStatus, Verdict, StoreTypeOK
    <3> QED
      BY <3>1
  <2>3. [q \in Payment |-> Verdict(q)][p] = "open"
    BY <2>1 DEF Verdict
  <2>4. events' = events
    BY <1>4 DEF Confirm
  <2>5. Promise!Accept(p)
    BY <2>1, <2>2, <2>3, <2>4, <1>b, <1>m DEF Promise!Accept
  <2> QED
    BY <2>5 DEF Promise!Next
<1>5. CASE QueueConfirmed
  <2>1. watcher.cur \in Payment /\ PastConfirmation(watcher.cur)
    BY <1>5, <1>t DEF QueueConfirmed, WatcherIsCurrent
  <2>2. Promise!MayTell(watcher.cur, "PAYMENT_CONFIRMED")
    BY <2>1 DEF Promise!MayTell, Verdict, PastConfirmation
  <2> QED
    BY <1>5, <1>t, <2>1, <2>2, PromiseTell DEF QueueConfirmed
<1>6. CASE QueueDetected
  <2>1. watcher.cur \in Payment
    BY <1>6, <1>t DEF QueueDetected, WatcherIsCurrent
  <2>2. Promise!MayTell(watcher.cur, "PAYMENT_DETECTED")
    BY DEF Promise!MayTell
  <2> QED
    BY <1>6, <1>t, <2>1, <2>2, PromiseTell DEF QueueDetected
<1>7. ASSUME NEW p \in Payment, DetectDeposit(p) PROVE UNCHANGED Promise!vars
  <2>1. \A q \in Payment : Verdict(q)' = Verdict(q)
    BY <1>7, <1>t DEF DetectDeposit, SetStatus, Verdict, StoreTypeOK
  <2>2. [q \in Payment |-> Verdict(q)]' = [q \in Payment |-> Verdict(q)]
    BY <2>1
  <2>3. events' = events
    BY <1>7 DEF DetectDeposit
  <2> QED
    BY <2>2, <2>3, <1>b, <1>m DEF Promise!vars
<1> QED
  BY <1>1, <1>2, <1>3, <1>4, <1>5, <1>6, <1>7 DEF Watching, WatcherStep, ReadOverdue, ReadLost,
     ReadPending, ConfirmedUnannounced, QueueSweep, SweepRefused, ScanWallets, DetectedUnannounced, EndScan,
     ScanThrows, Requeue, RequeueRefused, RefuseJob, SkipCheck

\* Every step of the recovery is a stutter.
LEMMA PromiseRecovering ==
  ASSUME IInv, Recovering
  PROVE  UNCHANGED Promise!vars
<1>1. events' = events
  BY DEF Recovering, RecoveryStep, Boot, ReadStuck, RecoverCompleted, ResetToConfirmed,
     RequeueRecovered, RecoveredRefused, RefuseJob, RecoveryThrows, EndRecovery, Lookup, storeVars
<1> QED
  BY <1>1, RecoveryKeeps, PromiseStutter DEF Broadcasted

\* Every step of the chain or the clock is a Mature or a stutter.
LEMMA PromiseEnvironment ==
  ASSUME IInv, Environment
  PROVE  [Promise!Next]_(Promise!vars)
<1> USE DEF storeVars, chainVars
<1>t. ChainTypeOK
  BY DEF IInv, TypeOK
<1>s. KeepsVerdicts
  BY EnvironmentKeeps, UnchangedKeepsVerdicts
<1>1. ASSUME NEW p \in Payment, Blocks(p), ~Mature(p) PROVE UNCHANGED Promise!vars
  <2>1. UNCHANGED <<status, txs, events>>
    BY <1>1 DEF Blocks, Land, Orphan
  <2>2. {q \in Payment : deposit[q] = "mature"}' = {q \in Payment : deposit[q] = "mature"}
    BY <1>1, <1>t DEF Blocks, Land, Orphan, ChainTypeOK
  <2>3. UNCHANGED <<[q \in Payment |-> Verdict(q)], Broadcasted>>
    BY <2>1 DEF Verdict, Broadcasted
  <2> QED
    BY <2>1, <2>2, <2>3 DEF Promise!vars
<1>2. ASSUME NEW p \in Payment, Blocks(p), Mature(p) PROVE Promise!Next
  <2>1. UNCHANGED <<status, txs, events>>
    BY <1>2 DEF Blocks, Mature
  <2>2. {q \in Payment : deposit[q] = "mature"}' = {q \in Payment : deposit[q] = "mature"} \cup {p}
    BY <1>2, <1>t DEF Mature, ChainTypeOK
  <2>3. UNCHANGED <<[q \in Payment |-> Verdict(q)], Broadcasted>>
    BY <2>1 DEF Verdict, Broadcasted
  <2>4. Promise!Mature(p)
    BY <2>1, <2>2, <2>3 DEF Promise!Mature
  <2> QED
    BY <2>4 DEF Promise!Next
<1>3. ASSUME NEW p \in Payment, Ages(p) PROVE UNCHANGED Promise!vars
  BY <1>3, <1>s, PromiseStutter DEF Ages, Age, Broadcasted
<1>4. ASSUME NEW t \in Tx, Settles(t) PROVE UNCHANGED Promise!vars
  <2>1. UNCHANGED <<deposit, events>>
    BY <1>4 DEF Settles, Settle
  <2>2. \A u \in Tx : txs'[u].by = txs[u].by
    BY <1>4, <1>t DEF Settles, Settle, ChainTypeOK
  <2>3. Broadcasted' = Broadcasted
    BY <2>2 DEF Broadcasted
  <2> QED
    BY <1>s, <2>1, <2>3, PromiseStutter
<1> QED
  BY <1>1, <1>2, <1>3, <1>4 DEF Environment

\* A crash, or no step at all, is a stutter.
LEMMA PromiseQuiet ==
  ASSUME UNCHANGED <<status, deposit, txs, events>>
  PROVE  UNCHANGED Promise!vars
  BY UnchangedKeepsVerdicts, PromiseStutter DEF Broadcasted

\* The pipeline implements PaymentVerdict: whatever crashes, throws or overlaps,
\* verdicts are final, nothing is accepted unconfirmed or swept unaccepted, and
\* every webhook queued for a payment is true when it is queued.
THEOREM PipelineKeepsPromise == Spec => KeepsPromise
<1>1. IInv /\ [Next]_vars => [Promise!Next]_(Promise!vars)
  <2> SUFFICES ASSUME IInv, [Next]_vars PROVE [Promise!Next]_(Promise!vars)
    OBVIOUS
  <2>1. CASE UNCHANGED vars
    BY <2>1, PromiseQuiet DEF vars, chainVars, storeVars
  <2>2. CASE Crash
    BY <2>2, PromiseQuiet DEF Crash, chainVars, rowVars
  <2> QED
    BY <2>1, <2>2, PromiseSweeping, PromiseWatching, PromiseRecovering, PromiseEnvironment DEF Next
<1> QED
  BY <1>1, PromiseInit, AlwaysIInv, PTL DEF Spec, KeepsPromise, Promise!Spec
=============================================================================
