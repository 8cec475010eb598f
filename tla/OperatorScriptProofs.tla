------------------------ MODULE OperatorScriptProofs ------------------------
(* Theorems about OperatorScripts: the pipeline keeps its invariant, and its *)
(* promise, while an operator runs the scripts beside it.                    *)
EXTENDS OperatorScripts, OwnershipProofs

USE DEF PaymentStatus, EventType, JobState, DepositState, TxState, SweepPc, WatcherPc,
        RecoveryPc

\* What requeue-confirmed read was CONFIRMED, and is accepted still.
FoundIsAccepted == found \subseteq Payment /\ \A p \in found : PastConfirmation(p)

OpsInv ==
  /\ IInv
  /\ FoundIsAccepted
  /\ scriptJobs \subseteq Job
  /\ OneJobPerId

-----------------------------------------------------------------------------
(* What a step of the pipeline does to jobs.                                 *)

JobsStay == \A j \in Job : Live(j) /\ Live(j)' => Pay(j)' = Pay(j)

\* sweepQueue.add fills a slot that was free.
LEMMA AddJobStays == ASSUME QueueTypeOK, NEW p, AddJob(p) PROVE JobsStay
BY DEF AddJob, JobsStay, Live, Pay, QueueTypeOK

\* A live job that stays live is about the same payment.
LEMMA NextKeepsJobs ==
  ASSUME IInv, [Next]_vars
  PROVE  JobsStay
<1> USE DEF storeVars, queueVars
<1>t. QueueTypeOK
  BY DEF IInv, TypeOK, StoreTypeOK, QueueTypeOK
<1>0. CASE queue' = queue
  BY <1>0 DEF JobsStay, Live, Pay
<1>1. CASE Crash
  BY <1>1, <1>t DEF Crash, StallJobs, FreeSlot, JobsStay, Live, Pay, QueueTypeOK
<1>2. CASE Environment
  BY <1>0, <1>2, EnvironmentKeeps
<1>3. CASE Recovering
  <2>1. CASE queue' = queue
    BY <1>0, <2>1
  <2>2. ASSUME NEW r \in Recoverer, RequeueRecovered(r) PROVE JobsStay
    BY <1>t, <2>2, AddJobStays DEF RequeueRecovered
  <2> QED
    BY <1>3, <2>1, <2>2 DEF Recovering, RecoveryStep, Boot, ReadStuck, RecoverCompleted,
       ResetToConfirmed, RecoveredRefused, RefuseJob, RecoveryThrows, EndRecovery, Lookup
<1>4. CASE Watching
  <2>1. CASE queue' = queue
    BY <1>0, <2>1
  <2>2. CASE QueueSweep
    BY <1>t, <2>2, AddJobStays DEF QueueSweep
  <2>3. ASSUME NEW p \in Payment, Requeue(p) PROVE JobsStay
    BY <1>t, <2>3, AddJobStays DEF Requeue
  <2> QED
    BY <1>4, <2>1, <2>2, <2>3
    DEF Watching, WatcherStep, ReadOverdue, ExpireStuck, ReadLost, ReadPending, QueueConfirmed,
        ConfirmedUnannounced, SweepRefused, RefuseJob, ScanWallets, QueueDetected,
        DetectedUnannounced, EndScan, ScanThrows, QueueFailed, RequeueRefused, Confirm, SkipCheck,
        DetectDeposit, rowVars
<1>5. CASE Sweeping
  <2>1. PICK j \in Job : StartSweep(j) \/ ClaimThrows(j) \/ SweepStep(j)
    BY <1>5 DEF Sweeping, SweepNext
  <2>2. CASE StartSweep(j)
    BY <1>t, <2>2 DEF StartSweep, JobsStay, Live, Pay, QueueTypeOK
  <2>3. CASE FailJob(j)
    BY <1>t, <2>3, FailedJobGone DEF JobsStay, Live, Pay
  <2>4. CASE NotifyCompleted(j)
    BY <1>t, <2>4 DEF NotifyCompleted, FinishJob, FreeSlot, JobsStay, Live, Pay, QueueTypeOK
  <2>5. CASE queue' = queue
    BY <1>0, <2>5
  <2> QED
    BY <2>1, <2>2, <2>3, <2>4, <2>5 DEF SweepStep, ClaimThrows, SweepThrows, ReadBalance,
       Broadcast, RecordTx, Complete
<1> QED
  BY <1>0, <1>1, <1>2, <1>3, <1>4, <1>5 DEF Next, vars

-----------------------------------------------------------------------------
(* The scripts keep the invariant of the pipeline.                           *)

\* requeue-confirmed fills a free slot with a job of an accepted payment, or does
\* nothing to the pipeline.
LEMMA QueueKeepsPipeline ==
  ASSUME IInv, FoundIsAccepted, NEW p \in Payment, QueueConfirmedRow(p)
  PROVE  IInv'
<1> USE DEF chainVars, rowVars, queueVars, watcherVars, recoveryVars, PipelineFrame
<1>t. /\ TypeOK /\ QueueTypeOK /\ ChainTypeOK /\ JobsAreAccepted
      /\ PastConfirmation(p)
  BY DEF IInv, TypeOK, StoreTypeOK, QueueTypeOK, FoundIsAccepted, QueueConfirmedRow
<1>0. /\ UNCHANGED <<deposit, bal, txs, status, sweepTx, aged, events, sweep, watcher, requeued,
                     rec, booted, crashes, failedJobs, refused>>
  BY DEF QueueConfirmedRow
<1>1. KeepsVerdicts /\ AcceptedStay /\ KeepsTxs
  BY <1>0, UnchangedKeepsVerdicts, VerdictsKeptAcceptedStay, UnchangedKeepsTxs
<1>2. QueueTypeOK' /\ JobsAreAccepted'
      /\ \A j \in Job : sweep[j].pc # "idle" => queue'[j].pay = queue[j].pay
  <2>1. CASE queue' = queue
    BY <1>0, <1>1, <1>t, <2>1, JobsKept DEF QueueTypeOK
  <2>2. ASSUME NEW j \in Job, ~Live(j),
               queue' = [queue EXCEPT ![j] = [state |-> "waiting", pay |-> p,
                                              left |-> 1, stalled |-> FALSE]]
        PROVE  QueueTypeOK' /\ JobsAreAccepted'
               /\ \A k \in Job : sweep[k].pc # "idle" => queue'[k].pay = queue[k].pay
    <3>1. QueueTypeOK'
      BY <1>0, <1>t, <2>2, AttemptsAssumption DEF QueueTypeOK
    <3>2. sweep[j].pc = "idle"
      BY <1>t, <2>2 DEF JobsAreAccepted, Live
    <3> QED
      BY <1>0, <1>1, <1>t, <2>2, <3>1, <3>2 DEF JobsAreAccepted, AcceptedStay, Live, Pay, QueueTypeOK
  <2> QED
    BY <2>1, <2>2 DEF QueueConfirmedRow
<1>3. TypeOK'
  BY <1>0, <1>2, <1>t DEF TypeOK, ChainTypeOK, StoreTypeOK, QueueTypeOK, SweepTypeOK, WatcherTypeOK,
     RecoveryTypeOK
<1> QED
  BY <1>0, <1>1, <1>2, <1>3, <1>t, MaturityKept, TxsKept, SweepsKept, RowsKept, WatcherKept,
     RecoveryKept DEF IInv

\* reset-stuck moves rows from one accepted status to another.
LEMMA ResetKeepsPipeline ==
  ASSUME IInv, ResetStuck
  PROVE  IInv' /\ KeepsVerdicts
<1> USE DEF chainVars, queueVars, watcherVars, recoveryVars, PipelineFrame
<1>t. TypeOK /\ ChainTypeOK /\ StoreTypeOK /\ JobsAreAccepted
  BY DEF IInv, TypeOK
<1>0. /\ UNCHANGED <<deposit, bal, txs, sweepTx, events, queue, failedJobs, refused, sweep, watcher,
                     requeued, rec, booted, crashes>>
      /\ status' \in [Payment -> PaymentStatus] /\ aged' \subseteq Payment
      /\ \A p \in Payment : status'[p] = status[p]
                           \/ (status[p] = "SWEEPING" /\ status'[p] = "CONFIRMED")
  BY <1>t DEF ResetStuck, StoreTypeOK
<1>1. KeepsVerdicts
  BY <1>0 DEF KeepsVerdicts, PastConfirmation
<1>2. AcceptedStay /\ KeepsTxs
  BY <1>0, <1>1, VerdictsKeptAcceptedStay, UnchangedKeepsTxs
<1>3. TypeOK'
  BY <1>0, <1>t DEF TypeOK, ChainTypeOK, StoreTypeOK, SweepTypeOK, WatcherTypeOK, RecoveryTypeOK
<1>4. RowsAreBacked'
  BY <1>0 DEF IInv, RowsAreBacked, Backs
<1> QED
  BY <1>0, <1>1, <1>2, <1>3, <1>4, <1>t, MaturityKept, JobsKept, TxsKept, SweepsKept, WatcherKept,
     RecoveryKept DEF IInv

-----------------------------------------------------------------------------
(* The invariant, with the scripts.                                          *)

\* Initially there is no script.
LEMMA OpsInitInv == OpsInit => OpsInv
BY InitIInv DEF OpsInit, OpsInv, FoundIsAccepted, OneJobPerId

\* A step of the pipeline keeps the ids apart.
LEMMA PipelineKeepsOps ==
  ASSUME OpsInv, Next, FollowJobs, UNCHANGED found
  PROVE  OpsInv'
<1>1. IInv' /\ AcceptedStay /\ JobsStay
  BY NextIInv, NextKeepsAccepted, NextKeepsJobs DEF OpsInv
<1>2. FoundIsAccepted'
  BY <1>1 DEF OpsInv, FoundIsAccepted, AcceptedStay
<1>3. scriptJobs' \subseteq scriptJobs /\ \A j \in scriptJobs' : Live(j)'
  BY DEF FollowJobs
<1>4. \A j \in scriptJobs' : Live(j) /\ Pay(j)' = Pay(j) /\ PastConfirmation(Pay(j))'
  <2>1. \A j \in scriptJobs' : Live(j) /\ Pay(j)' = Pay(j)
    BY <1>1, <1>3 DEF OpsInv, OneJobPerId, JobsStay
  <2> QED
    BY <1>1, <1>3, <2>1 DEF OpsInv, IInv, JobsAreAccepted
<1>5. \A j \in scriptJobs' : Pay(j) \notin failedIds'
  BY <1>3 DEF FollowJobs, OpsInv, OneJobPerId
<1>6. OneJobPerId'
  BY <1>3, <1>4, <1>5 DEF OpsInv, OneJobPerId
<1> QED
  BY <1>1, <1>2, <1>3, <1>6 DEF OpsInv

\* requeue-confirmed adds no second job under an id.
LEMMA QueueKeepsOps ==
  ASSUME OpsInv, NEW p \in Payment, QueueConfirmedRow(p)
  PROVE  OpsInv'
<1>1. IInv' /\ QueueTypeOK /\ PastConfirmation(p)
  BY QueueKeepsPipeline DEF OpsInv, IInv, TypeOK, StoreTypeOK, QueueTypeOK, FoundIsAccepted,
     QueueConfirmedRow
<1>2. FoundIsAccepted' /\ \A q \in Payment : PastConfirmation(q)' = PastConfirmation(q)
  BY DEF QueueConfirmedRow, rowVars, OpsInv, FoundIsAccepted, PastConfirmation
<1>3. CASE UNCHANGED <<queue, scriptJobs>>
  BY <1>1, <1>2, <1>3 DEF QueueConfirmedRow, OpsInv, IInv, JobsAreAccepted, OneJobPerId, Live, Pay,
     PastConfirmation, rowVars
<1>4. ASSUME ~IdIsKnown(p), NEW j \in Job, ~Live(j),
             queue' = [queue EXCEPT ![j] = [state |-> "waiting", pay |-> p,
                                            left |-> 1, stalled |-> FALSE]],
             scriptJobs' = scriptJobs \cup {j}
      PROVE  OpsInv'
  <2>1. /\ Live(j)' /\ Pay(j)' = p
        /\ \A k \in Job \ {j} : Live(k)' = Live(k) /\ Pay(k)' = Pay(k)
    BY <1>1, <1>4 DEF QueueTypeOK, Live, Pay
  <2>2. failedIds' = failedIds /\ j \notin scriptJobs
    BY <1>4 DEF QueueConfirmedRow, OpsInv, OneJobPerId
  <2>3. \A k \in scriptJobs' : Live(k)' /\ Pay(k)' \notin failedIds'
    BY <1>4, <2>1, <2>2 DEF OpsInv, OneJobPerId, IdIsKnown
  <2>4. \A k \in scriptJobs' : PastConfirmation(Pay(k))'
    BY <1>1, <1>4, <2>3 DEF IInv, JobsAreAccepted, OpsInv
  <2>5. \A i, k \in scriptJobs' : Pay(i)' = Pay(k)' => i = k
    BY <1>4, <2>1, <2>2 DEF OpsInv, OneJobPerId, IdIsKnown
  <2> QED
    BY <1>1, <1>2, <1>4, <2>3, <2>4, <2>5 DEF OpsInv, OneJobPerId
<1> QED
  BY <1>3, <1>4 DEF QueueConfirmedRow

\* reset-stuck leaves jobs and ids alone.
LEMMA ResetKeepsOps ==
  ASSUME OpsInv, ResetStuck
  PROVE  OpsInv'
<1>1. IInv' /\ AcceptedStay
  BY ResetKeepsPipeline, VerdictsKeptAcceptedStay DEF OpsInv
<1>2. UNCHANGED <<queue, found, scriptJobs, failedIds>>
  BY DEF ResetStuck, queueVars, scriptVars
<1>3. \A j \in scriptJobs : Live(j)' /\ Pay(j)' = Pay(j) /\ PastConfirmation(Pay(j))'
  BY <1>1, <1>2 DEF OpsInv, OneJobPerId, IInv, JobsAreAccepted, Live, Pay
<1> QED
  BY <1>1, <1>2, <1>3 DEF OpsInv, FoundIsAccepted, OneJobPerId, AcceptedStay

\* Every step of worker and scripts keeps the invariant.
LEMMA OpsNextInv == OpsInv /\ [OpsNext]_allVars => OpsInv'
<1> SUFFICES ASSUME OpsInv, [OpsNext]_allVars PROVE OpsInv'
  OBVIOUS
<1>1. ASSUME UNCHANGED <<vars, scriptJobs, failedIds>>, FoundIsAccepted' PROVE OpsInv'
  <2>1. IInv'
    BY <1>1, NextIInv DEF OpsInv
  <2> QED
    BY <1>1, <2>1 DEF OpsInv, OneJobPerId, Live, Pay, PastConfirmation, vars, storeVars
<1>2. CASE ReadConfirmed
  <2>1. FoundIsAccepted'
    BY <1>2 DEF ReadConfirmed, FoundIsAccepted, PastConfirmation, vars, storeVars
  <2> QED
    BY <1>1, <1>2, <2>1 DEF ReadConfirmed
<1>3. CASE ScriptDies
  BY <1>1, <1>3 DEF ScriptDies, FoundIsAccepted
<1>4. CASE UNCHANGED allVars
  BY <1>1, <1>4 DEF allVars, scriptVars, OpsInv, FoundIsAccepted, PastConfirmation, vars, storeVars
<1>5. ASSUME NEW p \in Payment, QueueConfirmedRow(p) PROVE OpsInv'
  BY <1>5, QueueKeepsOps
<1> QED
  BY <1>2, <1>3, <1>4, <1>5, PipelineKeepsOps, ResetKeepsOps DEF OpsNext, Scripts

\* OpsInv holds in every reachable state.
LEMMA AlwaysOpsInv == OpsSpec => []OpsInv
BY OpsInitInv, OpsNextInv, PTL DEF OpsSpec

-----------------------------------------------------------------------------
(* The scripts leave every row an owner.                                     *)

\* requeue-confirmed only adds jobs.
LEMMA QueueKeepsSafe ==
  ASSUME IInv, NEW q \in Payment, QueueConfirmedRow(q), NEW p \in Payment, RowIsSafe(p)
  PROVE  RowIsSafe(p)'
<1> USE DEF rowVars, PipelineFrame, watcherVars, recoveryVars
<1>1. QueueTypeOK /\ UNCHANGED <<status, sweepTx, failedJobs, refused, requeued, rec, sweep, events>>
  BY DEF IInv, TypeOK, StoreTypeOK, QueueTypeOK, QueueConfirmedRow
<1>2. CASE UNCHANGED queue
  BY <1>1, <1>2, QuietKeepsSafe
<1>3. ASSUME NEW j \in Job, ~Live(j),
             queue' = [queue EXCEPT ![j] = [state |-> "waiting", pay |-> q,
                                            left |-> 1, stalled |-> FALSE]]
      PROVE  RowIsSafe(p)'
  <2>1. /\ WorkedOn(q)'
        /\ WorkedOn(p) => WorkedOn(p)'
        /\ HasJob(p) => HasJob(p)'
        /\ Runs(p)' => Runs(p)
    BY <1>1, <1>3, NewJobOwns
  <2> QED
    BY <1>1, <2>1, AddingKeepsSafe
<1> QED
  BY <1>2, <1>3 DEF QueueConfirmedRow

\* reset-stuck takes a row from a processor that is working on it, or from a job that
\* waits or failed; that job still speaks of it.
LEMMA ResetKeepsSafe ==
  ASSUME IInv, ResetStuck, NEW p \in Payment, RowIsSafe(p)
  PROVE  RowIsSafe(p)'
<1> USE DEF PipelineFrame, watcherVars, recoveryVars, queueVars
<1>1. UNCHANGED <<sweepTx, queue, failedJobs, refused, requeued, rec, sweep, events>>
  BY DEF ResetStuck
<1>2. /\ WorkedOn(p)' <=> WorkedOn(p)
      /\ Announced(p)' <=> Announced(p)
      /\ InRecovery(p)' <=> InRecovery(p)
      /\ Untouched(p)' <=> Untouched(p)
  BY <1>1 DEF WorkedOn, Announced, HasJob, Live, InRecovery, Untouched, Runs
<1>3. CASE status[p] = "SWEEPING" /\ sweepTx[p] = NoTx
  <2>1. WorkedOn(p) \/ p \in failedJobs
    BY <1>3 DEF RowIsSafe, SweepingIsSafe
  <2>2. status'[p] = "CONFIRMED"
    BY <1>3 DEF ResetStuck
  <2> QED
    BY <1>1, <1>2, <2>1, <2>2 DEF RowIsSafe, ConfirmedIsSafe
<1>4. CASE ~(status[p] = "SWEEPING" /\ sweepTx[p] = NoTx)
  <2>1. status'[p] = status[p]
    BY <1>4 DEF ResetStuck
  <2> QED
    BY <1>1, <1>2, <2>1, KeptSafe
<1> QED
  BY <1>3, <1>4

\* Every step of worker and scripts keeps every row safe.
LEMMA OpsNextOwned == OpsInv /\ OwnedInv /\ [OpsNext]_allVars => OwnedInv'
<1> SUFFICES ASSUME OpsInv, OwnedInv, [OpsNext]_allVars PROVE OwnedInv'
  OBVIOUS
<1>t. IInv /\ requeued \subseteq Payment
  BY DEF OpsInv, IInv, TypeOK, WatcherTypeOK
<1>1. CASE [Next]_vars
  BY <1>1, <1>t, NextOwned
<1>2. ASSUME NEW q \in Payment, QueueConfirmedRow(q) PROVE OwnedInv'
  <2>1. \A p \in requeued' : PastConfirmation(p)'
    BY <1>2 DEF OwnedInv, QueueConfirmedRow, rowVars, PipelineFrame, watcherVars, PastConfirmation
  <2> QED
    BY <1>2, <1>t, <2>1, QueueKeepsSafe DEF OwnedInv
<1>3. CASE ResetStuck
  <2>1. AcceptedStay /\ requeued' = requeued
    BY <1>3, <1>t, ResetKeepsPipeline, VerdictsKeptAcceptedStay
    DEF ResetStuck, PipelineFrame, watcherVars
  <2> QED
    BY <1>3, <1>t, <2>1, ResetKeepsSafe DEF OwnedInv, AcceptedStay
<1> QED
  BY <1>1, <1>2, <1>3 DEF OpsNext, Scripts, ReadConfirmed, ScriptDies, allVars

\* Both invariants hold in every reachable state.
LEMMA AlwaysOpsOwned == OpsSpec => [](OpsInv /\ OwnedInv)
<1>1. OpsInit => OwnedInv
  BY InitOwned DEF OpsInit
<1> QED
  BY <1>1, OpsNextOwned, AlwaysOpsInv, PTL DEF OpsSpec

-----------------------------------------------------------------------------
(* Theorems. *)

\* However often requeue-confirmed is run, and whatever the worker and reset-stuck do
\* meanwhile, a payment never has two of the script's jobs (jobId), and never one
\* while it is not accepted.
THEOREM IdsStayApart == OpsSpec => []OneJobPerId
BY AlwaysOpsInv, PTL DEF OpsInv

\* The scripts never make the worker sweep a deposit the chain has not confirmed
\* (requeue-confirmed.js, reset-stuck.js, the claim in sweepPayment).
THEOREM ScriptsSweepNothingUnconfirmed == OpsSpec => []SweptOnlyIfMature
<1>1. OpsInv => SweptOnlyIfMature
  BY DEF OpsInv, IInv, TypeOK, ChainTypeOK, SweptOnlyIfMature, AcceptedIsMature, TxsAreAccepted,
     Broadcasted
<1> QED
  BY <1>1, AlwaysOpsInv, PTL

\* Neither script leaves a claimed payment without a worker: a SWEEPING payment without
\* a hash has a job that works on it or will claim it again, or a failed one, though
\* reset-stuck takes claims from under their processors and requeue-confirmed adds
\* jobs beside them (reset-stuck.js, requeue-confirmed.js, the claim in sweepPayment).
THEOREM ScriptsLeaveClaimsWorkedOn == OpsSpec => []ClaimedIsWorkedOn
BY AlwaysOpsOwned, SafeIsOwned, PTL

\* The scripts orphan no confirmed payment and complete none in silence: what
\* reset-stuck confirms again still has the job that claimed it, and beside the scripts,
\* too, only an add that Redis refused the worker leaves a CONFIRMED row to nobody
\* (reset-stuck.js, requeeLostSweeps, sweepWorker.ts:24).
THEOREM ScriptsOrphanOnlyRefused == OpsSpec => [](ConfirmedIsOwned /\ CompletedIsAnnounced)
BY AlwaysOpsOwned, SafeIsOwned, PTL

\* Beside the scripts, too, a COMPLETED row names a transaction that was broadcast for
\* this very payment, and one that succeeded where sendTransaction waits for it.
THEOREM ScriptsCompleteTruly == OpsSpec => []CompletionBacked
<1>1. OpsInv => CompletionBacked
  BY DEF OpsInv, IInv, RowsAreBacked, Backs, CompletionBacked
<1> QED
  BY <1>1, AlwaysOpsInv, PTL

\* The pipeline keeps the promise of PaymentVerdict beside the scripts, too: no reset
\* and no job of theirs takes a verdict back, or makes a webhook untrue.
THEOREM ScriptsKeepPromise == OpsSpec => KeepsPromise
<1>1. OpsInit => Promise!Init
  BY PromiseInit DEF OpsInit
<1>2. OpsInv /\ [OpsNext]_allVars => [Promise!Next]_(Promise!vars)
  <2> SUFFICES ASSUME OpsInv, [OpsNext]_allVars PROVE [Promise!Next]_(Promise!vars)
    OBVIOUS
  <2> USE DEF OpsInv
  <2>1. CASE Next
    <3>1. CASE Crash
      BY <3>1, PromiseQuiet DEF Crash, chainVars, rowVars
    <3> QED
      BY <2>1, <3>1, PromiseSweeping, PromiseWatching, PromiseRecovering, PromiseEnvironment DEF Next
  <2>2. CASE ResetStuck
    <3>1. UNCHANGED <<deposit, txs, events>>
      BY <2>2 DEF ResetStuck, PipelineFrame, chainVars
    <3> QED
      BY <2>2, <3>1, ResetKeepsPipeline, PromiseStutter DEF Broadcasted
  <2>3. CASE ReadConfirmed \/ ScriptDies \/ UNCHANGED allVars
    BY <2>3, PromiseQuiet DEF ReadConfirmed, ScriptDies, allVars, vars, chainVars, storeVars
  <2>4. ASSUME NEW p \in Payment, QueueConfirmedRow(p) PROVE UNCHANGED Promise!vars
    BY <2>4, PromiseQuiet DEF QueueConfirmedRow, PipelineFrame, rowVars, chainVars
  <2> QED
    BY <2>1, <2>2, <2>3, <2>4 DEF OpsNext, Scripts
<1> QED
  BY <1>1, <1>2, AlwaysOpsInv, PTL DEF OpsSpec, KeepsPromise, Promise!Spec
=============================================================================
