--------------------------- MODULE OwnershipProofs ---------------------------
(* Nothing an accepted payment still needs is lost: ConfirmedIsOwned,         *)
(* ClaimedIsWorkedOn and CompletedIsAnnounced of PaymentPipeline, for every   *)
(* number of payments, jobs, recoveries and crashes, and every set of faults. *)
EXTENDS PaymentPipelineProofs

USE DEF PaymentStatus, EventType, JobState, DepositState, TxState, SweepPc, WatcherPc,
        RecoveryPc

RequeuedIsAccepted == \A p \in requeued : PastConfirmation(p)

-----------------------------------------------------------------------------
(* What keeps a row safe.                                                     *)

\* A row nobody wrote stays safe when whoever made it safe stays, or leaves a job.
LEMMA KeptSafe ==
  ASSUME NEW p \in Payment, RowIsSafe(p),
         status'[p] = status[p], sweepTx'[p] = sweepTx[p],
         WorkedOn(p) => WorkedOn(p)' \/ p \in failedJobs',
         p \in failedJobs => p \in failedJobs',
         p \in refused => p \in refused' \/ WorkedOn(p)',
         p \in requeued' => p \in requeued \/ p \in refused' \/ WorkedOn(p)',
         Announced(p) => Announced(p)',
         InRecovery(p) => InRecovery(p)' \/ WorkedOn(p)',
         Untouched(p) => Untouched(p)' \/ WorkedOn(p)'
  PROVE  RowIsSafe(p)'
BY DEF RowIsSafe, ConfirmedIsSafe, SweepingIsSafe

\* A row whose job waits, or is not yet through with the sweep, is safe whatever it says.
LEMMA WorkedOnIsSafe ==
  ASSUME NEW p, WorkedOn(p)'
  PROVE  RowIsSafe(p)'
BY DEF RowIsSafe, ConfirmedIsSafe, SweepingIsSafe, Announced, WorkedOn, HasJob, Live

\* A row that is not accepted has no hash and no job, and no recovery knows it.
LEMMA UndecidedIsUntouched ==
  ASSUME IInv, RequeuedIsAccepted, NEW p \in Payment, ~PastConfirmation(p)
  PROVE  sweepTx[p] = NoTx /\ Untouched(p) /\ p \notin requeued
<1>1. ~Runs(p)
  BY DEF IInv, JobsAreAccepted, Runs, Live, Pay
<1>2. sweepTx[p] = NoTx
  BY NullAssumption DEF IInv, RowsAreBacked, Backs, TxsAreAccepted
<1> QED
  BY <1>1, <1>2 DEF IInv, RecoveryIsAccepted, RequeuedIsAccepted, Untouched

-----------------------------------------------------------------------------
(* The operations of the queue.                                               *)

\* A job that throws waits again, or is in the failed set.
LEMMA FailJobOwns ==
  ASSUME QueueTypeOK, NEW j \in Job, FailJob(j), Live(j),
         \A k \in Job \ {j} : sweep'[k] = sweep[k]
  PROVE  /\ failedJobs \subseteq failedJobs' /\ refused' = refused
         /\ \A p : WorkedOn(p) => WorkedOn(p)' \/ p \in failedJobs'
         /\ \A p : HasJob(p) => HasJob(p)' \/ p \in failedJobs'
         /\ \A p : Runs(p)' => Runs(p)
<1>1. /\ \A k \in Job \ {j} : queue'[k] = queue[k]
      /\ \/ /\ queue'[j].state = "waiting" /\ queue'[j].pay = queue[j].pay
            /\ failedJobs' = failedJobs
         \/ queue'[j].state = "free" /\ failedJobs' = failedJobs \cup {queue[j].pay}
  BY FailedJob
<1>2. refused' = refused
  BY DEF FailJob
<1> QED
  BY <1>1, <1>2 DEF WorkedOn, HasJob, Runs, Live

\* A job that is added waits for its payment; no other job changes.
LEMMA NewJobOwns ==
  ASSUME QueueTypeOK, NEW p \in Payment, NEW j \in Job, ~Live(j), NEW n,
         queue' = [queue EXCEPT ![j] = [state |-> "waiting", pay |-> p,
                                        left |-> n, stalled |-> FALSE]],
         sweep' = sweep
  PROVE  /\ WorkedOn(p)'
         /\ \A q : WorkedOn(q) => WorkedOn(q)'
         /\ \A q : HasJob(q) => HasJob(q)'
         /\ \A q : Runs(q)' => Runs(q)
<1>1. /\ queue'[j].state = "waiting" /\ queue'[j].pay = p
      /\ \A k \in Job \ {j} : queue'[k] = queue[k]
  BY DEF QueueTypeOK
<1> QED
  BY <1>1 DEF WorkedOn, HasJob, Runs, Live

\* So it is with sweepQueue.add.
LEMMA AddJobOwns ==
  ASSUME QueueTypeOK, NEW p \in Payment, AddJob(p), sweep' = sweep
  PROVE  /\ WorkedOn(p)'
         /\ failedJobs' = failedJobs /\ refused' = refused \ {p}
         /\ \A q : WorkedOn(q) => WorkedOn(q)'
         /\ \A q : HasJob(q) => HasJob(q)'
         /\ \A q : Runs(q)' => Runs(q)
BY NewJobOwns DEF AddJob

-----------------------------------------------------------------------------
(* The steps.                                                                 *)

\* A step that leaves rows, jobs, watcher and recovery alone, and forgets no webhook.
LEMMA QuietKeepsSafe ==
  ASSUME NEW p \in Payment, RowIsSafe(p),
         UNCHANGED <<status, sweepTx, queue, failedJobs, refused, requeued, rec, sweep>>,
         events[p] \subseteq events'[p]
  PROVE  RowIsSafe(p)'
<1>1. /\ WorkedOn(p)' <=> WorkedOn(p)
      /\ HasJob(p)' <=> HasJob(p)
      /\ InRecovery(p)' <=> InRecovery(p)
      /\ Untouched(p)' <=> Untouched(p)
  BY DEF WorkedOn, HasJob, Live, InRecovery, Untouched, Runs
<1> QED
  BY <1>1, KeptSafe DEF Announced

\* A processor claims a row and works on it, hands its job back when it throws, and
\* lets it go only with the webhook.
LEMMA SweepKeepsSafe ==
  ASSUME IInv, Sweeping, NEW p \in Payment, RowIsSafe(p)
  PROVE  RowIsSafe(p)'
<1> USE DEF chainVars, storeVars, rowVars, queueVars
<1>t. /\ QueueTypeOK /\ SweepTypeOK /\ StoreTypeOK /\ JobsAreAccepted
      /\ UNCHANGED <<requeued, rec>>
  BY DEF IInv, TypeOK, StoreTypeOK, QueueTypeOK, Sweeping, SweepFrame, watcherVars, recoveryVars
<1>1. PICK j \in Job : StartSweep(j) \/ ClaimThrows(j) \/ SweepStep(j)
  BY DEF Sweeping, SweepNext
<1>j. \A k \in Job \ {j} : sweep'[k] = sweep[k]
  BY <1>1, <1>t DEF StartSweep, ClaimThrows, SweepStep, ReadBalance, Broadcast, RecordTx, Complete,
     NotifyCompleted, SweepThrows, GoTo, SweepTypeOK
<1>r. (InRecovery(p)' <=> InRecovery(p)) /\ UNCHANGED <<refused, requeued>>
  BY <1>1, <1>t DEF InRecovery, StartSweep, ClaimThrows, SweepStep, ReadBalance, Broadcast, RecordTx,
     Complete, NotifyCompleted, SweepThrows, FailJob, FinishJob
<1>u. ~Runs(p)' /\ Untouched(p) => Untouched(p)'
  BY <1>t DEF Untouched
<1>2. CASE StartSweep(j)
  <2>1. /\ UNCHANGED <<sweepTx, events, failedJobs>>
        /\ queue'[j].state = "active" /\ queue'[j].pay = queue[j].pay
        /\ queue[j].state = "waiting"
        /\ \A k \in Job \ {j} : queue'[k] = queue[k]
    BY <1>2, <1>t DEF StartSweep, CanStart, QueueTypeOK
  <2>2. CASE p # Pay(j)
    <3>1. status'[p] = status[p]
      BY <1>2, <1>t, <2>2 DEF StartSweep, SetStatus, StoreTypeOK
    <3>2. /\ WorkedOn(p) => WorkedOn(p)'
          /\ HasJob(p) => HasJob(p)'
          /\ Runs(p)' => Runs(p)
      BY <1>j, <2>1, <2>2 DEF WorkedOn, HasJob, Runs, Live, Pay
    <3> QED
      BY <2>1, <3>1, <3>2, <1>r, <1>u, KeptSafe DEF Announced, Untouched
  <2>3. CASE p = Pay(j) /\ Claimable(p)
    <3>1. sweep'[j].pc = "claimed"
      BY <1>2, <1>t, <2>3 DEF StartSweep, GoTo, SweepTypeOK
    <3>2. WorkedOn(p)'
      BY <2>1, <2>3, <3>1 DEF WorkedOn, Pay
    <3> QED
      BY <3>2, WorkedOnIsSafe
  <2>4. CASE p = Pay(j) /\ ~Claimable(p)
    <3>1. /\ status'[p] = status[p] /\ status[p] # "CONFIRMED"
          /\ status[p] = "SWEEPING" => sweepTx[p] # NoTx
      BY <1>2, <2>4 DEF StartSweep, Claimable
    <3>2. Announced(p)'
      BY <2>1, <2>4 DEF Announced, HasJob, Live, Pay
    <3> QED
      BY <2>1, <3>1, <3>2 DEF RowIsSafe, SweepingIsSafe
  <2> QED
    BY <2>2, <2>3, <2>4
<1>3. CASE ClaimThrows(j) \/ SweepThrows(j)
  <2>1. FailJob(j) /\ Live(j) /\ UNCHANGED <<status, sweepTx, events>>
    BY <1>3, <1>t DEF ClaimThrows, SweepThrows, CanStart, Live, Rejects, JobsAreAccepted
  <2>2. /\ p \in failedJobs => p \in failedJobs'
        /\ WorkedOn(p) => WorkedOn(p)' \/ p \in failedJobs'
        /\ HasJob(p) => HasJob(p)' \/ p \in failedJobs'
        /\ Runs(p)' => Runs(p)
    BY <2>1, <1>t, <1>j, FailJobOwns
  <2> QED
    BY <2>1, <2>2, <1>r, <1>u, KeptSafe DEF Announced, Untouched
<1>4. CASE ReadBalance(j) \/ Broadcast(j)
  <2>1. UNCHANGED <<status, sweepTx, events, queue, failedJobs>> /\ sweep'[j].pc \in {"funded", "sent"}
    BY <1>4, <1>t DEF ReadBalance, Broadcast, SweepTypeOK
  <2>2. /\ WorkedOn(p) => WorkedOn(p)'
        /\ HasJob(p) => HasJob(p)'
        /\ Runs(p)' => Runs(p)
    BY <2>1, <1>j DEF WorkedOn, HasJob, Runs, Live
  <2> QED
    BY <2>1, <2>2, <1>r, <1>u, KeptSafe DEF Announced, Untouched
<1>5. CASE RecordTx(j) \/ Complete(j)
  <2>1. /\ UNCHANGED <<events, queue, failedJobs>> /\ Pay(j) \in Payment /\ queue[j].state = "active"
        /\ p # Pay(j) => status'[p] = status[p] /\ sweepTx'[p] = sweepTx[p]
    BY <1>5, <1>t DEF RecordTx, Complete, CompleteRow, SetStatus, StoreTypeOK, JobsAreAccepted, Live
  <2>2. CASE p # Pay(j)
    <3>1. /\ WorkedOn(p) => WorkedOn(p)'
          /\ HasJob(p) => HasJob(p)'
          /\ Runs(p)' => Runs(p)
      BY <2>1, <2>2, <1>j DEF WorkedOn, HasJob, Runs, Live, Pay
    <3> QED
      BY <2>1, <2>2, <3>1, <1>r, <1>u, KeptSafe DEF Announced, Untouched
  <2>3. CASE p = Pay(j) /\ RecordTx(j)
    <3>1. sweep'[j].pc = "recorded"
      BY <2>3, <1>t DEF RecordTx, GoTo, SweepTypeOK
    <3>2. WorkedOn(p)'
      BY <2>1, <2>3, <3>1 DEF WorkedOn, Pay
    <3> QED
      BY <3>2, WorkedOnIsSafe
  <2>4. CASE p = Pay(j) /\ Complete(j)
    <3>1. status'[p] = "COMPLETED"
      BY <2>4, <1>t DEF Complete, CompleteRow, SetStatus, StoreTypeOK
    <3>2. Announced(p)'
      BY <2>1, <2>4 DEF Announced, HasJob, Live, Pay
    <3> QED
      BY <3>1, <3>2 DEF RowIsSafe
  <2> QED
    BY <1>5, <2>2, <2>3, <2>4
<1>6. CASE NotifyCompleted(j)
  <2>1. /\ UNCHANGED <<status, sweepTx, failedJobs>> /\ sweep[j].pc = "notify"
        /\ queue'[j].state = "free" /\ \A k \in Job \ {j} : queue'[k] = queue[k]
        /\ events[p] \subseteq events'[p]
        /\ p = Pay(j) => "PAYMENT_COMPLETED" \in events'[p]
    BY <1>6, <1>t DEF NotifyCompleted, FinishJob, FreeSlot, QueueTypeOK, QueueWebhook, StoreTypeOK
  <2>2. queue[j].state = "active"
    BY <2>1, <1>t DEF JobsAreAccepted
  <2>3. /\ WorkedOn(p) => WorkedOn(p)'
        /\ p # Pay(j) /\ HasJob(p) => HasJob(p)'
        /\ Runs(p)' => Runs(p)
    BY <2>1, <2>2, <1>j DEF WorkedOn, HasJob, Runs, Live, Pay
  <2> QED
    BY <2>1, <2>3, <1>r, <1>u, KeptSafe DEF Announced, Untouched
<1> QED
  BY <1>1, <1>2, <1>3, <1>4, <1>5, <1>6 DEF SweepStep

\* What the watcher's steps leave alone.
LEMMA WatcherFrame ==
  ASSUME IInv, Watching
  PROVE  /\ QueueTypeOK /\ WatcherTypeOK /\ StoreTypeOK /\ WatcherIsCurrent
         /\ UNCHANGED <<sweep, rec, sweepTx>>
         /\ \A p \in Payment : events[p] \subseteq events'[p]
<1> USE DEF chainVars, rowVars, storeVars
<1>1. QueueTypeOK /\ WatcherTypeOK /\ StoreTypeOK /\ WatcherIsCurrent
  BY DEF IInv, TypeOK, StoreTypeOK, QueueTypeOK
<1>2. UNCHANGED <<sweep, rec, sweepTx>>
  BY DEF Watching, recoveryVars, WatcherStep, ReadOverdue, ExpireStuck, ReadLost, ReadPending,
      QueueConfirmed, ConfirmedUnannounced, QueueSweep, SweepRefused, ScanWallets, QueueDetected,
      DetectedUnannounced, EndScan, ScanThrows, QueueFailed, Requeue, RequeueRefused, RefuseJob, Confirm, SkipCheck,
      DetectDeposit, SetStatus
<1>3. \A p \in Payment : events[p] \subseteq events'[p]
  <2>1. CASE UNCHANGED events
    BY <2>1
  <2>2. CASE \E c, e : QueueWebhook(c, e)
    BY <1>1, <2>2 DEF QueueWebhook, StoreTypeOK
  <2> QED
    BY <2>1, <2>2 DEF Watching, WatcherStep, ReadOverdue, ExpireStuck, ReadLost, ReadPending,
      QueueConfirmed, ConfirmedUnannounced, QueueSweep, SweepRefused, ScanWallets, QueueDetected,
      DetectedUnannounced, EndScan, ScanThrows, QueueFailed, Requeue, RequeueRefused, RefuseJob, Confirm, SkipCheck,
      DetectDeposit
<1> QED
  BY <1>1, <1>2, <1>3

\* A step that adds a job for q is safe for every row, though the watcher notes q.
LEMMA AddingKeepsSafe ==
  ASSUME NEW p \in Payment, RowIsSafe(p), NEW q \in Payment,
         WorkedOn(q)', WorkedOn(p) => WorkedOn(p)', HasJob(p) => HasJob(p)', Runs(p)' => Runs(p),
         UNCHANGED <<status, sweepTx, failedJobs, rec>>, events[p] \subseteq events'[p],
         refused \ {q} \subseteq refused',
         requeued' \subseteq requeued \cup {q}
  PROVE  RowIsSafe(p)'
<1>1. CASE p = q
  BY <1>1, WorkedOnIsSafe
<1>2. CASE p # q
  <2>1. InRecovery(p)' <=> InRecovery(p)
    BY DEF InRecovery
  <2>2. Untouched(p) => Untouched(p)'
    BY <1>2 DEF Untouched
  <2> QED
    BY <2>1, <2>2, KeptSafe DEF Announced
<1> QED
  BY <1>1, <1>2

\* A step that only notes a refused add, and perhaps the payment as requeued, too.
LEMMA RefusingKeepsSafe ==
  ASSUME NEW p \in Payment, RowIsSafe(p), NEW q \in Payment,
         RefuseJob(q), UNCHANGED <<status, sweepTx, events, rec, sweep>>,
         requeued' \subseteq requeued \cup {q}
  PROVE  RowIsSafe(p)'
<1>1. UNCHANGED <<queue, failedJobs>> /\ refused' = refused \cup {q}
  BY DEF RefuseJob
<1>2. /\ WorkedOn(p)' <=> WorkedOn(p)
      /\ HasJob(p)' <=> HasJob(p)
      /\ InRecovery(p)' <=> InRecovery(p)
      /\ Untouched(p)' <=> Untouched(p)
  BY <1>1 DEF WorkedOn, HasJob, Live, InRecovery, Untouched, Runs
<1> QED
  BY <1>1, <1>2, KeptSafe DEF Announced

\* The watcher confirms only rows nobody knows yet, and notes a row as requeued only
\* with its job, or when the job was refused.
LEMMA WatcherKeepsSafe ==
  ASSUME IInv, RequeuedIsAccepted, Watching, NEW p \in Payment, RowIsSafe(p)
  PROVE  RowIsSafe(p)'
<1> USE DEF At, Phase, OnPayment, chainVars, storeVars, rowVars, queueVars
<1>t. /\ QueueTypeOK /\ StoreTypeOK /\ WatcherTypeOK /\ WatcherIsCurrent
      /\ UNCHANGED <<sweep, rec, sweepTx>> /\ events[p] \subseteq events'[p]
  BY WatcherFrame
<1>1. CASE UNCHANGED <<queue, failedJobs, refused, requeued>>
  <2>1. CASE status'[p] = status[p]
    <3>1. /\ WorkedOn(p)' <=> WorkedOn(p)
          /\ HasJob(p)' <=> HasJob(p)
          /\ InRecovery(p)' <=> InRecovery(p)
          /\ Untouched(p)' <=> Untouched(p)
      BY <1>1, <1>t DEF WorkedOn, HasJob, Live, InRecovery, Untouched, Runs
    <3> QED
      BY <1>1, <1>t, <2>1, <3>1, KeptSafe DEF Announced
  <2>2. CASE status'[p] \in {"NONE", "DETECTED", "FAILED"}
    BY <2>2 DEF RowIsSafe
  <2>3. CASE status'[p] # status[p] /\ status'[p] \notin {"NONE", "DETECTED", "FAILED"}
    <3>1. status[p] = "DETECTED" /\ status'[p] = "CONFIRMED"
      BY <1>t, <2>3 DEF Watching, WatcherStep, ReadOverdue, ExpireStuck, ReadLost, ReadPending,
         QueueConfirmed, ConfirmedUnannounced, QueueSweep, SweepRefused, ScanWallets, QueueDetected,
         DetectedUnannounced, EndScan, ScanThrows, QueueFailed, Requeue, RequeueRefused, RefuseJob, Confirm, SkipCheck,
         DetectDeposit, SetStatus, WatcherIsCurrent, StoreTypeOK
    <3>2. sweepTx[p] = NoTx /\ Untouched(p) /\ p \notin requeued
      BY <3>1, UndecidedIsUntouched DEF PastConfirmation
    <3>3. Untouched(p)' /\ p \notin requeued'
      BY <1>1, <1>t, <3>2 DEF Untouched, Runs
    <3> QED
      BY <1>t, <3>1, <3>2, <3>3 DEF RowIsSafe, ConfirmedIsSafe
  <2> QED
    BY <2>1, <2>2, <2>3
<1>2. ASSUME NEW q \in Payment, AddJob(q), status' = status, requeued' \subseteq requeued \cup {q}
      PROVE  RowIsSafe(p)'
  <2>1. /\ WorkedOn(q)' /\ failedJobs' = failedJobs /\ refused' = refused \ {q}
        /\ WorkedOn(p) => WorkedOn(p)'
        /\ HasJob(p) => HasJob(p)'
        /\ Runs(p)' => Runs(p)
    BY <1>2, <1>t, AddJobOwns
  <2> QED
    BY <1>2, <1>t, <2>1, AddingKeepsSafe
<1>3. CASE QueueSweep
  <2>1. PICK q \in Payment : q = watcher.cur
    BY <1>3, <1>t DEF QueueSweep, WatcherIsCurrent
  <2> QED
    BY <1>2, <1>3, <2>1 DEF QueueSweep
<1>4. ASSUME NEW q \in Payment, Requeue(q) PROVE RowIsSafe(p)'
  BY <1>2, <1>4 DEF Requeue
<1>5. CASE \/ ReadOverdue \/ ExpireStuck \/ ReadLost \/ ReadPending \/ QueueConfirmed
           \/ ConfirmedUnannounced \/ ScanWallets \/ QueueDetected \/ DetectedUnannounced
           \/ EndScan \/ ScanThrows
           \/ \E q \in Payment : QueueFailed(q) \/ Confirm(q) \/ SkipCheck(q) \/ DetectDeposit(q)
  <2>1. UNCHANGED <<queue, failedJobs, refused, requeued>>
    BY <1>5 DEF ReadOverdue, ExpireStuck, ReadLost, ReadPending, QueueConfirmed,
       ConfirmedUnannounced, ScanWallets, QueueDetected, DetectedUnannounced, EndScan, ScanThrows,
       QueueFailed, Confirm, SkipCheck, DetectDeposit
  <2> QED
    BY <1>1, <2>1
<1>6. CASE SweepRefused
  <2>1. PICK q \in Payment : q = watcher.cur
    BY <1>6, <1>t DEF SweepRefused, WatcherIsCurrent
  <2>2. RefuseJob(q) /\ UNCHANGED <<status, sweepTx, events, rec, sweep, requeued>>
    BY <1>6, <1>t, <2>1 DEF SweepRefused
  <2> QED
    BY <2>2, RefusingKeepsSafe
<1>7. ASSUME NEW q \in Payment, RequeueRefused(q) PROVE RowIsSafe(p)'
  BY <1>7, <1>t, RefusingKeepsSafe DEF RequeueRefused
<1> QED
  BY <1>3, <1>4, <1>5, <1>6, <1>7 DEF Watching, WatcherStep

\* A recovery takes up only claimed rows, and holds a row it resets until the job is
\* added or refused; a row it completes is announced.
LEMMA RecoveryKeepsSafe ==
  ASSUME IInv, Recovering, NEW p \in Payment, RowIsSafe(p)
  PROVE  RowIsSafe(p)'
<1> USE DEF chainVars, storeVars, rowVars, queueVars
<1>t. /\ QueueTypeOK /\ StoreTypeOK /\ RecoveryTypeOK /\ RecoveryIsAccepted
      /\ UNCHANGED <<sweep, requeued>>
  BY DEF IInv, TypeOK, StoreTypeOK, QueueTypeOK, Recovering, RecoveryFrame, watcherVars
<1>b. CASE Boot
  BY <1>b, <1>t, QuietKeepsSafe DEF Boot
<1>1. ASSUME NEW r \in Recoverer, RecoveryStep(r) PROVE RowIsSafe(p)'
  <2>0. \A o \in Recoverer : o # r => rec'[o] = rec[o]
    BY <1>1, <1>t DEF RecoveryStep, ReadStuck, RecoverCompleted, ResetToConfirmed,
       RequeueRecovered, RecoveredRefused, RefuseJob, RecoveryThrows, EndRecovery, Lookup, GoesOn, Takes, RecoveryTypeOK
  <2>1. /\ UNCHANGED events
        /\ UNCHANGED queueVars \/ RequeueRecovered(r) \/ RecoveredRefused(r)
    BY <1>1 DEF RecoveryStep, ReadStuck, RecoverCompleted, ResetToConfirmed,
       RequeueRecovered, RecoveredRefused, RecoveryThrows, EndRecovery, Lookup
  <2>2. UNCHANGED <<queue, failedJobs>> => /\ WorkedOn(p)' <=> WorkedOn(p)
                                           /\ HasJob(p)' <=> HasJob(p)
                                           /\ Announced(p)' <=> Announced(p)
                                           /\ Runs(p)' <=> Runs(p)
    BY <2>1, <1>t DEF WorkedOn, HasJob, Live, Runs, Announced
  <2>3. CASE ReadStuck(r) \/ RecoveryThrows(r) \/ EndRecovery(r) \/ \E q \in Payment : Lookup(r, q)
    <3>1. /\ UNCHANGED <<status, sweepTx, queue, failedJobs, refused>> /\ rec[r].pc # "add"
          /\ \/ /\ rec'[r].pc \in {"loop", "idle"}
                /\ \A q \in rec'[r].todo : q \in rec[r].todo \/ status[q] = "SWEEPING"
             \/ rec'[r].cur \in rec[r].todo /\ rec'[r].todo \subseteq rec[r].todo
      <4>1. CASE ReadStuck(r)
        BY <4>1, <1>t DEF ReadStuck, Stuck, RecoveryTypeOK
      <4>2. CASE RecoveryThrows(r)
        BY <4>2, <1>t DEF RecoveryThrows, GoesOn, RecoveryTypeOK
      <4>3. CASE EndRecovery(r)
        BY <4>3, <1>t DEF EndRecovery, IdleRecovery, RecoveryTypeOK
      <4>4. CASE \E q \in Payment : Lookup(r, q)
        <5>1. PICK q \in Payment, pc \in {"complete", "reset"} :
                /\ Takes(r, q, pc) /\ q \in rec[r].todo /\ rec[r].pc = "loop"
                /\ UNCHANGED <<status, sweepTx, queue, failedJobs, refused>>
          BY <4>4 DEF Lookup
        <5>2. rec'[r].cur = q /\ rec'[r].todo = rec[r].todo \ {q}
          BY <5>1, <1>t, TakesPayment DEF RecoveryPc
        <5> QED
          BY <5>1, <5>2
      <4> QED
        BY <2>3, <4>1, <4>2, <4>3, <4>4
    <3>2. InRecovery(p) => InRecovery(p)'
      BY <2>0, <3>1 DEF InRecovery
    <3>3. ASSUME status[p] # "SWEEPING", Untouched(p) PROVE Untouched(p)'
      <4>1. ~Runs(p)'
        BY <2>2, <3>1, <3>3, <1>t DEF Untouched
      <4>2. /\ p \notin rec'[r].todo
            /\ rec'[r].pc \in {"complete", "reset", "add"} => rec'[r].cur # p
        BY <1>1, <3>1, <3>3 DEF Untouched
      <4> QED
        BY <2>0, <3>3, <4>1, <4>2 DEF Untouched
    <3> QED
      BY <2>2, <3>1, <3>2, <3>3, <1>t DEF RowIsSafe, ConfirmedIsSafe, SweepingIsSafe
  <2>4. CASE RecoverCompleted(r) \/ ResetToConfirmed(r)
    <3>1. /\ UNCHANGED <<queue, failedJobs, refused>> /\ rec[r].cur \in Payment
          /\ rec[r].pc \in {"complete", "reset"}
          /\ p # rec[r].cur => status'[p] = status[p] /\ sweepTx'[p] = sweepTx[p]
          /\ rec'[r].todo = rec[r].todo
          /\ rec'[r].pc = "loop" \/ (rec'[r].pc = "add" /\ rec'[r].cur = rec[r].cur)
          /\ p = rec[r].cur => \/ status'[p] = "COMPLETED"
                              \/ /\ status'[p] = "CONFIRMED" /\ sweepTx'[p] = NoTx
                                 /\ rec'[r].pc = "add" /\ rec'[r].cur = p
      <4>1. CASE RecoverCompleted(r)
        <5>1. rec'[r].pc = "loop" /\ rec'[r].todo = rec[r].todo
          BY <4>1, <1>t DEF RecoverCompleted, GoesOn, RecoveryTypeOK
        <5> QED
          BY <4>1, <5>1, <1>t DEF RecoverCompleted, RecoveryIsAccepted, CompleteRow, SetStatus,
             StoreTypeOK
      <4>2. CASE ResetToConfirmed(r)
        BY <4>2, <1>t DEF ResetToConfirmed, RecoveryIsAccepted, SetStatus, StoreTypeOK,
           RecoveryTypeOK
      <4> QED
        BY <2>4, <4>1, <4>2
    <3>2. CASE p # rec[r].cur
      <4>1. InRecovery(p) => InRecovery(p)'
        BY <2>0, <3>1 DEF InRecovery
      <4>2. Untouched(p) => Untouched(p)'
        BY <2>0, <2>2, <3>1, <3>2, <1>t DEF Untouched
      <4> QED
        BY <2>2, <3>1, <3>2, <4>1, <4>2, <1>t, KeptSafe
    <3>3. CASE p = rec[r].cur
      <4>1. PastConfirmation(p) /\ ~Untouched(p)
        <5>1. PastConfirmation(p)
          BY <3>1, <3>3, <1>t DEF RecoveryIsAccepted
        <5>2. ~Untouched(p)
          BY <1>1, <3>1, <3>3 DEF Untouched
        <5> QED
          BY <5>1, <5>2
      <4>2. Announced(p)
        BY <4>1 DEF RowIsSafe, ConfirmedIsSafe, SweepingIsSafe, PastConfirmation, Announced,
           WorkedOn, HasJob, Live
      <4>3. status'[p] = "CONFIRMED" => InRecovery(p)' /\ sweepTx'[p] = NoTx
        BY <3>1, <3>3 DEF InRecovery
      <4> QED
        BY <2>2, <3>1, <3>3, <4>2, <4>3 DEF RowIsSafe, ConfirmedIsSafe
    <3> QED
      BY <3>2, <3>3
  <2>5. CASE RequeueRecovered(r)
    <3>1. /\ rec[r].cur \in Payment /\ AddJob(rec[r].cur) /\ UNCHANGED <<status, sweepTx>>
          /\ rec'[r].pc = "loop" /\ rec'[r].todo = rec[r].todo
      BY <2>5, <1>t DEF RequeueRecovered, RecoveryIsAccepted, GoesOn, RecoveryTypeOK
    <3>2. PICK q \in Payment : q = rec[r].cur
      BY <3>1
    <3>3. /\ WorkedOn(q)' /\ failedJobs' = failedJobs /\ refused' = refused \ {q}
          /\ WorkedOn(p) => WorkedOn(p)'
          /\ HasJob(p) => HasJob(p)'
          /\ Runs(p)' => Runs(p)
      BY <3>1, <3>2, <1>t, AddJobOwns
    <3>4. InRecovery(p) => InRecovery(p)' \/ p = q
      BY <2>0, <3>2 DEF InRecovery
    <3>5. Untouched(p) => Untouched(p)'
      BY <2>0, <3>1, <3>3, <1>t DEF Untouched
    <3> QED
      BY <2>1, <3>1, <3>3, <3>4, <3>5, <1>t, KeptSafe DEF Announced
  <2>6. CASE RecoveredRefused(r)
    <3>1. /\ rec[r].pc = "add" /\ UNCHANGED <<status, sweepTx, queue, failedJobs>>
          /\ refused' = refused \cup {rec[r].cur}
          /\ rec'[r].pc = "loop" /\ rec'[r].todo = rec[r].todo
      BY <2>6, <1>t DEF RecoveredRefused, RefuseJob, GoesOn, RecoveryTypeOK
    <3>2. Untouched(p) => Untouched(p)'
      BY <2>0, <2>2, <3>1, <1>t DEF Untouched
    <3>3. CASE p # rec[r].cur
      <4>1. InRecovery(p) => InRecovery(p)'
        BY <2>0, <3>3 DEF InRecovery
      <4> QED
        BY <2>2, <3>1, <3>2, <4>1, <1>t, KeptSafe
    <3>4. CASE p = rec[r].cur
      <4>1. ~Untouched(p) /\ p \in refused'
        BY <1>1, <3>1, <3>4 DEF Untouched
      <4> QED
        BY <2>2, <3>1, <4>1 DEF RowIsSafe, ConfirmedIsSafe, SweepingIsSafe
    <3> QED
      BY <3>3, <3>4
  <2> QED
    BY <1>1, <2>3, <2>4, <2>5, <2>6 DEF RecoveryStep
<1> QED
  BY <1>b, <1>1 DEF Recovering

\* A crash gives the jobs back, forgets the watcher's set and ends the recoveries: a row
\* without a job is the next scan's.
LEMMA CrashKeepsSafe ==
  ASSUME IInv, Crash, NEW p \in Payment, RowIsSafe(p)
  PROVE  RowIsSafe(p)'
<1>t. /\ QueueTypeOK /\ UNCHANGED <<status, sweepTx, events>>
  BY DEF IInv, TypeOK, StoreTypeOK, QueueTypeOK, Crash, rowVars
<1>1. /\ requeued' = {} /\ rec' = [r \in Recoverer |-> IdleRecovery]
      /\ failedJobs' = failedJobs \cup {queue[j].pay : j \in {k \in Active : queue[k].stalled}}
      /\ \A j \in Job : queue'[j] = IF j \notin Active THEN queue[j]
                                   ELSE IF queue[j].stalled THEN FreeSlot
                                   ELSE [queue[j] EXCEPT !.state = "waiting", !.stalled = TRUE]
  BY DEF Crash, WatcherCrash, RecoveryCrash, StallJobs
<1>2. ASSUME NEW j \in Job, Live(j), queue[j].pay = p
      PROVE  WorkedOn(p)' \/ p \in failedJobs'
  <2>1. CASE j \notin Active
    BY <1>1, <1>2, <1>t, <2>1 DEF Active, Live, QueueTypeOK, WorkedOn
  <2>2. CASE j \in Active /\ queue[j].stalled
    BY <1>1, <1>2, <2>2
  <2>3. CASE j \in Active /\ ~queue[j].stalled
    <3>1. queue'[j].state = "waiting" /\ queue'[j].pay = queue[j].pay
      BY <1>1, <1>t, <2>3 DEF QueueTypeOK
    <3> QED
      BY <1>2, <3>1 DEF WorkedOn
  <2> QED
    BY <2>1, <2>2, <2>3
<1>3. HasJob(p) \/ WorkedOn(p) \/ p \in failedJobs => WorkedOn(p)' \/ p \in failedJobs'
  BY <1>1, <1>2 DEF HasJob, WorkedOn, Live
<1>4. ~Runs(p)'
  <2>1. ASSUME NEW j \in Job PROVE queue'[j].state # "active"
    <3>1. CASE j \notin Active
      BY <1>1, <3>1 DEF Active
    <3>2. CASE j \in Active /\ queue[j].stalled
      <4>1. queue'[j] = FreeSlot
        BY <1>1, <3>2
      <4> QED
        BY <4>1 DEF FreeSlot
    <3>3. CASE j \in Active /\ ~queue[j].stalled
      BY <1>1, <1>t, <3>3 DEF QueueTypeOK
    <3> QED
      BY <3>1, <3>2, <3>3
  <2> QED
    BY <2>1 DEF Runs
<1>5. Untouched(p)'
  BY <1>1, <1>4 DEF Untouched, IdleRecovery
<1>6. WorkedOn(p)' => Announced(p)'
  BY DEF WorkedOn, Announced, HasJob, Live
<1> QED
  BY <1>1, <1>3, <1>5, <1>6, <1>t DEF RowIsSafe, ConfirmedIsSafe, SweepingIsSafe, Announced

-----------------------------------------------------------------------------
(* The invariant.                                                             *)

\* The set of requeued payments holds accepted ones.
LEMMA RequeuedStayAccepted ==
  ASSUME IInv, RequeuedIsAccepted, AcceptedStay, [Next]_vars
  PROVE  RequeuedIsAccepted'
<1>1. \A p \in requeued' : p \in requeued \/ PastConfirmation(p)
  BY DEF Next, vars, Sweeping, SweepFrame, Recovering, RecoveryFrame, Environment, Blocks, Settles,
     Ages, EnvironmentFrame, Crash, WatcherCrash, watcherVars, Watching, WatcherStep, ReadOverdue,
     ExpireStuck, ReadLost, ReadPending, QueueConfirmed, ConfirmedUnannounced, QueueSweep, SweepRefused,
     ScanWallets, QueueDetected, DetectedUnannounced, EndScan, ScanThrows, QueueFailed, Requeue, RequeueRefused, RefuseJob,
     Confirm, SkipCheck, DetectDeposit, IInv, WatcherIsCurrent, At
<1>2. requeued \subseteq Payment /\ requeued' \subseteq Payment
  BY NextIInv DEF IInv, TypeOK, WatcherTypeOK
<1> QED
  BY <1>1, <1>2 DEF RequeuedIsAccepted, AcceptedStay

\* The pipeline takes no acceptance back.
LEMMA NextKeepsAccepted ==
  ASSUME IInv, [Next]_vars
  PROVE  AcceptedStay
<1>1. CASE UNCHANGED vars
  BY <1>1 DEF vars, storeVars, AcceptedStay, PastConfirmation
<1>2. CASE Crash
  BY <1>2 DEF Crash, rowVars, AcceptedStay, PastConfirmation
<1>3. CASE Sweeping
  BY <1>3, SweepKeeps, VerdictsKeptAcceptedStay
<1>4. CASE Recovering
  BY <1>4, RecoveryKeeps, VerdictsKeptAcceptedStay
<1>5. CASE Environment
  BY <1>5, EnvironmentKeeps, UnchangedKeepsVerdicts, VerdictsKeptAcceptedStay
<1> QED
  BY <1>1, <1>2, <1>3, <1>4, <1>5, WatcherKeeps DEF Next

\* Every step keeps every row safe.
LEMMA NextOwned == IInv /\ OwnedInv /\ [Next]_vars => OwnedInv'
<1> SUFFICES ASSUME IInv, OwnedInv, [Next]_vars PROVE OwnedInv'
  OBVIOUS
<1>t. RequeuedIsAccepted
  BY DEF OwnedInv, RequeuedIsAccepted
<1>1. ASSUME NEW p \in Payment PROVE RowIsSafe(p)'
  <2>t. RowIsSafe(p)
    BY DEF OwnedInv
  <2>1. CASE Environment \/ UNCHANGED vars
    <3>1. UNCHANGED <<status, sweepTx, queue, failedJobs, refused, requeued, rec, sweep, events>>
      BY <2>1 DEF Environment, Blocks, Settles, Ages, Age, EnvironmentFrame, vars, storeVars,
         watcherVars, recoveryVars
    <3> QED
      BY <2>t, <3>1, QuietKeepsSafe
  <2> QED
    BY <1>t, <2>t, <2>1, SweepKeepsSafe, WatcherKeepsSafe, RecoveryKeepsSafe, CrashKeepsSafe DEF Next
<1>2. RequeuedIsAccepted'
  BY <1>t, NextKeepsAccepted, RequeuedStayAccepted
<1> QED
  BY <1>1, <1>2 DEF OwnedInv, RequeuedIsAccepted

\* No row is accepted at the start.
LEMMA InitOwned == Init => OwnedInv
BY DEF Init, StoreInit, WatcherInit, OwnedInv, RowIsSafe

\* The invariant holds in every reachable state.
LEMMA AlwaysOwned == Spec => [](IInv /\ OwnedInv)
<1>1. IInv /\ OwnedInv /\ [Next]_vars => OwnedInv'
  BY NextOwned
<1> QED
  BY <1>1, InitOwned, AlwaysIInv, PTL DEF Spec

\* What the invariant is for.
LEMMA SafeIsOwned == OwnedInv => ConfirmedIsOwned /\ ClaimedIsWorkedOn /\ CompletedIsAnnounced
<1> SUFFICES ASSUME OwnedInv, NEW p \in Payment
             PROVE  /\ status[p] = "CONFIRMED" => Owned(p) \/ p \in failedJobs \/ p \in refused
                    /\ status[p] = "SWEEPING" /\ sweepTx[p] = NoTx => WorkedOn(p) \/ p \in failedJobs
                    /\ status[p] = "COMPLETED" => Announced(p)
  BY DEF ConfirmedIsOwned, ClaimedIsWorkedOn, CompletedIsAnnounced
<1>1. WorkedOn(p) => HasJob(p)
  BY DEF WorkedOn, HasJob, Live
<1> QED
  BY <1>1 DEF OwnedInv, RowIsSafe, ConfirmedIsSafe, SweepingIsSafe, Owned, InRecovery, Untouched

-----------------------------------------------------------------------------
(* The theorems.                                                              *)

\* Only a refused add orphans a confirmed payment: at every moment a job, the watcher,
\* the recovery or the next scan owns it, or its job is in the failed set, or Redis
\* refused its last add in this process, whatever else crashes or throws between a
\* status and a job (checkConfirmations, requeeLostSweeps, recoverStuckSweeps).
THEOREM OnlyRefusedAreOrphaned == Spec => []ConfirmedIsOwned
BY AlwaysOwned, SafeIsOwned, PTL

\* A claim outlives the process that made it: a SWEEPING payment without a hash always
\* has a job that works on it or will claim it again, or a failed one, for any number
\* of crashes, throws and overlapping recoveries (sweepPayment, recoverStuckSweeps).
THEOREM ClaimsAreWorkedOn == Spec => []ClaimedIsWorkedOn
BY AlwaysOwned, SafeIsOwned, PTL

\* No payment is COMPLETED in silence: its webhook is queued, or a job is left that
\* cannot end without queueing it, or the job is in the failed set, for any number of
\* crashes and whoever completed the row (sweepWorker.ts:24, worker.ts:62).
THEOREM NobodyCompletesInSilence == Spec => []CompletedIsAnnounced
BY AlwaysOwned, SafeIsOwned, PTL

=============================================================================
