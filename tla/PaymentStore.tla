---------------------------- MODULE PaymentStore ----------------------------
(***************************************************************************)
(* What the worker's components share: the payments table in PostgreSQL,   *)
(* the webhook_events rows queued for each payment, and the BullMQ queue   *)
(* of sweep jobs in Redis.  All of it outlives a crash of the worker.      *)
(*                                                                         *)
(* Time is left out.  `aged' holds the payments whose row is older than    *)
(* the limit its status is held to: 24 hours since createdAt for DETECTED  *)
(* (expireStuckDetected), 10 minutes since updatedAt for SWEEPING          *)
(* (recoverStuckSweeps).  A row may age at any moment; every write of      *)
(* the row makes it young again.                                           *)
(***************************************************************************)
EXTENDS Chain

CONSTANTS
  Job,          \* sweep jobs alive at one time (BOUND)
  MaxAttempts   \* attempts of a sweep job; 5 in every call of sweepQueue.add

ASSUME AttemptsAssumption == MaxAttempts \in Nat \ {0}

VARIABLES
  status,       \* payments.status, "NONE" before the row exists
  sweepTx,      \* payments.sweepTxHash
  aged,         \* payments whose row has outlived its limit
  events,       \* event types queued for each payment
  queue,        \* the sweep queue: waiting (or delayed) and active jobs
  failedJobs,   \* payments with a job in BullMQ's failed set
  refused       \* history: payments whose last sweepQueue.add in this process was
                \* refused by Redis; the program keeps no record of it

rowVars == <<status, sweepTx, aged>>
queueVars == <<queue, failedJobs, refused>>
storeVars == <<status, sweepTx, aged, events, queue, failedJobs, refused>>

PaymentStatus == {"NONE", "DETECTED", "CONFIRMED", "SWEEPING", "COMPLETED", "FAILED"}
EventType == {"PAYMENT_DETECTED", "PAYMENT_CONFIRMED", "PAYMENT_COMPLETED", "PAYMENT_FAILED"}
JobState == {"free", "waiting", "active"}

FreeSlot == [state |-> "free", pay |-> NoPayment, left |-> 0, stalled |-> FALSE]

StoreTypeOK ==
  /\ status \in [Payment -> PaymentStatus]
  /\ sweepTx \in [Payment -> Tx \cup {NoTx}]
  /\ aged \subseteq Payment
  /\ events \in [Payment -> SUBSET EventType]
  /\ queue \in [Job -> [state: JobState, pay: Payment \cup {NoPayment},
                        left: 0..MaxAttempts, stalled: BOOLEAN]]
  /\ failedJobs \subseteq Payment
  /\ refused \subseteq Payment

StoreInit ==
  /\ status = [p \in Payment |-> "NONE"]
  /\ sweepTx = [p \in Payment |-> NoTx]
  /\ aged = {}
  /\ events = [p \in Payment |-> {}]
  /\ queue = [j \in Job |-> FreeSlot]
  /\ failedJobs = {}
  /\ refused = {}

-----------------------------------------------------------------------------
(* Rows. *)

SetStatus(p, s) ==
  /\ status' = [status EXCEPT ![p] = s]
  /\ aged' = aged \ {p}

\* Mutant: the claim forgets its first alternative.
ClaimableForRetryOnly(p) == status[p] = "SWEEPING" /\ sweepTx[p] = NoTx

\* Mutant: the claim forgets its retry clause.
ClaimableOnce(p) == status[p] = "CONFIRMED"

\* The WHERE clause of the claim in sweepPayment.
Claimable(p) ==
  \/ status[p] = "CONFIRMED"
  \/ status[p] = "SWEEPING" /\ sweepTx[p] = NoTx

\* paymentService.onSweepCompleted: an update by id, whatever the status is.
CompleteRow(p, t) ==
  /\ SetStatus(p, "COMPLETED")
  /\ sweepTx' = [sweepTx EXCEPT ![p] = t]

\* webhookService.queueWebhook: one more webhook_events row.
QueueWebhook(p, e) == events' = [events EXCEPT ![p] = @ \cup {e}]

-----------------------------------------------------------------------------
(* The sweep queue. *)

Live(j) == queue[j].state # "free"
Active == {j \in Job : queue[j].state = "active"}
HasJob(p) == \E j \in Job : Live(j) /\ queue[j].pay = p

\* Mutant: the attempts are taken for retries after the first.
AddJobForRetries(p) ==
  /\ \E j \in Job :
       /\ ~Live(j)
       /\ queue' = [queue EXCEPT ![j] = [state |-> "waiting", pay |-> p,
                                         left |-> MaxAttempts + 1, stalled |-> FALSE]]
  /\ refused' = refused \ {p}
  /\ UNCHANGED failedJobs

\* sweepQueue.add: no jobId is given, so jobs of one payment are not merged.
AddJob(p) ==
  /\ \E j \in Job :
       /\ ~Live(j)
       /\ queue' = [queue EXCEPT ![j] = [state |-> "waiting", pay |-> p,
                                         left |-> MaxAttempts, stalled |-> FALSE]]
  /\ refused' = refused \ {p}
  /\ UNCHANGED failedJobs

\* sweepQueue.add throws: a lost connection is retried for ever
\* (maxRetriesPerRequest null), an error reply of Redis (out of memory, read-only,
\* no persistence) is not.
RefuseJob(p) ==
  /\ "throw" \in Adversity
  /\ refused' = refused \cup {p}
  /\ UNCHANGED <<queue, failedJobs>>

\* The processor returned: the job is done.
FinishJob(j) ==
  /\ queue' = [queue EXCEPT ![j] = FreeSlot]
  /\ UNCHANGED <<failedJobs, refused>>

\* The processor threw: the job is delayed for another attempt, or fails for good.
FailJob(j) ==
  /\ \/ /\ queue[j].left > 1
        /\ queue' = [queue EXCEPT ![j] = [@ EXCEPT !.state = "waiting", !.left = queue[j].left - 1]]
        /\ UNCHANGED failedJobs
     \/ /\ queue[j].left = 1
        /\ queue' = [queue EXCEPT ![j] = FreeSlot]
        /\ failedJobs' = failedJobs \cup {queue[j].pay}
  /\ UNCHANGED refused

\* The worker died holding its active jobs: BullMQ's stalled check puts each
\* back once, and fails a job that stalls a second time.
StallJobs ==
  /\ queue' = [j \in Job |->
       IF j \notin Active THEN queue[j]
       ELSE IF queue[j].stalled THEN FreeSlot
       ELSE [queue[j] EXCEPT !.state = "waiting", !.stalled = TRUE]]
  /\ failedJobs' = failedJobs \cup {queue[j].pay : j \in {k \in Active : queue[k].stalled}}
  /\ refused' = {}

\* Time passes: a row outlives the limit of its status.  Without the fault
\* "slow", ten minutes do not pass while a job of a SWEEPING payment is alive.
Age(p) ==
  /\ p \notin aged
  /\ \/ status[p] = "DETECTED"
     \/ status[p] = "SWEEPING" /\ ("slow" \in Adversity \/ ~HasJob(p))
  /\ aged' = aged \cup {p}
  /\ UNCHANGED <<status, sweepTx, events, queue, failedJobs, refused>>
=============================================================================
