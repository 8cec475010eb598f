---------------------------- MODULE BlockWatcher ----------------------------
(***************************************************************************)
(* The block watcher of one network (src/src/workers/blockWatcher.ts):     *)
(* scanNetwork run in a loop by watchNetwork.  One loop runs per network   *)
(* and reads only that network's rows, so one network is modelled.         *)
(* watcher holds scanNetwork's locals; requeued is requeuedOnStartup.      *)
(*                                                                         *)
(*   idle       between two scans                                          *)
(*   expire     expireStuckDetected found rows (todo)                      *)
(*   failing    they are FAILED, PAYMENT_FAILED is queued for each         *)
(*   lost       requeeLostSweeps is next                                   *)
(*   requeue    it found rows (todo)                                       *)
(*   check      checkConfirmations runs for each DETECTED row (todo)       *)
(*   confirmed  the row of cur is CONFIRMED, its webhook is next           *)
(*   announced  the webhook of cur is queued, its sweep job is next        *)
(*   wallets    the wallets are scanned for deposits                       *)
(*   detected   the row of cur exists, its webhook is next                 *)
(***************************************************************************)
EXTENDS PaymentStore

VARIABLES watcher, requeued

watcherVars == <<watcher, requeued>>

WatcherPc == {"idle", "expire", "failing", "lost", "requeue", "check",
              "confirmed", "announced", "wallets", "detected"}
IdleWatcher == [pc |-> "idle", todo |-> {}, cur |-> NoPayment]

WatcherTypeOK ==
  /\ watcher \in [pc: WatcherPc, todo: SUBSET Payment, cur: Payment \cup {NoPayment}]
  /\ requeued \subseteq Payment

WatcherInit ==
  /\ watcher = IdleWatcher
  /\ requeued = {}

At(pc) == watcher.pc = pc
Phase(pc, todo) == watcher' = [pc |-> pc, todo |-> todo, cur |-> NoPayment]
OnPayment(pc, p) == watcher' = [pc |-> pc, todo |-> watcher.todo \ {p}, cur |-> p]

-----------------------------------------------------------------------------
(* expireStuckDetected *)

\* Mutant: the status is missing from the WHERE clause.
OverdueInAnyStatus == {p \in Payment : p \in aged}

Overdue == {p \in Payment : status[p] = "DETECTED" /\ p \in aged}

ReadOverdue ==
  /\ At("idle")
  /\ Phase(IF Overdue = {} THEN "lost" ELSE "expire", Overdue)
  /\ UNCHANGED <<storeVars, requeued>>

\* Mutant: the updateMany is lost, the webhooks are not.
ExpireWithoutUpdate ==
  /\ At("expire")
  /\ Phase("failing", watcher.todo)
  /\ UNCHANGED <<storeVars, requeued>>

\* One updateMany over the ids that were read, whatever their status is by now.
ExpireStuck ==
  /\ At("expire")
  /\ status' = [p \in Payment |-> IF p \in watcher.todo THEN "FAILED" ELSE status[p]]
  /\ aged' = aged \ watcher.todo
  /\ Phase("failing", watcher.todo)
  /\ UNCHANGED <<sweepTx, events, queueVars, requeued>>

QueueFailed(p) ==
  /\ At("failing")
  /\ p \in watcher.todo
  /\ QueueWebhook(p, "PAYMENT_FAILED")
  /\ Phase(IF watcher.todo = {p} THEN "lost" ELSE "failing", watcher.todo \ {p})
  /\ UNCHANGED <<rowVars, queueVars, requeued>>

-----------------------------------------------------------------------------
(* requeeLostSweeps *)

Unswept(p) == sweepTx[p] = NoTx /\ status[p] \in {"CONFIRMED", "SWEEPING"}

\* The rows without a hash that this process has not requeued yet.
Lost == {p \in Payment : Unswept(p) /\ p \notin requeued}

ReadLost ==
  /\ At("lost")
  /\ Phase("requeue", Lost)
  /\ UNCHANGED <<storeVars, requeued>>

Requeue(p) ==
  /\ At("requeue")
  /\ p \in watcher.todo
  /\ requeued' = requeued \cup {p}
  /\ AddJob(p)
  /\ Phase("requeue", watcher.todo \ {p})
  /\ UNCHANGED <<rowVars, events>>

\* The payment is in requeuedOnStartup before the add is awaited, and stays in it
\* when the add throws: the scan is abandoned, and no later one requeues the payment.
RequeueRefused(p) ==
  /\ At("requeue")
  /\ p \in watcher.todo
  /\ requeued' = requeued \cup {p}
  /\ RefuseJob(p)
  /\ Phase("idle", {})
  /\ UNCHANGED <<rowVars, events>>

-----------------------------------------------------------------------------
(* checkConfirmations *)

ReadPending ==
  /\ At("requeue")
  /\ watcher.todo = {}
  /\ Phase("check", {p \in Payment : status[p] = "DETECTED"})
  /\ UNCHANGED <<storeVars, requeued>>

\* Mutant: the comparison with the required confirmations is dropped.
AnyConfirmations(p) == deposit[p] \in {"seen", "mature"}

EnoughConfirmations(p) == deposit[p] = "mature"

\* getTransaction shows the required confirmations: onPaymentConfirmed.
Confirm(p) ==
  /\ At("check")
  /\ p \in watcher.todo
  /\ EnoughConfirmations(p)
  /\ SetStatus(p, "CONFIRMED")
  /\ OnPayment("confirmed", p)
  /\ UNCHANGED <<sweepTx, events, queueVars, requeued>>

\* The transaction is unknown or not deep enough, or a call threw.
SkipCheck(p) ==
  /\ At("check")
  /\ p \in watcher.todo
  /\ ~EnoughConfirmations(p) \/ "throw" \in Adversity
  /\ Phase("check", watcher.todo \ {p})
  /\ UNCHANGED <<storeVars, requeued>>

QueueConfirmed ==
  /\ At("confirmed")
  /\ QueueWebhook(watcher.cur, "PAYMENT_CONFIRMED")
  /\ OnPayment("announced", watcher.cur)
  /\ UNCHANGED <<rowVars, queueVars, requeued>>

\* queueWebhook threw: the catch of the loop goes on with the next payment.
ConfirmedUnannounced ==
  /\ "throw" \in Adversity
  /\ At("confirmed")
  /\ Phase("check", watcher.todo)
  /\ UNCHANGED <<storeVars, requeued>>

QueueSweep ==
  /\ At("announced")
  /\ AddJob(watcher.cur)
  /\ Phase("check", watcher.todo)
  /\ UNCHANGED <<rowVars, events, requeued>>

\* The catch of the loop goes on, and the row stays CONFIRMED without a job.
SweepRefused ==
  /\ At("announced")
  /\ RefuseJob(watcher.cur)
  /\ Phase("check", watcher.todo)
  /\ UNCHANGED <<rowVars, events, requeued>>

-----------------------------------------------------------------------------
(* checkUserWalletForDeposit *)

ScanWallets ==
  /\ At("check")
  /\ watcher.todo = {}
  /\ Phase("wallets", {})
  /\ UNCHANGED <<storeVars, requeued>>

\* A transfer that has no row yet (txHash is unique) gets one.
DetectDeposit(p) ==
  /\ At("wallets")
  /\ deposit[p] \in {"seen", "mature"}
  /\ status[p] = "NONE"
  /\ SetStatus(p, "DETECTED")
  /\ OnPayment("detected", p)
  /\ UNCHANGED <<sweepTx, events, queueVars, requeued>>

QueueDetected ==
  /\ At("detected")
  /\ QueueWebhook(watcher.cur, "PAYMENT_DETECTED")
  /\ Phase("wallets", {})
  /\ UNCHANGED <<rowVars, queueVars, requeued>>

DetectedUnannounced ==
  /\ "throw" \in Adversity
  /\ At("detected")
  /\ Phase("wallets", {})
  /\ UNCHANGED <<storeVars, requeued>>

\* The scan ends, with or without having found every transfer.
EndScan ==
  /\ At("wallets")
  /\ Phase("idle", {})
  /\ UNCHANGED <<storeVars, requeued>>

\* A call outside the two loops' try blocks throws: the scan is abandoned and
\* watchNetwork starts the next one after its backoff.
ScanThrows ==
  /\ "throw" \in Adversity
  /\ watcher.pc \in {"expire", "failing", "lost", "requeue"}
  /\ At("requeue") => watcher.todo = {}
  /\ Phase("idle", {})
  /\ UNCHANGED <<storeVars, requeued>>

-----------------------------------------------------------------------------
WatcherStep ==
  \/ ReadOverdue \/ ExpireStuck \/ ReadLost \/ ReadPending \/ QueueConfirmed
  \/ ConfirmedUnannounced \/ QueueSweep \/ SweepRefused \/ ScanWallets
  \/ QueueDetected \/ DetectedUnannounced \/ EndScan \/ ScanThrows
  \/ \E p \in Payment : QueueFailed(p) \/ Requeue(p) \/ RequeueRefused(p) \/ Confirm(p)
                        \/ SkipCheck(p) \/ DetectDeposit(p)

\* Mutant: the set of requeued payments is persisted.
WatcherCrashKeepsSet ==
  /\ watcher' = IdleWatcher
  /\ UNCHANGED requeued

\* requeuedOnStartup and the scan in progress live in the process's memory.
WatcherCrash ==
  /\ watcher' = IdleWatcher
  /\ requeued' = {}
=============================================================================
